-------------------------- MODULE ExactlyOnceProofs --------------------------
(***************************************************************************)
(* What follows for a provider from the inductive invariant of the core    *)
(* (CoreInv of WageringProofs): backstops that stay silent, single         *)
(* reversals, final history, exactly-once application, durable answers,    *)
(* and an outbox that tells what happened.  Together they make the core an *)
(* implementation of the exactly-once ledger: read through committed rows, *)
(* each commit is one step of ExactlyOnceLedger and everything else is     *)
(* invisible.                                                              *)
(***************************************************************************)
EXTENDS WageringProofs, SequenceTheorems

-----------------------------------------------------------------------------
(* Reversals and backstops.                                                 *)

\* Under the wallet's lock the conditional UPDATE always matches, the index on the
\* resolved reference never refuses and a claimed row is never found settled.
THEOREM BackstopsStaySilent == Spec => []BackstopsSilent
<1>1. CoreInv => BackstopsSilent
  <2> SUFFICES ASSUME CoreInv, NEW p \in Procs, pc[p] = "write"
               PROVE  WriteOutcome(p) \notin {"version", "reversal", "terminal"}
    BY DEF BackstopsSilent
  <2>1. Decided(p)
    BY DEF CoreInv, HistoryInv, WorkInv
  <2>2. ~ReversalTaken(row[p])
    <3> SUFFICES ASSUME NEW id \in TxIds, ReversalClash(tx[id], row[p]) PROVE FALSE
      BY DEF ReversalTaken
    <3>1. id \in FindProcessedReversalOf(row[p].resolved) /\ row[p].resolved # None
      BY DEF ReversalClash, FindProcessedReversalOf
    <3> QED BY <2>1, <3>1 DEF Decided
  <2>3. ~AlreadyTerminal(p)
    BY DEF AlreadyTerminal, CoreInv, HistoryInv, WorkerInv, Terminal
  <2>4. ~VersionMoved(p)
    BY DEF VersionMoved, CoreInv, LockInv, LockedReadFresh, HoldsWallet
  <2> QED BY <2>2, <2>3, <2>4 DEF WriteOutcome
<1> QED BY <1>1, CoreInvariant, PTL

\* No operation is undone twice, through whichever path, and a reversal undoes only
\* the operation it names and agrees with.
THEOREM ReversedAtMostOnceAlways == Spec => []ReversedAtMostOnce
<1>1. CoreInv => ReversedAtMostOnce
  <2> SUFFICES ASSUME CoreInv, NEW r \in TxIds, tx[r].status = "PROCESSED",
                      IsReversal(tx[r].op.kind)
               PROVE  LET target == tx[tx[r].resolved]
                      IN  /\ tx[r].resolved \in TxIds
                          /\ FindProcessedReversalOf(tx[r].resolved) = {r}
                          /\ target.status = "PROCESSED"
                          /\ CanReverse(tx[r].op.kind, target.op.kind)
                          /\ target.op.ext = tx[r].op.ref
                          /\ \A f \in {"provider", "player", "wallet", "currency", "round",
                                       "amount"} : target.op[f] = tx[r].op[f]
    BY DEF ReversedAtMostOnce
  <2>1. RowInv(r)
    BY DEF CoreInv, HistoryInv
  <2>2. Reverses(tx[r], tx[r].resolved) /\ FindProcessedReversalOf(tx[r].resolved) = {r}
    BY <2>1 DEF RowInv
  <2> QED BY <2>2 DEF Reverses
<1> QED BY <1>1, CoreInvariant, PTL

-----------------------------------------------------------------------------
(* Finality.                                                                *)

\* A sequence that is not extended, or is extended at its end, keeps its beginning.
LEMMA Beginnings ==
    ASSUME NEW S, NEW s \in Seq(S), NEW u \in Seq(S), NEW e \in S
    PROVE  /\ SubSeq(s, 1, Len(s)) = s
           /\ SubSeq(Append(s, e), 1, Len(s)) = s
           /\ SubSeq(s \o u, 1, Len(s)) = s
<1>1. ASSUME NEW v \in Seq(S), Len(s) <= Len(v), \A i \in 1 .. Len(s) : v[i] = s[i]
      PROVE  SubSeq(v, 1, Len(s)) = s
  <2>1. Len(s) \in Nat /\ Len(s) - 1 + 1 = Len(s) /\ \A i \in 1 .. Len(s) : 1 + i - 1 = i
    OBVIOUS
  <2>2. \A i \in 1 .. Len(s) : v[i] \in S
    BY <1>1
  <2>3. /\ SubSeq(v, 1, Len(s)) \in Seq(S) /\ Len(SubSeq(v, 1, Len(s))) = Len(s)
        /\ \A i \in 1 .. Len(s) : SubSeq(v, 1, Len(s))[i] = v[i]
    BY <2>1, <2>2, SubSeqProperties
  <2> QED BY <1>1, <2>3, SeqEqual
<1>2. Len(s) \in Nat /\ Len(u) \in Nat
  OBVIOUS
<1>3. SubSeq(s, 1, Len(s)) = s
  BY <1>1, <1>2
<1>4. SubSeq(Append(s, e), 1, Len(s)) = s
  BY <1>1, <1>2, AppendProperties
<1>5. SubSeq(s \o u, 1, Len(s)) = s
  <2>1. /\ s \o u \in Seq(S) /\ Len(s) <= Len(s \o u)
        /\ \A i \in 1 .. Len(s) : (s \o u)[i] = s[i]
    BY <1>2, ConcatProperties
  <2> QED BY <1>1, <2>1
<1> QED BY <1>3, <1>4, <1>5

\* A wallet that is not open has announced nothing.
SilentUntilOpened == \A w \in Wallets : wallet[w].version = 0 => outbox[w] = << >>

\* What a process at its commit has in hand, with its types.
LEMMA AtCommit ==
    ASSUME CoreInv, NEW p \in Procs, pc[p] = "commit"
    PROVE  /\ row[p] \in TxRow /\ row[p].id \in TxIds /\ row[p].id \in Requests
           /\ row[p].op.wallet \in Wallets /\ seen[p] = wallet[row[p].op.wallet]
           /\ seen[p] \in WalletRow /\ seen[p].version > 0 /\ delta[p] \in Int
           /\ seen[p].balance + delta[p] \in Money
           /\ p \in Requests => row[p].id = p /\ tx[p].status = "ABSENT"
           /\ p \in Workers => /\ tx[row[p].id].status = "PENDING_REFERENCE"
                               /\ tx[row[p].id].op = row[p].op
           /\ Acceptable(row[p].op) /\ Decided(p)
<1> USE DEF CoreInv
<1>1. row[p] \in TxRow /\ row[p].id \in TxIds /\ row[p].op.wallet \in Wallets
      /\ seen[p] \in WalletRow /\ delta[p] \in Int /\ seen[p].balance + delta[p] \in Money
  BY DEF TypeInv, TypeOK, ProcessesOK, LocalsFit, TxRow, Ops
<1>2. seen[p] = wallet[row[p].op.wallet] /\ seen[p].version > 0
  BY DEF LockInv, LockedReadFresh, WalletsHeld, HoldsWallet
<1>3. Acceptable(row[p].op) /\ Decided(p)
  BY DEF HistoryInv, WorkInv
<1> QED BY <1>1, <1>2, <1>3, RowIsMine

\* What a commit changes: one row, and on its wallet at most one entry and some events.
LEMMA CommitWrites ==
    ASSUME CoreInv, NEW p \in Procs, pc[p] = "commit", Persist(p)
    PROVE  /\ tx'[row[p].id] = row[p]
           /\ \A i \in TxIds \ {row[p].id} : tx'[i] = tx[i]
           /\ delta[p] = 0 => UNCHANGED <<wallet, ledger>>
           /\ delta[p] # 0 =>
                \E e \in Entry :
                   /\ e = [tx |-> row[p].id, amount |-> delta[p], before |-> seen[p].balance,
                           after |-> seen[p].balance + delta[p]]
                   /\ ledger'[row[p].op.wallet] = Append(ledger[row[p].op.wallet], e)
                   /\ wallet'[row[p].op.wallet].balance = e.after
                   /\ wallet'[row[p].op.wallet].version = seen[p].version + 1
           /\ \A w \in Wallets \ {row[p].op.wallet} :
                 wallet'[w] = wallet[w] /\ ledger'[w] = ledger[w] /\ outbox'[w] = outbox[w]
           /\ \E es \in Seq(Event) :
                 outbox'[row[p].op.wallet] = outbox[row[p].op.wallet] \o es
<1> DEFINE t == row[p]
           w == t.op.wallet
           e == [tx |-> t.id, amount |-> delta[p], before |-> seen[p].balance,
                 after |-> seen[p].balance + delta[p]]
           types == IF p \in Workers /\ t.status = "PENDING_REFERENCE" THEN << >>
                    ELSE EventsForOutcome(t.status, delta[p] # 0)
           events == Announce(types, t.id, seen[p].version + 1)
<1>1. /\ t \in TxRow /\ t.id \in TxIds /\ w \in Wallets /\ wallet[w] \in WalletRow
      /\ seen[p] = wallet[w] /\ delta[p] \in Int /\ seen[p].balance + delta[p] \in Money
      /\ seen[p].version + 1 \in Nat /\ seen[p].balance \in Money
  BY AtCommit DEF WalletRow
<1>2. TablesOK
  BY DEF CoreInv, TypeInv, TypeOK
<1>3. events \in Seq(Event)
  <2>1. CASE p \in Workers /\ t.status = "PENDING_REFERENCE"
    BY <1>1, <2>1, AnnounceType
  <2>2. CASE ~(p \in Workers /\ t.status = "PENDING_REFERENCE")
    BY <1>1, <2>2, AnnounceType
  <2> QED BY <2>1, <2>2
<1>4. /\ tx' = [tx EXCEPT ![t.id] = t]
      /\ IF delta[p] # 0
         THEN /\ wallet' = [wallet EXCEPT ![w] = [@ EXCEPT !.balance = e.after,
                                                         !.version = seen[p].version + 1]]
              /\ ledger' = [ledger EXCEPT ![w] = Append(@, e)]
         ELSE UNCHANGED <<wallet, ledger>>
      /\ outbox' = [outbox EXCEPT ![w] = @ \o events]
  BY DEF Persist
<1>5. e \in Entry
  BY <1>1 DEF Entry
<1> HIDE DEF e, events
<1>6. tx'[t.id] = t /\ \A i \in TxIds \ {t.id} : tx'[i] = tx[i]
  BY <1>1, <1>2, <1>4 DEF TablesOK
<1>7. \A v \in Wallets \ {w} :
         wallet'[v] = wallet[v] /\ ledger'[v] = ledger[v] /\ outbox'[v] = outbox[v]
  BY <1>1, <1>2, <1>4 DEF TablesOK
<1>8. outbox'[w] = outbox[w] \o events
  BY <1>1, <1>2, <1>4 DEF TablesOK
<1>9. delta[p] # 0 => /\ ledger'[w] = Append(ledger[w], e)
                      /\ wallet'[w].balance = e.after /\ wallet'[w].version = seen[p].version + 1
  <2> SUFFICES ASSUME delta[p] # 0
               PROVE  /\ ledger'[w] = Append(ledger[w], e)
                      /\ wallet'[w].balance = e.after /\ wallet'[w].version = seen[p].version + 1
    OBVIOUS
  <2>1. ledger'[w] = Append(ledger[w], e)
    BY <1>1, <1>2, <1>4 DEF TablesOK
  <2>2. wallet'[w] = [wallet[w] EXCEPT !.balance = e.after, !.version = seen[p].version + 1]
    BY <1>1, <1>2, <1>4 DEF TablesOK
  <2> QED BY <1>1, <2>1, <2>2 DEF WalletRow
<1> QED BY <1>3, <1>4, <1>5, <1>6, <1>7, <1>8, <1>9 DEF e

\* What an opening changes: its wallet, which had no row, no entry and no event.
LEMMA OpeningWrites ==
    ASSUME CoreInv, SilentUntilOpened, NEW o \in Openings, OpenWallet(o)
    PROVE  /\ o.wallet \in Wallets /\ o.wallet \in TxIds /\ o.amount \in Money
           /\ tx[o.wallet].status = "ABSENT" /\ wallet[o.wallet].version = 0
           /\ Len(ledger[o.wallet]) = 0 /\ outbox[o.wallet] = << >>
           /\ wallet'[o.wallet].version = 1 /\ wallet'[o.wallet].balance = o.amount
           /\ \A w \in Wallets \ {o.wallet} :
                 wallet'[w] = wallet[w] /\ ledger'[w] = ledger[w] /\ outbox'[w] = outbox[w]
           /\ \A i \in TxIds \ {o.wallet} : tx'[i] = tx[i]
           /\ IF o.amount > 0
              THEN /\ tx'[o.wallet] = OpeningRow(o)
                   /\ ledger'[o.wallet] = <<[tx |-> o.wallet, amount |-> o.amount, before |-> 0,
                                             after |-> o.amount]>>
              ELSE UNCHANGED <<tx, ledger, outbox>>
<1> DEFINE w == o.wallet
<1>1. w \in Wallets /\ w \in TxIds /\ o.amount \in Money
  BY OpeningsAssumption DEF TxIds
<1>2. TablesOK
  BY DEF CoreInv, TypeInv, TypeOK
<1>3. wallet[w].version = 0 /\ outbox[w] = << >>
  BY <1>1 DEF OpenWallet, SilentUntilOpened
<1>4. tx[w].status = "ABSENT" /\ Len(ledger[w]) = 0
  BY <1>1, <1>2, <1>3 DEF CoreInv, LedgerExplainsBalance, Stored
<1>5. wallet'[w].version = 1 /\ wallet'[w].balance = o.amount
  BY <1>1, <1>2 DEF OpenWallet, TablesOK
<1>6. \A v \in Wallets \ {w} :
         wallet'[v] = wallet[v] /\ ledger'[v] = ledger[v] /\ outbox'[v] = outbox[v]
  BY <1>1, <1>2 DEF OpenWallet, TablesOK
<1>7. \A i \in TxIds \ {w} : tx'[i] = tx[i]
  BY <1>1, <1>2 DEF OpenWallet, TablesOK
<1>8. IF o.amount > 0
      THEN /\ tx'[w] = OpeningRow(o)
           /\ ledger'[w] = <<[tx |-> w, amount |-> o.amount, before |-> 0, after |-> o.amount]>>
      ELSE UNCHANGED <<tx, ledger, outbox>>
  BY <1>1, <1>2 DEF OpenWallet, TablesOK
<1> QED BY <1>1, <1>3, <1>4, <1>5, <1>6, <1>7, <1>8

\* Every other step leaves the tables alone.
LEMMA TablesMove ==
    ASSUME CoreInv, [Next]_vars
    PROVE  \/ \E o \in Openings : OpenWallet(o)
           \/ \E p \in Procs : /\ pc[p] = "commit" /\ Persist(p)
                               /\ Commit(p) \/ CommitUnacknowledged(p)
           \/ UNCHANGED db
<1>1. ProcessesOK
  BY DEF CoreInv, TypeInv, TypeOK
<1>2. ASSUME NEW p \in Procs,
             \/ p \in Requests /\ \E c \in Commands : Receive(p, c)
             \/ p \in Workers /\ \E id \in TxIds : Claim(p, id)
             \/ p \in Requests /\ (Lookup(p) \/ Reread(p))
             \/ LockWallet(p) \/ FindReference(p) \/ FindReversal(p) \/ Write(p)
      PROVE  UNCHANGED db
  BY <1>1, <1>2, StepsAlone
<1>3. ASSUME NEW p \in Procs, LoseRace(p) \/ Fault(p) PROVE UNCHANGED db
  BY <1>3 DEF LoseRace, Fault
<1>4. ASSUME UNCHANGED vars PROVE UNCHANGED db
  BY <1>4 DEF vars
<1> QED BY <1>2, <1>3, <1>4, NextCases DEF Commit, CommitUnacknowledged

\* Events are announced on open wallets only.
LEMMA SilentStep == CoreInv /\ SilentUntilOpened /\ [Next]_vars => SilentUntilOpened'
<1> SUFFICES ASSUME CoreInv, SilentUntilOpened, [Next]_vars PROVE SilentUntilOpened'
  OBVIOUS
<1>1. ASSUME NEW o \in Openings, OpenWallet(o) PROVE SilentUntilOpened'
  <2>1. wallet'[o.wallet].version = 1
        /\ \A w \in Wallets \ {o.wallet} : wallet'[w] = wallet[w] /\ outbox'[w] = outbox[w]
    BY <1>1, OpeningWrites
  <2> QED BY <2>1 DEF SilentUntilOpened
<1>2. ASSUME NEW p \in Procs, pc[p] = "commit", Persist(p) PROVE SilentUntilOpened'
  <2>1. /\ \A w \in Wallets \ {row[p].op.wallet} : wallet'[w] = wallet[w] /\ outbox'[w] = outbox[w]
        /\ delta[p] = 0 => UNCHANGED wallet
        /\ delta[p] # 0 => wallet'[row[p].op.wallet].version = seen[p].version + 1
    BY <1>2, CommitWrites
  <2>2. seen[p].version \in Nat /\ seen[p].version > 0 /\ seen[p] = wallet[row[p].op.wallet]
    BY <1>2, AtCommit DEF WalletRow
  <2>3. wallet'[row[p].op.wallet].version # 0
    BY <2>1, <2>2
  <2> QED BY <2>1, <2>3 DEF SilentUntilOpened
<1>3. ASSUME UNCHANGED db PROVE SilentUntilOpened'
  BY <1>3 DEF db, SilentUntilOpened
<1> QED BY <1>1, <1>2, <1>3, TablesMove

\* Every step is final.
LEMMA StepIsFinal == CoreInv /\ SilentUntilOpened /\ [Next]_vars => [FinalStep]_db
<1> SUFFICES ASSUME CoreInv, SilentUntilOpened, [Next]_vars, ~UNCHANGED db PROVE FinalStep
  BY DEF db
<1>0. TablesOK
  BY DEF CoreInv, TypeInv, TypeOK
<1>1. ASSUME NEW o \in Openings, OpenWallet(o) PROVE FinalStep
  <2>1. /\ tx[o.wallet].status = "ABSENT" /\ Len(ledger[o.wallet]) = 0
        /\ outbox[o.wallet] = << >>
        /\ \A w \in Wallets \ {o.wallet} : ledger'[w] = ledger[w] /\ outbox'[w] = outbox[w]
        /\ \A i \in TxIds \ {o.wallet} : tx'[i] = tx[i]
    BY <1>1, OpeningWrites
  <2>2. ASSUME NEW s, NEW u \in Seq(Entry) \cup Seq(Event), Len(u) = 0
        PROVE  SubSeq(s, 1, Len(u)) = u
    <3>1. SubSeq(s, 1, Len(u)) = << >>
      BY <2>2, SubSeqEmpty
    <3> QED BY <2>2, <3>1, EmptySeq
  <2>3. ASSUME NEW w \in Wallets
        PROVE  /\ SubSeq(ledger'[w], 1, Len(ledger[w])) = ledger[w]
               /\ SubSeq(outbox'[w], 1, Len(outbox[w])) = outbox[w]
    <3>1. ledger[w] \in Seq(Entry) /\ outbox[w] \in Seq(Event)
      BY <1>0 DEF TablesOK
    <3>2. CASE w = o.wallet
      BY <2>1, <2>2, <3>1, <3>2
    <3>3. CASE w # o.wallet
      BY <2>1, <3>1, <3>3, SubSeqFull
    <3> QED BY <3>2, <3>3
  <2> QED BY <2>1, <2>3 DEF FinalStep
<1>2. ASSUME NEW p \in Procs, pc[p] = "commit", Persist(p) PROVE FinalStep
  <2> DEFINE t == row[p]
             w == t.op.wallet
  <2>1. /\ tx'[t.id] = t /\ \A i \in TxIds \ {t.id} : tx'[i] = tx[i]
        /\ \A v \in Wallets \ {w} : ledger'[v] = ledger[v] /\ outbox'[v] = outbox[v]
        /\ delta[p] = 0 => ledger' = ledger
        /\ delta[p] # 0 => \E e \in Entry : ledger'[w] = Append(ledger[w], e)
        /\ \E es \in Seq(Event) : outbox'[w] = outbox[w] \o es
    BY <1>2, CommitWrites
  <2>2. \/ tx[t.id].status = "ABSENT"
        \/ /\ t.op = tx[t.id].op
           /\ \/ <<tx[t.id].status, t.status>> \in AllowedTransitions
              \/ /\ tx[t.id].status = "PENDING_REFERENCE"
                 /\ t = [tx[t.id] EXCEPT !.attempts = @ + 1]
    <3>1. CASE p \in Requests
      BY <1>2, <3>1, AtCommit
    <3>2. CASE p \in Workers
      <4>1. tx[t.id].status = "PENDING_REFERENCE" /\ tx[t.id].op = t.op /\ Decided(p)
        BY <1>2, <3>2, AtCommit
      <4>2. t.status \in {"PROCESSED", "REJECTED"} \/ t = RescheduleReference(tx[t.id])
        BY <3>2, <4>1 DEF Decided
      <4> QED BY <4>1, <4>2 DEF AllowedTransitions, Terminal, RescheduleReference
    <3> QED BY <3>1, <3>2 DEF Procs
  <2>3. ASSUME NEW v \in Wallets
        PROVE  /\ SubSeq(ledger'[v], 1, Len(ledger[v])) = ledger[v]
               /\ SubSeq(outbox'[v], 1, Len(outbox[v])) = outbox[v]
    <3>1. ledger[v] \in Seq(Entry) /\ outbox[v] \in Seq(Event)
      BY <1>0 DEF TablesOK
    <3>2. ledger'[v] = ledger[v] \/ \E e \in Entry : ledger'[v] = Append(ledger[v], e)
      BY <2>1
    <3>3. outbox'[v] = outbox[v] \/ \E es \in Seq(Event) : outbox'[v] = outbox[v] \o es
      BY <2>1
    <3>4. SubSeq(ledger'[v], 1, Len(ledger[v])) = ledger[v]
      <4>1. CASE ledger'[v] = ledger[v]
        BY <3>1, <4>1, SubSeqFull
      <4>2. ASSUME NEW e \in Entry, ledger'[v] = Append(ledger[v], e)
            PROVE  SubSeq(ledger'[v], 1, Len(ledger[v])) = ledger[v]
        BY <3>1, <4>2, Beginnings
      <4> QED BY <3>2, <4>1, <4>2
    <3>5. SubSeq(outbox'[v], 1, Len(outbox[v])) = outbox[v]
      <4>1. CASE outbox'[v] = outbox[v]
        BY <3>1, <4>1, SubSeqFull
      <4>2. ASSUME NEW es \in Seq(Event), outbox'[v] = outbox[v] \o es
            PROVE  SubSeq(outbox'[v], 1, Len(outbox[v])) = outbox[v]
        BY <3>1, <4>2, SubSeqOfConcat1, Beginnings
      <4> QED BY <3>3, <4>1, <4>2
    <3> QED BY <3>4, <3>5
  <2>4. \A i \in TxIds : tx'[i] # tx[i] => i = t.id
    BY <2>1
  <2> QED BY <2>1, <2>2, <2>3, <2>4 DEF FinalStep
<1> QED BY <1>1, <1>2, TablesMove

\* What is stored stays stored: no step of any process rewrites a settled row, an
\* identity, an entry of the ledger or an event of the outbox.
THEOREM HistoryIsAlwaysFinal == Spec => HistoryIsFinal
<1>1. Init => SilentUntilOpened
  BY DEF Init, SilentUntilOpened
<1>2. Spec => [](CoreInv /\ SilentUntilOpened)
  BY <1>1, CoreInvariant, SilentStep, PTL DEF Spec
<1> QED BY <1>2, StepIsFinal, PTL DEF Spec, HistoryIsFinal

-----------------------------------------------------------------------------
(* Exactly once.                                                            *)

\* AppliedExactlyOnce for one operation and one wallet.
AppliedOnce(id, w) ==
    IF tx[id].status = "PROCESSED" /\ MovesMoney(tx[id].op.kind) /\ tx[id].op.wallet = w
    THEN \E i \in DOMAIN ledger[w] :
            /\ EntriesOf(id, w) = {i}
            /\ ledger[w][i].amount = DueMovement(tx[id])
            /\ ledger[w][i].after = tx[id].balance
    ELSE EntriesOf(id, w) = {}

\* An entry at the end is the only change to the positions of entries.
LEMMA EntriesAppend ==
    ASSUME NEW w \in Wallets, ledger[w] \in Seq(Entry), NEW e \in Entry,
           ledger'[w] = Append(ledger[w], e)
    PROVE  /\ \A i \in DOMAIN ledger[w] : i \in DOMAIN ledger'[w] /\ ledger'[w][i] = ledger[w][i]
           /\ Len(ledger[w]) + 1 \in DOMAIN ledger'[w] /\ ledger'[w][Len(ledger[w]) + 1] = e
           /\ \A id : e.tx # id => EntriesOf(id, w)' = EntriesOf(id, w)
           /\ \A id : e.tx = id /\ EntriesOf(id, w) = {} =>
                         EntriesOf(id, w)' = {Len(ledger[w]) + 1}
<1> DEFINE n == Len(ledger[w])
<1>1. n \in Nat /\ DOMAIN ledger[w] = 1 .. n /\ DOMAIN ledger'[w] = 1 .. n + 1
      /\ ledger'[w][n + 1] = e /\ \A i \in 1 .. n : ledger'[w][i] = ledger[w][i]
  BY AppendProperties
<1>2. \A i : i \in 1 .. n + 1 <=> i \in 1 .. n \/ i = n + 1
  BY <1>1
<1>3. n + 1 \notin 1 .. n
  BY <1>1
<1> HIDE DEF n
<1>4. ASSUME NEW id, e.tx # id PROVE EntriesOf(id, w)' = EntriesOf(id, w)
  BY <1>1, <1>2, <1>3, <1>4 DEF EntriesOf
<1>5. ASSUME NEW id, e.tx = id, EntriesOf(id, w) = {} PROVE EntriesOf(id, w)' = {n + 1}
  BY <1>1, <1>2, <1>3, <1>5 DEF EntriesOf
<1> QED BY <1>1, <1>2, <1>4, <1>5 DEF n

\* What an applied row was due does not change when the rows settled before do not.
LEMMA DueStays ==
    ASSUME NEW id \in TxIds, RowInv(id), tx[id].status = "PROCESSED", tx'[id] = tx[id],
           \A j \in TxIds : tx[j].status = "PROCESSED" => tx'[j] = tx[j]
    PROVE  DueMovement(tx[id])' = DueMovement(tx[id])
<1>1. IsReversal(tx[id].op.kind) => tx'[tx[id].resolved] = tx[tx[id].resolved]
  BY DEF RowInv, Reverses
<1> QED BY <1>1 DEF DueMovement

\* Nothing happened to the row or to the wallet's ledger.
LEMMA AppliedStays ==
    ASSUME NEW id \in TxIds, NEW w \in Wallets, AppliedOnce(id, w), RowInv(id),
           tx'[id] = tx[id], \A j \in TxIds : tx[j].status = "PROCESSED" => tx'[j] = tx[j],
           \/ ledger'[w] = ledger[w]
           \/ \E e \in Entry : /\ ledger[w] \in Seq(Entry) /\ e.tx # id
                               /\ ledger'[w] = Append(ledger[w], e)
    PROVE  AppliedOnce(id, w)'
<1>1. EntriesOf(id, w)' = EntriesOf(id, w)
      /\ \A i \in DOMAIN ledger[w] : i \in DOMAIN ledger'[w] /\ ledger'[w][i] = ledger[w][i]
  <2>1. CASE ledger'[w] = ledger[w]
    BY <2>1 DEF EntriesOf
  <2>2. ASSUME NEW e \in Entry, ledger[w] \in Seq(Entry), e.tx # id,
               ledger'[w] = Append(ledger[w], e)
        PROVE  /\ EntriesOf(id, w)' = EntriesOf(id, w)
               /\ \A i \in DOMAIN ledger[w] :
                     i \in DOMAIN ledger'[w] /\ ledger'[w][i] = ledger[w][i]
    BY <2>2, EntriesAppend
  <2> QED BY <2>1, <2>2
<1>2. tx[id].status = "PROCESSED" => DueMovement(tx[id])' = DueMovement(tx[id])
  BY DueStays
<1> QED BY <1>1, <1>2 DEF AppliedOnce

\* A commit applies its operation once and disturbs no other.
LEMMA CommitApplies ==
    ASSUME CoreInv, AppliedExactlyOnce, NEW p \in Procs, pc[p] = "commit", Persist(p),
           NEW id \in TxIds, NEW w \in Wallets
    PROVE  AppliedOnce(id, w)'
<1>0. PICK t : t = row[p]
  OBVIOUS
<1>1. /\ t.id \in TxIds /\ tx[t.id].status # "PROCESSED" /\ Decided(p) /\ t.op.wallet \in Wallets
      /\ \A j \in TxIds : tx[j].status = "PROCESSED" => j # t.id
  BY <1>0, AtCommit DEF Procs
<1>2. /\ tx'[t.id] = t /\ \A i \in TxIds \ {t.id} : tx'[i] = tx[i]
      /\ \A v \in Wallets \ {t.op.wallet} : ledger'[v] = ledger[v]
      /\ delta[p] = 0 => ledger' = ledger
  BY <1>0, CommitWrites
<1>3. delta[p] # 0 => \E e \in Entry :
                         /\ e = [tx |-> t.id, amount |-> delta[p], before |-> seen[p].balance,
                                 after |-> seen[p].balance + delta[p]]
                         /\ ledger'[t.op.wallet] = Append(ledger[t.op.wallet], e)
  BY <1>0, CommitWrites
<1>4. AppliedOnce(id, w) /\ RowInv(id) /\ ledger[w] \in Seq(Entry)
  BY DEF AppliedExactlyOnce, AppliedOnce, CoreInv, HistoryInv, TypeInv, TypeOK, TablesOK
<1>5. \A j \in TxIds : tx[j].status = "PROCESSED" => tx'[j] = tx[j]
  BY <1>1, <1>2
<1>6. CASE id # t.id
  <2>1. tx'[id] = tx[id]
    BY <1>2, <1>6
  <2>2. \/ ledger'[w] = ledger[w]
        \/ \E e \in Entry : /\ ledger[w] \in Seq(Entry) /\ e.tx # id
                            /\ ledger'[w] = Append(ledger[w], e)
    BY <1>2, <1>3, <1>4, <1>6
  <2> QED BY <1>4, <1>5, <2>1, <2>2, AppliedStays
<1>7. CASE id = t.id
  <2>1. EntriesOf(id, w) = {} /\ tx'[id] = t
    BY <1>1, <1>2, <1>4, <1>7 DEF AppliedOnce
  <2>2. CASE w = t.op.wallet /\ delta[p] # 0
    <3>1. /\ t.status = "PROCESSED" /\ MovesMoney(t.op.kind)
          /\ delta[p] = DueMovement(t) /\ t.balance = seen[p].balance + delta[p]
      BY <1>0, <1>1, <2>2 DEF Decided
    <3>2. DueMovement(t)' = DueMovement(t)
      <4>1. IsReversal(t.op.kind) => tx'[t.resolved] = tx[t.resolved]
        BY <1>0, <1>1, <1>5, <3>1 DEF Decided, Reverses
      <4> QED BY <4>1 DEF DueMovement
    <3>3. PICK e \in Entry : /\ e.tx = t.id /\ e.amount = delta[p]
                             /\ e.after = seen[p].balance + delta[p]
                             /\ ledger'[w] = Append(ledger[w], e)
      BY <1>3, <2>2
    <3>4. /\ EntriesOf(id, w)' = {Len(ledger[w]) + 1} /\ Len(ledger[w]) + 1 \in DOMAIN ledger'[w]
          /\ ledger'[w][Len(ledger[w]) + 1] = e
      <4>1. e.tx = id /\ ledger[w] \in Seq(Entry) /\ ledger'[w] = Append(ledger[w], e)
        BY <1>4, <1>7, <3>3
      <4>2. /\ Len(ledger[w]) + 1 \in DOMAIN ledger'[w] /\ ledger'[w][Len(ledger[w]) + 1] = e
            /\ \A i : e.tx = i /\ EntriesOf(i, w) = {} =>
                         EntriesOf(i, w)' = {Len(ledger[w]) + 1}
        BY <4>1, EntriesAppend
      <4> QED BY <2>1, <4>1, <4>2
    <3> QED BY <2>1, <2>2, <3>1, <3>2, <3>3, <3>4 DEF AppliedOnce
  <2>3. CASE ~(w = t.op.wallet /\ delta[p] # 0)
    <3>1. EntriesOf(id, w)' = {}
      BY <1>2, <2>1, <2>3 DEF EntriesOf
    <3>2. ~(t.status = "PROCESSED" /\ MovesMoney(t.op.kind) /\ t.op.wallet = w)
      BY <1>0, <1>1, <2>3 DEF Decided
    <3> QED BY <2>1, <3>1, <3>2 DEF AppliedOnce
  <2> QED BY <2>2, <2>3
<1> QED BY <1>6, <1>7

\* An opening with money is an operation that is applied once; the wallet had none.
LEMMA OpeningApplies ==
    ASSUME CoreInv, SilentUntilOpened, AppliedExactlyOnce, NEW o \in Openings, OpenWallet(o),
           NEW id \in TxIds, NEW w \in Wallets
    PROVE  AppliedOnce(id, w)'
<1>1. /\ o.wallet \in TxIds /\ o.amount \in Money /\ Len(ledger[o.wallet]) = 0
      /\ tx[o.wallet].status = "ABSENT"
      /\ \A v \in Wallets \ {o.wallet} : ledger'[v] = ledger[v]
      /\ \A i \in TxIds \ {o.wallet} : tx'[i] = tx[i]
      /\ IF o.amount > 0
         THEN /\ tx'[o.wallet] = OpeningRow(o)
              /\ ledger'[o.wallet] = <<[tx |-> o.wallet, amount |-> o.amount, before |-> 0,
                                        after |-> o.amount]>>
         ELSE UNCHANGED <<tx, ledger>>
  BY OpeningWrites
<1>2. AppliedOnce(id, w) /\ RowInv(id) /\ ledger[w] \in Seq(Entry)
  BY DEF AppliedExactlyOnce, AppliedOnce, CoreInv, HistoryInv, TypeInv, TypeOK, TablesOK
<1>3. \A j \in TxIds : tx[j].status = "PROCESSED" => tx'[j] = tx[j]
  BY <1>1
<1>4. CASE ~(o.amount > 0)
  BY <1>1, <1>2, <1>3, <1>4, AppliedStays
<1>5. CASE o.amount > 0 /\ id # o.wallet /\ w # o.wallet
  BY <1>1, <1>2, <1>3, <1>5, AppliedStays
<1>6. CASE o.amount > 0 /\ id # o.wallet /\ w = o.wallet
  <2>1. DOMAIN ledger[w] = {}
    BY <1>1, <1>2, <1>6
  <2>2. ~(tx[id].status = "PROCESSED" /\ MovesMoney(tx[id].op.kind) /\ tx[id].op.wallet = w)
    BY <1>2, <2>1 DEF AppliedOnce
  <2>3. DOMAIN ledger'[w] = {1} /\ ledger'[w][1].tx = o.wallet
    BY <1>1, <1>6
  <2>4. EntriesOf(id, w)' = {}
    BY <1>6, <2>3 DEF EntriesOf
  <2> QED BY <1>1, <1>6, <2>2, <2>4 DEF AppliedOnce
<1>7. CASE o.amount > 0 /\ id = o.wallet
  <2>1. /\ tx'[id].status = "PROCESSED" /\ tx'[id].op.kind = "OPENING" /\ tx'[id].op.wallet = id
        /\ tx'[id].balance = o.amount /\ tx'[id].op.amount = o.amount
    <3>1. LET t == OpeningRow(o)
          IN  /\ t.status = "PROCESSED" /\ t.op.kind = "OPENING" /\ t.op.wallet = o.wallet
              /\ t.balance = o.amount /\ t.op.amount = o.amount
      BY DEF OpeningRow, NewTx, NoOp
    <3>2. tx'[id] = OpeningRow(o)
      BY <1>1, <1>7
    <3> QED BY <1>7, <3>1, <3>2
  <2>2. MovesMoney(tx'[id].op.kind) /\ DueMovement(tx[id])' = o.amount
    BY <2>1 DEF MovesMoney, DueMovement, IsReversal, Direction, Signed
  <2>3. CASE w = o.wallet
    <3>1. DOMAIN ledger'[w] = {1} /\ ledger'[w][1].tx = o.wallet
          /\ ledger'[w][1].amount = o.amount /\ ledger'[w][1].after = o.amount
      BY <1>1, <1>7, <2>3
    <3>2. EntriesOf(id, w)' = {1}
      BY <1>7, <3>1 DEF EntriesOf
    <3> QED BY <1>7, <2>1, <2>2, <2>3, <3>1, <3>2 DEF AppliedOnce
  <2>4. CASE w # o.wallet
    <3>1. EntriesOf(id, w) = {}
      BY <1>1, <1>2, <1>7 DEF AppliedOnce
    <3>2. EntriesOf(id, w)' = {}
      BY <1>1, <2>4, <3>1 DEF EntriesOf
    <3> QED BY <1>7, <2>1, <2>4, <3>2 DEF AppliedOnce
  <2> QED BY <2>3, <2>4
<1> QED BY <1>4, <1>5, <1>6, <1>7

\* Every step keeps application exact.
LEMMA AppliedStep ==
    CoreInv /\ SilentUntilOpened /\ AppliedExactlyOnce /\ [Next]_vars => AppliedExactlyOnce'
<1> SUFFICES ASSUME CoreInv, SilentUntilOpened, AppliedExactlyOnce, [Next]_vars,
                    NEW id \in TxIds, NEW w \in Wallets
             PROVE  AppliedOnce(id, w)'
  BY DEF AppliedExactlyOnce, AppliedOnce
<1>1. ASSUME UNCHANGED db PROVE AppliedOnce(id, w)'
  <2>1. AppliedOnce(id, w) /\ RowInv(id) /\ UNCHANGED <<tx, ledger>>
    BY <1>1 DEF AppliedExactlyOnce, AppliedOnce, CoreInv, HistoryInv, db
  <2> QED BY <2>1, AppliedStays
<1> QED BY <1>1, TablesMove, OpeningApplies, CommitApplies

\* Before the first commit no operation is in the ledger and no event in the outbox.
LEMMA InitApplied == Init => SilentUntilOpened /\ AppliedExactlyOnce
<1> SUFFICES ASSUME Init PROVE SilentUntilOpened /\ AppliedExactlyOnce
  OBVIOUS
<1>1. \A id \in TxIds : tx[id].status = "ABSENT"
  BY DEF Init, NoRow, NewTx
<1>2. \A w \in Wallets : outbox[w] = << >> /\ DOMAIN ledger[w] = {}
  BY DEF Init
<1> QED BY <1>1, <1>2 DEF SilentUntilOpened, AppliedExactlyOnce, EntriesOf

\* An operation is in the ledger if and only if it is applied and moves money, and then
\* once, whatever the resends, retries, workers, crashes and lost acknowledgements.
THEOREM AppliedExactlyOnceAlways == Spec => []AppliedExactlyOnce
<1>1. Spec => [](CoreInv /\ SilentUntilOpened /\ AppliedExactlyOnce)
  BY InitApplied, CoreInvariant, SilentStep, AppliedStep, PTL DEF Spec
<1> QED BY <1>1, PTL

-----------------------------------------------------------------------------
(* Answers.                                                                 *)

\* A result names a stored row of the operation that was sent; a final status in it,
\* with its code and balance, is the row's.
Told(a, op) ==
    /\ a.id \in TxIds /\ Stored(a.id) /\ External(tx[a.id]) /\ tx[a.id].op = op
    /\ a.status \in Terminal =>
          /\ tx[a.id].status = a.status /\ tx[a.id].code = a.code
          /\ a.status = "PROCESSED" => tx[a.id].balance = a.balance

AnswersInv ==
    \A r \in Requests :
        answer[r].kind = "result" => pc[r] = "done" /\ Told(answer[r], row[r].op)

\* A stored row keeps its operation, and a settled one everything.
LEMMA StoredStay ==
    ASSUME CoreInv, SilentUntilOpened, [Next]_vars, NEW i \in TxIds, Stored(i)
    PROVE  /\ Stored(i)' /\ tx'[i].op = tx[i].op
           /\ tx[i].status \in Terminal => tx'[i] = tx[i]
<1>1. CASE tx'[i] = tx[i]
  BY <1>1 DEF Stored
<1>2. CASE tx'[i] # tx[i]
  <2>1. FinalStep
    BY <1>2, StepIsFinal DEF db
  <2>2. /\ tx'[i].op = tx[i].op
        /\ \/ <<tx[i].status, tx'[i].status>> \in AllowedTransitions
           \/ /\ tx[i].status = "PENDING_REFERENCE"
              /\ tx'[i] = [tx[i] EXCEPT !.attempts = @ + 1]
    BY <1>2, <2>1 DEF FinalStep, Stored
  <2>3. tx[i] \in TxRow
    BY DEF CoreInv, TypeInv, TypeOK, TablesOK
  <2> QED BY <2>2, <2>3 DEF AllowedTransitions, Terminal, Stored, TxRow
<1> QED BY <1>1, <1>2

\* What was told stays true.
LEMMA ToldStays ==
    ASSUME CoreInv, SilentUntilOpened, [Next]_vars, NEW a, NEW op, Told(a, op)
    PROVE  /\ a.id \in TxIds /\ Stored(a.id)' /\ External(tx'[a.id]) /\ tx'[a.id].op = op
           /\ a.status \in Terminal =>
                 /\ tx'[a.id].status = a.status /\ tx'[a.id].code = a.code
                 /\ a.status = "PROCESSED" => tx'[a.id].balance = a.balance
<1>1. a.id \in TxIds /\ Stored(a.id)
  BY DEF Told
<1>2. /\ Stored(a.id)' /\ tx'[a.id].op = tx[a.id].op
      /\ tx[a.id].status \in Terminal => tx'[a.id] = tx[a.id]
  BY <1>1, StoredStay
<1> QED BY <1>1, <1>2 DEF Told, External

\* The content a payload hash covers and the key are the whole operation.
LEMMA ContentAndKey ==
    ASSUME NEW a \in Ops, NEW b \in Ops, Content(a) = Content(b), a.key = b.key
    PROVE  a = b
<1>1. \A f \in {"provider", "ext", "wallet", "player", "currency", "round", "kind", "amount",
               "ref"} : Content(a)[f] = a[f] /\ Content(b)[f] = b[f]
  BY DEF Content, Ops
<1>2. \A f \in {"provider", "ext", "key", "wallet", "player", "currency", "round", "kind",
               "amount", "ref"} : a[f] = b[f]
  BY <1>1
<1> QED BY <1>2 DEF Ops

\* A replay tells what is stored.
LEMMA ReplayTells ==
    ASSUME CoreInv, NEW op \in Ops, NEW id \in FindByBusinessID(op.provider, op.ext),
           Replay(tx[id], op).kind = "result"
    PROVE  Told(Replay(tx[id], op), op)
<1>1. id \in TxIds /\ Stored(id) /\ External(tx[id]) /\ tx[id].id = id /\ tx[id].op \in Ops
  BY DEF FindByBusinessID, CoreInv, TypeInv, TypeOK, TablesOK, TxRow, LockInv, RowsOwned
<1>2. Content(tx[id].op) = Content(op) /\ tx[id].op.key = op.key
      /\ Replay(tx[id], op) = Result(tx[id], tx[id].balance, TRUE)
  BY DEF Replay, Refusal, NoAnswer
<1>3. tx[id].op = op
  BY <1>1, <1>2, ContentAndKey
<1>4. LET a == Result(tx[id], tx[id].balance, TRUE)
      IN  a.id = id /\ a.status = tx[id].status /\ a.code = tx[id].code /\ a.balance = tx[id].balance
  BY <1>1 DEF Result
<1> QED BY <1>1, <1>2, <1>3, <1>4 DEF Told

\* A step of p gives at most p an answer, and only when p returns: a refusal, the
\* replay of a row found under its identity, or what it has just committed.
LEMMA AnswerMoves ==
    ASSUME CoreInv, NEW p \in Procs,
           \/ p \in Requests /\ \E c \in Commands : Receive(p, c)
           \/ p \in Workers /\ \E id \in TxIds : Claim(p, id)
           \/ p \in Requests /\ (Lookup(p) \/ Reread(p))
           \/ LockWallet(p) \/ FindReference(p) \/ FindReversal(p)
           \/ Write(p) \/ LoseRace(p) \/ Fault(p)
           \/ Commit(p) \/ CommitUnacknowledged(p)
    PROVE  /\ pc[p] # "done"
           /\ \/ answer' = answer
              \/ \E a : /\ Return(p, a)
                        /\ \/ a.kind # "result"
                           \/ /\ UNCHANGED db
                              /\ \E id \in FindByBusinessID(row[p].op.provider, row[p].op.ext) :
                                    a = Replay(tx[id], row[p].op)
                           \/ /\ pc[p] = "commit" /\ Persist(p)
                              /\ a = Result(row[p], IF row[p].status = "PROCESSED"
                                                    THEN row[p].balance ELSE seen[p].balance, FALSE)
<1> DEFINE Refused == \E a : Return(p, a) /\ a.kind # "result"
<1>1. \A k \in {"conflict", "invalid", "not_found", "failed"} : Refusal(k).kind # "result"
  BY DEF Refusal, NoAnswer
<1>2. ASSUME Fails(p) \/ Retry(p) PROVE answer' = answer \/ Refused
  <2>1. CASE Fails(p)
    BY <1>1, <2>1 DEF Fails, EndWork
  <2> QED BY <1>2, <2>1 DEF Retry
<1>3. CASE \/ \E c \in Commands : Receive(p, c)
           \/ \E id \in TxIds : Claim(p, id)
  BY <1>3 DEF Receive, Claim
<1>4. CASE Lookup(p)
  BY <1>1, <1>4 DEF Lookup
<1>5. CASE Reread(p)
  BY <1>1, <1>5 DEF Reread
<1>6. CASE LockWallet(p)
  BY <1>1, <1>6 DEF LockWallet
<1>7. CASE FindReference(p) \/ FindReversal(p) \/ Write(p)
  BY <1>7 DEF FindReference, FindReversal, Write
<1>8. CASE LoseRace(p)
  <2>1. pc[p] # "done"
    BY <1>8 DEF LoseRace
  <2> QED BY <1>1, <1>2, <1>8, <2>1, LoseRaceCases DEF EndWork
<1>9. CASE Fault(p)
  BY <1>2, <1>9 DEF Fault
<1>10. CASE Commit(p)
  BY <1>10 DEF Commit, EndWork
<1>11. CASE CommitUnacknowledged(p)
  BY <1>2, <1>11 DEF CommitUnacknowledged
<1> QED BY <1>3, <1>4, <1>5, <1>6, <1>7, <1>8, <1>9, <1>10, <1>11

\* Every step keeps the answers true.
LEMMA AnswerStep ==
    CoreInv /\ SilentUntilOpened /\ AnswersInv /\ [Next]_vars => AnswersInv'
<1> SUFFICES ASSUME CoreInv, SilentUntilOpened, AnswersInv, [Next]_vars,
                    NEW r \in Requests, answer'[r].kind = "result"
             PROVE  pc'[r] = "done" /\ Told(answer[r], row[r].op)'
  BY DEF AnswersInv
<1>0. ProcessesOK /\ r \in Procs
  BY DEF CoreInv, TypeInv, TypeOK, Procs
<1>1. ASSUME answer'[r] = answer[r], pc[r] = "done" => pc'[r] = "done" /\ row'[r] = row[r]
      PROVE  pc'[r] = "done" /\ Told(answer[r], row[r].op)'
  <2>1. pc[r] = "done" /\ Told(answer[r], row[r].op)
    BY <1>1 DEF AnswersInv
  <2> QED BY <1>1, <2>1, ToldStays DEF Told
<1>2. ASSUME NEW o \in Openings, OpenWallet(o)
      PROVE  pc'[r] = "done" /\ Told(answer[r], row[r].op)'
  BY <1>1, <1>2 DEF OpenWallet, locals
<1>3. ASSUME UNCHANGED vars
      PROVE  pc'[r] = "done" /\ Told(answer[r], row[r].op)'
  BY <1>1, <1>3 DEF vars, locals
<1>4. ASSUME NEW p \in Procs,
             \/ p \in Requests /\ \E c \in Commands : Receive(p, c)
             \/ p \in Workers /\ \E id \in TxIds : Claim(p, id)
             \/ p \in Requests /\ (Lookup(p) \/ Reread(p))
             \/ LockWallet(p) \/ FindReference(p) \/ FindReversal(p)
             \/ Write(p) \/ LoseRace(p) \/ Fault(p)
             \/ Commit(p) \/ CommitUnacknowledged(p)
      PROVE  pc'[r] = "done" /\ Told(answer[r], row[r].op)'
  <2>1. Alone(p)
    BY <1>0, <1>4, StepsAlone, WritesLetGo
  <2>2. /\ pc[p] # "done"
        /\ \/ answer' = answer
           \/ \E a : /\ Return(p, a)
                     /\ \/ a.kind # "result"
                        \/ /\ UNCHANGED db
                           /\ \E id \in FindByBusinessID(row[p].op.provider, row[p].op.ext) :
                                 a = Replay(tx[id], row[p].op)
                        \/ /\ pc[p] = "commit" /\ Persist(p)
                           /\ a = Result(row[p], IF row[p].status = "PROCESSED"
                                                 THEN row[p].balance ELSE seen[p].balance, FALSE)
    BY <1>4, AnswerMoves
  <2>3. CASE answer' = answer
    BY <1>0, <1>1, <2>1, <2>2, <2>3 DEF Alone
  <2>4. CASE r # p
    <3>1. answer'[r] = answer[r]
      BY <1>0, <2>2, <2>4 DEF Return, ProcessesOK
    <3> QED BY <1>0, <1>1, <2>1, <2>4, <3>1 DEF Alone
  <2>5. ASSUME r = p, NEW a, Return(p, a),
               \/ a.kind # "result"
               \/ /\ UNCHANGED db
                  /\ \E id \in FindByBusinessID(row[p].op.provider, row[p].op.ext) :
                        a = Replay(tx[id], row[p].op)
               \/ /\ pc[p] = "commit" /\ Persist(p)
                  /\ a = Result(row[p], IF row[p].status = "PROCESSED"
                                        THEN row[p].balance ELSE seen[p].balance, FALSE)
        PROVE  pc'[r] = "done" /\ Told(answer[r], row[r].op)'
    <3>1. pc'[r] = "done" /\ row'[r] = NewTx(r, row[r].op) /\ answer'[r] = a
      BY <1>0, <2>5 DEF Return, Goto, Forget, ProcessesOK
    <3>2. row'[r].op = row[r].op
      BY <3>1, FreshRow
    <3>3. CASE UNCHANGED db /\ \E id \in FindByBusinessID(row[p].op.provider, row[p].op.ext) :
                                  a = Replay(tx[id], row[p].op)
      <4>1. row[r].op \in Ops
        BY <1>0 DEF ProcessesOK, TxRow
      <4>2. Told(a, row[r].op)
        BY <2>5, <3>1, <3>3, <4>1, ReplayTells
      <4> QED BY <3>1, <3>2, <3>3, <4>2 DEF Told, Stored, db
    <3>4. CASE pc[p] = "commit" /\ Persist(p)
               /\ a = Result(row[p], IF row[p].status = "PROCESSED"
                                     THEN row[p].balance ELSE seen[p].balance, FALSE)
      <4>1. /\ row[r].id \in TxIds /\ tx'[row[r].id] = row[r]
            /\ Acceptable(row[r].op) /\ Decided(r)
        BY <2>5, <3>4, AtCommit, CommitWrites
      <4>2. a.id = row[r].id /\ a.status = row[r].status /\ a.code = row[r].code
            /\ (row[r].status = "PROCESSED" => a.balance = row[r].balance)
        BY <2>5, <3>4 DEF Result
      <4>3. row[r].status # "ABSENT" /\ External(row[r])
        BY <4>1 DEF Decided, Acceptable, External
      <4> QED BY <3>1, <3>2, <4>1, <4>2, <4>3 DEF Told, Stored
    <3> QED BY <2>5, <3>1, <3>3, <3>4
  <2> QED BY <2>2, <2>3, <2>4, <2>5
<1> QED BY <1>2, <1>3, <1>4, NextCases

\* What a provider is told names the one stored row of its operation, and a final
\* status, code and balance in it stay true whatever happens afterwards.
THEOREM AnswersAreDurableAlways == Spec => []AnswersAreDurable
<1>1. Init => SilentUntilOpened /\ AnswersInv
  BY DEF Init, SilentUntilOpened, AnswersInv, NoAnswer
<1>2. Spec => [](CoreInv /\ SilentUntilOpened /\ AnswersInv)
  BY <1>1, CoreInvariant, SilentStep, AnswerStep, PTL DEF Spec
<1>3. CoreInv /\ AnswersInv => AnswersAreDurable
  <2> SUFFICES ASSUME CoreInv, AnswersInv, NEW r \in Requests, answer[r].kind = "result"
               PROVE  LET t == tx[answer[r].id]
                      IN  /\ Stored(answer[r].id)
                          /\ t.op = row[r].op
                          /\ answer[r].status \in Terminal =>
                                /\ t.status = answer[r].status /\ t.code = answer[r].code
                                /\ t.status = "PROCESSED" => t.balance = answer[r].balance
                          /\ \A q \in Requests :
                                answer[q].kind = "result" /\ row[q].op = row[r].op
                                   => answer[q].id = answer[r].id
    BY DEF AnswersAreDurable
  <2>1. Told(answer[r], row[r].op)
    BY DEF AnswersInv
  <2>2. ASSUME NEW q \in Requests, answer[q].kind = "result", row[q].op = row[r].op
        PROVE  answer[q].id = answer[r].id
    <3>1. Told(answer[q], row[r].op)
      BY <2>2 DEF AnswersInv
    <3>2. /\ Indexed(tx[answer[q].id]) /\ Indexed(tx[answer[r].id])
          /\ tx[answer[q].id].op = tx[answer[r].id].op
      BY <2>1, <3>1 DEF Told, Indexed
    <3>3. tx[answer[q].id].id = answer[q].id /\ tx[answer[r].id].id = answer[r].id
      BY <2>1, <3>1 DEF Told, CoreInv, LockInv, RowsOwned
    <3>4. \A a, b : Indexed(a) /\ Indexed(b) /\ a.id # b.id => ~SameBusinessId(a.op, b.op)
      BY IndexedRows DEF CoreInv
    <3>5. SameBusinessId(tx[answer[q].id].op, tx[answer[r].id].op)
      BY <3>2 DEF SameBusinessId
    <3> QED BY <3>2, <3>3, <3>4, <3>5
  <2> QED BY <2>1, <2>2 DEF Told
<1> QED BY <1>2, <1>3, PTL

-----------------------------------------------------------------------------
(* The outbox of the core.                                                  *)

Said(type, id, version) ==
    [type |-> type, tx |-> id, version |-> IF type = "WalletBalanceChanged" THEN version ELSE 0]

IsEnd(e, id) == e.tx = id /\ e.type \in {"WagerTransactionProcessed", "WagerTransactionRejected"}

\* An element more, by position.
LEMMA AppendPositions ==
    ASSUME NEW S, NEW s \in Seq(S), NEW e \in S
    PROVE  \E n \in Nat :
              /\ n = Len(s) /\ DOMAIN s = 1 .. n /\ DOMAIN Append(s, e) = 1 .. n + 1
              /\ Append(s, e)[n + 1] = e /\ \A i \in 1 .. n : Append(s, e)[i] = s[i]
              /\ \A i : i \in 1 .. n + 1 <=> i \in 1 .. n \/ i = n + 1
              /\ n + 1 \notin 1 .. n
<1>1. PICK n \in Nat : n = Len(s)
  OBVIOUS
<1>2. /\ DOMAIN s = 1 .. n /\ DOMAIN Append(s, e) = 1 .. n + 1
      /\ Append(s, e)[n + 1] = e /\ \A i \in 1 .. n : Append(s, e)[i] = s[i]
  BY <1>1, AppendProperties
<1>3. \A i : i \in 1 .. n + 1 <=> i \in 1 .. n \/ i = n + 1
  OBVIOUS
<1>4. n + 1 \notin 1 .. n
  OBVIOUS
<1> QED BY <1>1, <1>2, <1>3, <1>4

\* An event that is no balance event leaves the balance events as they are.
LEMMA NoChangeAppended ==
    ASSUME NEW s \in Seq(Event), NEW e \in Event, ~IsChange(e), NEW entries, NEW base,
           ChangesAre(s, entries, base)
    PROVE  ChangesAre(Append(s, e), entries, base)
<1>1. PICK n \in Nat :
         /\ DOMAIN s = 1 .. n /\ DOMAIN Append(s, e) = 1 .. n + 1
         /\ Append(s, e)[n + 1] = e /\ \A i \in 1 .. n : Append(s, e)[i] = s[i]
         /\ \A i : i \in 1 .. n + 1 <=> i \in 1 .. n \/ i = n + 1
  BY AppendPositions
<1>2. PICK u : u = Append(s, e)
  OBVIOUS
<1>3. \A i \in DOMAIN u : IsChange(u[i]) => i \in DOMAIN s /\ u[i] = s[i]
  BY <1>1, <1>2
<1>4. \A i \in DOMAIN s : i \in DOMAIN u /\ u[i] = s[i]
  BY <1>1, <1>2
<1>5. ChangesAre(u, entries, base)
  BY <1>3, <1>4 DEF ChangesAre
<1> QED BY <1>2, <1>5

\* A balance event with the entry it is about, and the next version.
LEMMA ChangeAppended ==
    ASSUME NEW s \in Seq(Event), NEW e \in Event, IsChange(e),
           NEW entries \in Seq(Entry), NEW f \in Entry, NEW base \in Int,
           e.tx = f.tx, e.version = base + Len(entries) + 1, ChangesAre(s, entries, base)
    PROVE  ChangesAre(Append(s, e), Append(entries, f), base)
<1>1. PICK n \in Nat :
         /\ DOMAIN s = 1 .. n /\ DOMAIN Append(s, e) = 1 .. n + 1
         /\ Append(s, e)[n + 1] = e /\ \A i \in 1 .. n : Append(s, e)[i] = s[i]
         /\ \A i : i \in 1 .. n + 1 <=> i \in 1 .. n \/ i = n + 1
  BY AppendPositions
<1>2. PICK m \in Nat :
         /\ m = Len(entries) /\ DOMAIN entries = 1 .. m /\ DOMAIN Append(entries, f) = 1 .. m + 1
         /\ Append(entries, f)[m + 1] = f /\ \A k \in 1 .. m : Append(entries, f)[k] = entries[k]
         /\ \A k : k \in 1 .. m + 1 <=> k \in 1 .. m \/ k = m + 1
  BY AppendPositions
<1>3. PICK u : u = Append(s, e)
  OBVIOUS
<1>4. PICK g : g = Append(entries, f)
  OBVIOUS
<1>5. e.version = base + (m + 1)
  BY <1>2
<1>6. ASSUME NEW i \in DOMAIN u, IsChange(u[i])
      PROVE  \E k \in DOMAIN g : u[i].version = base + k /\ u[i].tx = g[k].tx
  <2>1. CASE i = n + 1
    <3>1. u[i] = e /\ m + 1 \in DOMAIN g /\ g[m + 1] = f
      BY <1>1, <1>2, <1>3, <1>4, <2>1
    <3> QED BY <1>5, <3>1
  <2>2. CASE i \in 1 .. n
    <3>1. PICK k \in DOMAIN entries : s[i].version = base + k /\ s[i].tx = entries[k].tx
      BY <1>1, <1>3, <1>6, <2>2 DEF ChangesAre
    <3>2. u[i] = s[i] /\ k \in DOMAIN g /\ g[k] = entries[k]
      BY <1>1, <1>2, <1>3, <1>4, <2>2
    <3> QED BY <3>1, <3>2
  <2> QED BY <1>1, <1>3, <2>1, <2>2
<1>7. ASSUME NEW k \in DOMAIN g
      PROVE  \E i \in DOMAIN u : IsChange(u[i]) /\ u[i].version = base + k
  <2>1. CASE k = m + 1
    <3>1. n + 1 \in DOMAIN u /\ u[n + 1] = e
      BY <1>1, <1>3
    <3> QED BY <1>5, <2>1, <3>1
  <2>2. CASE k \in 1 .. m
    <3>1. PICK i \in DOMAIN s : IsChange(s[i]) /\ s[i].version = base + k
      BY <1>2, <2>2 DEF ChangesAre
    <3>2. i \in DOMAIN u /\ u[i] = s[i]
      BY <1>1, <1>3
    <3> QED BY <3>1, <3>2
  <2> QED BY <1>2, <1>4, <2>1, <2>2
<1>8. ASSUME NEW i \in DOMAIN u, NEW j \in DOMAIN u, i < j, IsChange(u[i]), IsChange(u[j])
      PROVE  u[i].version < u[j].version
  <2>0. i \in 1 .. n /\ u[i] = s[i]
    BY <1>1, <1>3, <1>8
  <2>1. CASE j \in 1 .. n
    <3>1. u[j] = s[j]
      BY <1>1, <1>3, <2>1
    <3> QED BY <1>1, <1>8, <2>0, <2>1, <3>1 DEF ChangesAre
  <2>2. CASE j = n + 1
    <3>1. PICK k \in 1 .. m : s[i].version = base + k
      BY <1>1, <1>2, <1>8, <2>0 DEF ChangesAre
    <3>2. u[j] = e
      BY <1>1, <1>3, <2>2
    <3> QED BY <1>5, <2>0, <3>1, <3>2
  <2> QED BY <1>1, <1>3, <2>1, <2>2
<1>9. ChangesAre(u, g, base)
  BY <1>6, <1>7, <1>8 DEF ChangesAre
<1> QED BY <1>3, <1>4, <1>9

\* One event more, and where an operation's end is announced.
LEMMA EndAppended ==
    ASSUME NEW s \in Seq(Event), NEW e \in Event, NEW id
    PROVE  /\ ~IsEnd(e, id) => EndsOf(Append(s, e), id) = EndsOf(s, id)
           /\ IsEnd(e, id) /\ EndsOf(s, id) = {} => EndsOf(Append(s, e), id) = {Len(s) + 1}
           /\ DOMAIN s \subseteq DOMAIN Append(s, e) /\ Len(s) + 1 \in DOMAIN Append(s, e)
<1>1. PICK n \in Nat :
         /\ n = Len(s) /\ DOMAIN s = 1 .. n /\ DOMAIN Append(s, e) = 1 .. n + 1
         /\ Append(s, e)[n + 1] = e /\ \A i \in 1 .. n : Append(s, e)[i] = s[i]
         /\ \A i : i \in 1 .. n + 1 <=> i \in 1 .. n \/ i = n + 1
         /\ n + 1 \notin 1 .. n
  BY AppendPositions
<1>2. PICK u : u = Append(s, e)
  OBVIOUS
<1>3. EndsOf(s, id) = {i \in 1 .. n : IsEnd(s[i], id)} /\ EndsOf(u, id) = {i \in 1 .. n + 1 : IsEnd(u[i], id)}
  BY <1>1, <1>2 DEF EndsOf, IsEnd
<1>4. ~IsEnd(e, id) => EndsOf(u, id) = EndsOf(s, id)
  BY <1>1, <1>2, <1>3
<1>5. IsEnd(e, id) /\ EndsOf(s, id) = {} => EndsOf(u, id) = {n + 1}
  <2> SUFFICES ASSUME IsEnd(e, id), EndsOf(s, id) = {} PROVE EndsOf(u, id) = {n + 1}
    OBVIOUS
  <2>1. \A i \in 1 .. n : ~IsEnd(u[i], id)
    BY <1>1, <1>2, <1>3
  <2>2. n + 1 \in 1 .. n + 1 /\ IsEnd(u[n + 1], id)
    BY <1>1, <1>2
  <2> QED BY <1>1, <1>3, <2>1, <2>2
<1> QED BY <1>1, <1>2, <1>4, <1>5

\* Announcing is appending the events one after the other.
LEMMA AnnounceAppends ==
    ASSUME NEW s \in Seq(Event), NEW a \in EventTypes, NEW b \in EventTypes, NEW id \in TxIds,
           NEW v \in Nat, NEW types
    PROVE  /\ types = << >> => s \o Announce(types, id, v) = s
           /\ types = <<a>> => s \o Announce(types, id, v) = Append(s, Said(a, id, v))
           /\ types = <<a, b>> =>
                 s \o Announce(types, id, v) = Append(Append(s, Said(a, id, v)), Said(b, id, v))
<1>0. ASSUME NEW c \in EventTypes PROVE Said(c, id, v) \in Event
  BY DEF Said, Event
<1>1. PICK x \in Event : x = Said(a, id, v)
  BY <1>0
<1>2. PICK y \in Event : y = Said(b, id, v)
  BY <1>0
<1>3. Announce(<< >>, id, v) = << >>
  BY DEF Announce
<1>4. Announce(<<a>>, id, v) = <<x>>
  BY <1>1 DEF Announce, Said
<1>5. Announce(<<a, b>>, id, v) = <<x, y>>
  BY <1>1, <1>2 DEF Announce, Said
<1>6. s \o << >> = s
  BY ConcatEmptySeq
<1>7. s \o <<x>> = Append(s, x)
  BY AppendIsConcat
<1>8. s \o <<x, y>> = Append(Append(s, x), y)
  <2>1. <<x, y>> \in Seq(Event) /\ Len(<<x, y>>) = 2 /\ <<x, y>>[1] = x /\ <<x, y>>[2] = y
    OBVIOUS
  <2>2. PICK n \in Nat : n = Len(s)
    OBVIOUS
  <2>3. PICK q : q = s \o <<x, y>>
    OBVIOUS
  <2>4. PICK r : r = Append(Append(s, x), y)
    OBVIOUS
  <2>5. q \in Seq(Event) /\ Len(q) = n + 2
        /\ \A i \in 1 .. n + 2 : q[i] = IF i <= n THEN s[i] ELSE <<x, y>>[i - n]
    BY <2>1, <2>2, <2>3, ConcatProperties
  <2>6. r \in Seq(Event) /\ Len(r) = n + 2 /\ r[n + 1] = x /\ r[n + 2] = y
        /\ \A i \in 1 .. n : r[i] = s[i]
    <3>1. PICK t \in Seq(Event) : t = Append(s, x)
      BY AppendProperties
    <3>2. Len(t) = n + 1 /\ t[n + 1] = x /\ \A i \in 1 .. n : t[i] = s[i]
      BY <2>2, <3>1, AppendProperties
    <3>3. r \in Seq(Event) /\ Len(r) = n + 2 /\ r[n + 2] = y /\ \A i \in 1 .. n + 1 : r[i] = t[i]
      BY <2>4, <3>1, <3>2, AppendProperties
    <3> QED BY <3>2, <3>3
  <2>7. \A i \in 1 .. n + 2 : q[i] = r[i]
    <3> SUFFICES ASSUME NEW i \in 1 .. n + 2 PROVE q[i] = r[i]
      OBVIOUS
    <3>1. CASE i \in 1 .. n
      BY <2>5, <2>6, <3>1
    <3>2. CASE i = n + 1
      BY <2>1, <2>5, <2>6, <3>2
    <3>3. CASE i = n + 2
      BY <2>1, <2>5, <2>6, <3>3
    <3> QED BY <3>1, <3>2, <3>3
  <2>8. q = r
    BY <2>5, <2>6, <2>7, SeqEqual
  <2> QED BY <2>3, <2>4, <2>8
<1> QED BY <1>1, <1>2, <1>3, <1>4, <1>5, <1>6, <1>7, <1>8

\* OutboxMatchesFacts for one operation and for one wallet.
EndTold(id, w) ==
    IF tx[id].status \in Terminal /\ tx[id].op.wallet = w
    THEN \E i \in DOMAIN outbox[w] : EndsOf(outbox[w], id) = {i}
    ELSE EndsOf(outbox[w], id) = {}

ChangesTold(w) == ChangesAre(outbox[w], ledger[w], wallet[w].version - Len(ledger[w]))

\* The property is the two, wallet by wallet.
LEMMA FactsParts ==
    OutboxMatchesFacts <=> \A w \in Wallets : ChangesTold(w) /\ \A id \in TxIds : EndTold(id, w)
BY DEF OutboxMatchesFacts, EndTold, ChangesTold

\* What a commit announces: the end, with the movement if there is one, or the wait.
LEMMA CommitSays ==
    ASSUME CoreInv, NEW p \in Procs, pc[p] = "commit", Persist(p)
    PROVE  LET w == row[p].op.wallet
               said(type) == Said(type, row[p].id, seen[p].version + 1)
               old == outbox[w]
           IN  \/ /\ row[p].status = "PROCESSED" /\ delta[p] # 0
                  /\ outbox'[w] = Append(Append(old, said("WagerTransactionProcessed")),
                                         said("WalletBalanceChanged"))
               \/ /\ row[p].status = "PROCESSED" /\ delta[p] = 0
                  /\ outbox'[w] = Append(old, said("WagerTransactionProcessed"))
               \/ /\ row[p].status = "REJECTED" /\ delta[p] = 0
                  /\ outbox'[w] = Append(old, said("WagerTransactionRejected"))
               \/ /\ row[p].status = "PENDING_REFERENCE" /\ delta[p] = 0
                  /\ outbox'[w] \in {old, Append(old, said("WagerTransactionPendingReference"))}
<1>1. PICK t, w, id, v, old :
         t = row[p] /\ w = t.op.wallet /\ id = t.id /\ v = seen[p].version + 1 /\ old = outbox[w]
  OBVIOUS
<1>2. /\ id \in TxIds /\ w \in Wallets /\ v \in Nat /\ delta[p] \in Int
      /\ t.status \in {"PROCESSED", "REJECTED", "PENDING_REFERENCE"}
      /\ t.status # "PROCESSED" => delta[p] = 0
  BY <1>1, AtCommit DEF WalletRow, Decided
<1>3. outbox \in [Wallets -> Seq(Event)] /\ old \in Seq(Event)
  BY <1>1, <1>2 DEF CoreInv, TypeInv, TypeOK, TablesOK
<1>4. PICK types :
         /\ types = IF p \in Workers /\ t.status = "PENDING_REFERENCE" THEN << >>
                    ELSE EventsForOutcome(t.status, delta[p] # 0)
         /\ outbox' = [outbox EXCEPT ![w] = @ \o Announce(types, id, v)]
  BY <1>1 DEF Persist
<1>5. outbox'[w] = old \o Announce(types, id, v)
  BY <1>1, <1>2, <1>3, <1>4
<1>6. ASSUME NEW a \in EventTypes, NEW b \in EventTypes
      PROVE  /\ types = << >> => outbox'[w] = old
             /\ types = <<a>> => outbox'[w] = Append(old, Said(a, id, v))
             /\ types = <<a, b>> => outbox'[w] = Append(Append(old, Said(a, id, v)), Said(b, id, v))
  <2>1. old \in Seq(Event) /\ id \in TxIds /\ v \in Nat
    BY <1>2, <1>3
  <2>2. /\ types = << >> => old \o Announce(types, id, v) = old
        /\ types = <<a>> => old \o Announce(types, id, v) = Append(old, Said(a, id, v))
        /\ types = <<a, b>> =>
              old \o Announce(types, id, v) = Append(Append(old, Said(a, id, v)), Said(b, id, v))
    BY <2>1, AnnounceAppends
  <2> QED BY <1>5, <2>2
<1>7. CASE t.status = "PROCESSED" /\ delta[p] # 0
  <2>1. types = <<"WagerTransactionProcessed", "WalletBalanceChanged">>
    BY <1>4, <1>7 DEF EventsForOutcome
  <2> QED BY <1>1, <1>6, <1>7, <2>1 DEF EventTypes
<1>8. CASE t.status = "PROCESSED" /\ delta[p] = 0
  <2>1. types = <<"WagerTransactionProcessed">>
    BY <1>4, <1>8 DEF EventsForOutcome
  <2> QED BY <1>1, <1>6, <1>8, <2>1 DEF EventTypes
<1>9. CASE t.status = "REJECTED"
  <2>1. types = <<"WagerTransactionRejected">>
    BY <1>4, <1>9 DEF EventsForOutcome
  <2> QED BY <1>1, <1>2, <1>6, <1>9, <2>1 DEF EventTypes
<1>10. CASE t.status = "PENDING_REFERENCE"
  <2>1. types = << >> \/ types = <<"WagerTransactionPendingReference">>
    BY <1>4, <1>10 DEF EventsForOutcome
  <2> QED BY <1>1, <1>2, <1>6, <1>10, <2>1 DEF EventTypes
<1> QED BY <1>2, <1>7, <1>8, <1>9, <1>10

\* A commit tells its wallet's movement, and nothing of any other.
LEMMA CommitTellsChanges ==
    ASSUME CoreInv, OutboxMatchesFacts, NEW p \in Procs, pc[p] = "commit", Persist(p),
           NEW w \in Wallets
    PROVE  ChangesTold(w)'
<1>1. ChangesTold(w)
  BY FactsParts
<1>2. PICK id \in TxIds, v \in Nat : id = row[p].id /\ v = seen[p].version + 1
  BY AtCommit DEF WalletRow
<1>3. CASE w # row[p].op.wallet
  BY <1>1, <1>3, CommitWrites DEF ChangesTold
<1>4. CASE w = row[p].op.wallet
  <2>1. PICK s \in Seq(Event), entries \in Seq(Entry), n \in Nat, base \in Int :
           /\ s = outbox[w] /\ entries = ledger[w] /\ n = Len(entries)
           /\ wallet[w].version = v - 1 /\ base = wallet[w].version - n
    <3>1. outbox[w] \in Seq(Event) /\ ledger[w] \in Seq(Entry)
      BY DEF CoreInv, TypeInv, TypeOK, TablesOK
    <3>2. Len(ledger[w]) \in Nat /\ wallet[w].version = v - 1 /\ v - 1 \in Int
      BY <1>2, <1>4, <3>1, AtCommit DEF WalletRow
    <3> QED BY <3>1, <3>2
  <2>2. ChangesAre(s, entries, base)
    BY <1>1, <2>1 DEF ChangesTold
  <2>3. PICK x, y, r, q :
           /\ x = Said("WagerTransactionProcessed", id, v)
           /\ y = Said("WalletBalanceChanged", id, v)
           /\ r = Said("WagerTransactionRejected", id, v)
           /\ q = Said("WagerTransactionPendingReference", id, v)
    OBVIOUS
  <2>4. /\ x \in Event /\ y \in Event /\ r \in Event /\ q \in Event
        /\ ~IsChange(x) /\ IsChange(y) /\ ~IsChange(r) /\ ~IsChange(q)
        /\ y.tx = id /\ y.version = v
    BY <2>3 DEF Said, Event, EventTypes, IsChange
  <2>5. CASE delta[p] # 0
    <3>1. outbox'[w] = Append(Append(s, x), y)
      BY <1>2, <1>4, <2>1, <2>3, <2>5, CommitSays
    <3>2. PICK e \in Entry : e.tx = id /\ ledger'[w] = Append(entries, e) /\ wallet'[w].version = v
      <4>1. PICK e \in Entry :
               /\ e = [tx |-> id, amount |-> delta[p], before |-> seen[p].balance,
                       after |-> seen[p].balance + delta[p]]
               /\ ledger'[w] = Append(ledger[w], e) /\ wallet'[w].version = v
        BY <1>2, <1>4, <2>5, CommitWrites
      <4>2. e.tx = id
        BY <4>1
      <4> QED BY <2>1, <4>1, <4>2
    <3>3. Append(s, x) \in Seq(Event) /\ ChangesAre(Append(s, x), entries, base)
      BY <2>2, <2>4, NoChangeAppended, AppendProperties
    <3>4. y.version = base + n + 1
      BY <2>1, <2>4
    <3>5. ChangesAre(Append(Append(s, x), y), Append(entries, e), base)
      BY <2>1, <2>4, <3>2, <3>3, <3>4, ChangeAppended
    <3>6. base = wallet'[w].version - Len(ledger'[w])
      <4>1. Len(Append(entries, e)) = n + 1
        BY <2>1, AppendProperties
      <4> QED BY <2>1, <3>2, <4>1
    <3> QED BY <3>1, <3>2, <3>5, <3>6 DEF ChangesTold
  <2>6. CASE delta[p] = 0
    <3>1. wallet'[w] = wallet[w] /\ ledger'[w] = ledger[w]
      BY <2>6, CommitWrites
    <3>2. outbox'[w] \in {s, Append(s, x), Append(s, r), Append(s, q)}
      BY <1>2, <1>4, <2>1, <2>3, <2>6, CommitSays
    <3>3. ChangesAre(outbox'[w], entries, base)
      BY <2>2, <2>4, <3>2, NoChangeAppended
    <3> QED BY <2>1, <3>1, <3>3 DEF ChangesTold
  <2> QED BY <2>5, <2>6
<1> QED BY <1>3, <1>4

\* A commit tells its operation's end, once, if it is one.
LEMMA CommitTellsEnd ==
    ASSUME CoreInv, OutboxMatchesFacts, NEW p \in Procs, pc[p] = "commit", Persist(p),
           NEW w \in Wallets, NEW i \in TxIds
    PROVE  EndTold(i, w)'
<1>1. EndTold(i, w)
  BY FactsParts
<1>2. PICK id \in TxIds, v \in Nat : id = row[p].id /\ v = seen[p].version + 1
  BY AtCommit DEF WalletRow
<1>3. /\ tx'[id] = row[p] /\ \A j \in TxIds \ {id} : tx'[j] = tx[j]
      /\ w # row[p].op.wallet => outbox'[w] = outbox[w]
  BY <1>2, CommitWrites
<1>4. tx[id].status \notin Terminal
  BY <1>2, AtCommit DEF Terminal, Procs
<1>5. CASE w # row[p].op.wallet
  <2>1. CASE i = id
    BY <1>1, <1>3, <1>4, <1>5, <2>1 DEF EndTold
  <2>2. CASE i # id
    BY <1>1, <1>3, <1>5, <2>2 DEF EndTold
  <2> QED BY <2>1, <2>2
<1>6. CASE w = row[p].op.wallet
  <2>1. PICK s \in Seq(Event) : s = outbox[w]
    BY DEF CoreInv, TypeInv, TypeOK, TablesOK
  <2>3. PICK x, y, r, q :
           /\ x = Said("WagerTransactionProcessed", id, v)
           /\ y = Said("WalletBalanceChanged", id, v)
           /\ r = Said("WagerTransactionRejected", id, v)
           /\ q = Said("WagerTransactionPendingReference", id, v)
    OBVIOUS
  <2>4. /\ x \in Event /\ y \in Event /\ r \in Event /\ q \in Event
        /\ IsEnd(x, id) /\ ~IsEnd(y, i) /\ IsEnd(r, id) /\ ~IsEnd(q, i)
        /\ i # id => ~IsEnd(x, i) /\ ~IsEnd(r, i)
    BY <2>3 DEF Said, Event, EventTypes, IsEnd
  <2>5. \/ row[p].status = "PROCESSED" /\ outbox'[w] \in {Append(s, x), Append(Append(s, x), y)}
        \/ row[p].status = "REJECTED" /\ outbox'[w] = Append(s, r)
        \/ row[p].status = "PENDING_REFERENCE" /\ outbox'[w] \in {s, Append(s, q)}
    BY <1>2, <1>6, <2>1, <2>3, CommitSays
  <2>6. Append(s, x) \in Seq(Event)
    BY <2>4, AppendProperties
  <2>7. CASE i # id
    <3>1. EndsOf(outbox'[w], i) = EndsOf(s, i) /\ DOMAIN s \subseteq DOMAIN outbox'[w]
      <4>1. EndsOf(Append(s, x), i) = EndsOf(s, i) /\ EndsOf(Append(s, r), i) = EndsOf(s, i)
            /\ DOMAIN s \subseteq DOMAIN Append(s, x) /\ DOMAIN s \subseteq DOMAIN Append(s, r)
        BY <2>4, <2>7, EndAppended
      <4>2. EndsOf(Append(Append(s, x), y), i) = EndsOf(Append(s, x), i)
            /\ DOMAIN Append(s, x) \subseteq DOMAIN Append(Append(s, x), y)
        BY <2>4, <2>6, EndAppended
      <4>3. EndsOf(Append(s, q), i) = EndsOf(s, i) /\ DOMAIN s \subseteq DOMAIN Append(s, q)
        BY <2>4, EndAppended
      <4> QED BY <2>5, <4>1, <4>2, <4>3
    <3> QED BY <1>1, <1>3, <2>1, <2>7, <3>1 DEF EndTold
  <2>8. CASE i = id
    <3>0. EndsOf(s, i) = {}
      BY <1>1, <1>4, <2>1, <2>8 DEF EndTold
    <3>1. CASE row[p].status = "PENDING_REFERENCE"
      <4>1. EndsOf(outbox'[w], i) = {}
        <5>1. EndsOf(Append(s, q), i) = EndsOf(s, i)
          BY <2>4, EndAppended
        <5> QED BY <2>5, <3>0, <3>1, <5>1
      <4> QED BY <1>3, <2>8, <3>1, <4>1 DEF EndTold, Terminal
    <3>2. CASE row[p].status # "PENDING_REFERENCE"
      <4>1. \E k \in DOMAIN outbox'[w] : EndsOf(outbox'[w], i) = {k}
        <5>1. EndsOf(Append(s, x), i) = {Len(s) + 1} /\ Len(s) + 1 \in DOMAIN Append(s, x)
          BY <2>4, <2>8, <3>0, EndAppended
        <5>2. EndsOf(Append(s, r), i) = {Len(s) + 1} /\ Len(s) + 1 \in DOMAIN Append(s, r)
          BY <2>4, <2>8, <3>0, EndAppended
        <5>3. EndsOf(Append(Append(s, x), y), i) = EndsOf(Append(s, x), i)
              /\ DOMAIN Append(s, x) \subseteq DOMAIN Append(Append(s, x), y)
          BY <2>4, <2>6, EndAppended
        <5> QED BY <2>5, <3>2, <5>1, <5>2, <5>3
      <4>2. tx'[i].status \in Terminal /\ tx'[i].op.wallet = w
        BY <1>3, <1>6, <2>5, <2>8, <3>2 DEF Terminal
      <4> QED BY <4>1, <4>2 DEF EndTold
    <3> QED BY <3>1, <3>2
  <2> QED BY <2>7, <2>8
<1> QED BY <1>5, <1>6

\* An opening with money says so, on a wallet of which nothing was said before.
LEMMA OpeningSays ==
    ASSUME NEW o \in Openings, OpenWallet(o), TablesOK, o.amount > 0
    PROVE  outbox'[o.wallet] = Append(Append(<< >>, Said("WagerTransactionProcessed", o.wallet, 1)),
                                      Said("WalletBalanceChanged", o.wallet, 1))
<1>1. o.wallet \in Wallets /\ o.wallet \in TxIds /\ 1 \in Nat /\ << >> \in Seq(Event)
  BY OpeningsAssumption DEF TxIds
<1>2. PICK types : types = EventsForOutcome("PROCESSED", TRUE)
  OBVIOUS
<1>3. types = <<"WagerTransactionProcessed", "WalletBalanceChanged">>
  BY <1>2 DEF EventsForOutcome
<1>4. PICK said \in Seq(Event) : said = Announce(types, o.wallet, 1)
  BY <1>1, <1>2, AnnounceType
<1>5. outbox'[o.wallet] = said
  BY <1>1, <1>2, <1>4 DEF OpenWallet, TablesOK
<1>6. << >> \o said = said
  BY ConcatEmptySeq
<1>7. PICK a, b, nil :
         a = "WagerTransactionProcessed" /\ b = "WalletBalanceChanged" /\ nil = << >>
  OBVIOUS
<1>8. types = <<a, b>> /\ a \in EventTypes /\ b \in EventTypes /\ nil \in Seq(Event)
  <2>1. a \in EventTypes /\ b \in EventTypes
    BY <1>7 DEF EventTypes
  <2> QED BY <1>1, <1>3, <1>7, <2>1
<1>9. nil \o Announce(types, o.wallet, 1) = Append(Append(nil, Said(a, o.wallet, 1)), Said(b, o.wallet, 1))
  <2>1. PICK id \in TxIds, v \in Nat : id = o.wallet /\ v = 1
    BY <1>1
  <2>2. types = <<a, b>> =>
           nil \o Announce(types, id, v) = Append(Append(nil, Said(a, id, v)), Said(b, id, v))
    BY <1>8, AnnounceAppends
  <2> QED BY <1>8, <2>1, <2>2
<1> QED BY <1>4, <1>5, <1>6, <1>7, <1>9

\* An opening tells its wallet's first movement and its own end.
LEMMA OpeningTells ==
    ASSUME CoreInv, SilentUntilOpened, OutboxMatchesFacts, NEW o \in Openings, OpenWallet(o)
    PROVE  OutboxMatchesFacts'
<1> DEFINE w == o.wallet
<1>1. /\ w \in Wallets /\ w \in TxIds /\ o.amount \in Money
      /\ tx[w].status = "ABSENT" /\ Len(ledger[w]) = 0 /\ outbox[w] = << >>
      /\ wallet'[w].version = 1
      /\ \A v \in Wallets \ {w} :
            wallet'[v] = wallet[v] /\ ledger'[v] = ledger[v] /\ outbox'[v] = outbox[v]
      /\ \A i \in TxIds \ {w} : tx'[i] = tx[i]
      /\ o.amount > 0 => /\ tx'[w] = OpeningRow(o)
                         /\ ledger'[w] = <<[tx |-> w, amount |-> o.amount, before |-> 0,
                                            after |-> o.amount]>>
      /\ ~(o.amount > 0) => UNCHANGED <<tx, ledger, outbox>>
  BY OpeningWrites
<1>2. TablesOK
  BY DEF CoreInv, TypeInv, TypeOK
<1>3. \A v \in Wallets : ChangesTold(v) /\ \A id \in TxIds : EndTold(id, v)
  BY FactsParts
<1>4. ledger[w] = << >> /\ \A base : ChangesAre(<< >>, << >>, base)
  <2>1. ledger[w] = << >>
    BY <1>1, <1>2, EmptySeq DEF TablesOK
  <2> QED BY <2>1 DEF ChangesAre
<1>5. CASE ~(o.amount > 0)
  <2>1. UNCHANGED <<tx, ledger, outbox>>
    BY <1>1, <1>5
  <2>2. ASSUME NEW v \in Wallets PROVE ChangesTold(v)'
    <3>1. CASE v = w
      BY <1>1, <1>4, <2>1, <3>1 DEF ChangesTold
    <3>2. CASE v # w
      BY <1>1, <1>3, <2>1, <3>2 DEF ChangesTold
    <3> QED BY <3>1, <3>2
  <2>3. ASSUME NEW v \in Wallets, NEW id \in TxIds PROVE EndTold(id, v)'
    BY <1>3, <2>1 DEF EndTold
  <2> QED BY <2>2, <2>3 DEF OutboxMatchesFacts, EndTold, ChangesTold
<1>6. CASE o.amount > 0
  <2>1. PICK x, y, e : /\ x = Said("WagerTransactionProcessed", w, 1)
                       /\ y = Said("WalletBalanceChanged", w, 1)
                       /\ e = [tx |-> w, amount |-> o.amount, before |-> 0, after |-> o.amount]
    OBVIOUS
  <2>2. PICK s : s = Append(<< >>, x)
    OBVIOUS
  <2>3. outbox'[w] = Append(s, y) /\ ledger'[w] = <<e>> /\ tx'[w] = OpeningRow(o)
    BY <1>1, <1>2, <1>6, <2>1, <2>2, OpeningSays
  <2>4. /\ x \in Event /\ y \in Event /\ ~IsChange(x) /\ IsChange(y)
        /\ y.tx = w /\ y.version = 1 /\ IsEnd(x, w)
        /\ \A i : ~IsEnd(y, i) /\ (i # w => ~IsEnd(x, i))
    BY <1>1, <2>1 DEF Said, Event, EventTypes, IsChange, IsEnd
  <2>5. e \in Entry /\ e.tx = w
    <3>1. 0 \in Money /\ o.amount \in Int
      BY <1>1, MaxMinorAssumption DEF Money
    <3> QED BY <1>1, <2>1, <3>1 DEF Entry
  <2>6. << >> \in Seq(Event) /\ << >> \in Seq(Entry) /\ Len(<< >>) = 0 /\ DOMAIN << >> = {}
    OBVIOUS
  <2>7. s \in Seq(Event)
    BY <2>2, <2>4, <2>6, AppendProperties
  <2>8. ASSUME NEW v \in Wallets PROVE ChangesTold(v)'
    <3>1. CASE v = w
      <4>1. ChangesAre(s, << >>, 0)
        BY <1>4, <2>2, <2>4, <2>6, NoChangeAppended
      <4>2. y.version = 0 + Len(<< >>) + 1
        BY <2>4, <2>6
      <4>3. ChangesAre(Append(s, y), Append(<< >>, e), 0)
        <5>1. PICK nil, b : nil = << >> /\ b = 0
          OBVIOUS
        <5>2. nil \in Seq(Entry) /\ b \in Int /\ y.tx = e.tx /\ y.version = b + Len(nil) + 1 /\ ChangesAre(s, nil, b)
          BY <2>4, <2>5, <2>6, <4>1, <4>2, <5>1
        <5>3. ChangesAre(Append(s, y), Append(nil, e), b)
          BY <2>4, <2>5, <2>7, <5>2, ChangeAppended
        <5> QED BY <5>1, <5>3
      <4>4. Append(<< >>, e) = <<e>> /\ Len(<<e>>) = 1
        OBVIOUS
      <4>5. wallet'[w].version - Len(ledger'[w]) = 0
        BY <1>1, <2>3, <4>4
      <4>6. ChangesAre(outbox'[w], ledger'[w], wallet'[w].version - Len(ledger'[w]))
        BY <2>3, <4>3, <4>4, <4>5
      <4> QED BY <3>1, <4>6 DEF ChangesTold
    <3>2. CASE v # w
      BY <1>1, <1>3, <3>2 DEF ChangesTold
    <3> QED BY <3>1, <3>2
  <2>9. ASSUME NEW v \in Wallets, NEW id \in TxIds PROVE EndTold(id, v)'
    <3>0. tx'[w].status = "PROCESSED" /\ tx'[w].op.wallet = w
      <4>1. PICK t : t = OpeningRow(o)
        OBVIOUS
      <4>2. t.status = "PROCESSED" /\ t.op.wallet = o.wallet
        BY <4>1 DEF OpeningRow, NewTx, NoOp
      <4> QED BY <2>3, <4>1, <4>2
    <3>1. CASE v = w
      <4>1. EndsOf(<< >>, id) = {}
        BY <2>6 DEF EndsOf
      <4>2. EndsOf(outbox'[w], id) = EndsOf(s, id) /\ DOMAIN s \subseteq DOMAIN outbox'[w]
        BY <2>3, <2>4, <2>7, EndAppended
      <4>3. CASE id = w
        <5>1. EndsOf(s, id) = {Len(<< >>) + 1} /\ Len(<< >>) + 1 \in DOMAIN s
          BY <2>2, <2>4, <2>6, <4>1, <4>3, EndAppended
        <5> QED BY <3>0, <3>1, <4>2, <4>3, <5>1 DEF EndTold, Terminal
      <4>4. CASE id # w
        <5>1. EndsOf(s, id) = {}
          BY <2>2, <2>4, <2>6, <4>1, <4>4, EndAppended
        <5>2. ~(tx[id].status \in Terminal /\ tx[id].op.wallet = w)
          <6>1. EndTold(id, w)
            BY <1>1, <1>3
          <6> QED BY <1>1, <2>6, <6>1 DEF EndTold
        <5> QED BY <1>1, <3>1, <4>2, <4>4, <5>1, <5>2 DEF EndTold
      <4> QED BY <4>3, <4>4
    <3>2. CASE v # w /\ id # w
      <4>1. tx'[id] = tx[id] /\ outbox'[v] = outbox[v] /\ EndTold(id, v)
        BY <1>1, <1>3, <3>2
      <4> QED BY <4>1 DEF EndTold
    <3>3. CASE v # w /\ id = w
      <4>1. EndsOf(outbox[v], id) = {}
        BY <1>1, <1>3, <3>3 DEF EndTold, Terminal
      <4> QED BY <1>1, <3>0, <3>3, <4>1 DEF EndTold
    <3> QED BY <3>1, <3>2, <3>3
  <2> QED BY <2>8, <2>9 DEF OutboxMatchesFacts, EndTold, ChangesTold
<1> QED BY <1>5, <1>6

\* Every step tells what it did.
LEMMA FactsStep ==
    CoreInv /\ SilentUntilOpened /\ OutboxMatchesFacts /\ [Next]_vars => OutboxMatchesFacts'
<1> SUFFICES ASSUME CoreInv, SilentUntilOpened, OutboxMatchesFacts, [Next]_vars
             PROVE  OutboxMatchesFacts'
  OBVIOUS
<1>1. ASSUME NEW p \in Procs, pc[p] = "commit", Persist(p) PROVE OutboxMatchesFacts'
  <2>1. \A w \in Wallets : ChangesTold(w)'
    BY <1>1, CommitTellsChanges
  <2>2. \A w \in Wallets, id \in TxIds : EndTold(id, w)'
    BY <1>1, CommitTellsEnd
  <2> QED BY <2>1, <2>2 DEF OutboxMatchesFacts, EndTold, ChangesTold
<1>2. ASSUME UNCHANGED db PROVE OutboxMatchesFacts'
  BY <1>2 DEF db, OutboxMatchesFacts
<1> QED BY <1>1, <1>2, TablesMove, OpeningTells

\* There is nothing to tell at first.
LEMMA InitFacts == Init => OutboxMatchesFacts
<1> SUFFICES ASSUME Init PROVE OutboxMatchesFacts
  OBVIOUS
<1>1. \A id \in TxIds : tx[id].status = "ABSENT"
  BY DEF Init, NoRow, NewTx
<1>2. \A w \in Wallets : DOMAIN outbox[w] = {} /\ DOMAIN ledger[w] = {}
  BY DEF Init
<1> QED BY <1>1, <1>2 DEF OutboxMatchesFacts, ChangesAre, EndsOf, Terminal

\* The outbox tells the ledger, in order and without a gap in the versions, and every end
\* once, whatever the retries, crashes and lost acknowledgements: the events are written
\* in the transaction of what they announce (eventsForOutcome, Outbox().Append).
THEOREM OutboxAlwaysMatchesFacts == Spec => []OutboxMatchesFacts
<1>1. Spec => [](CoreInv /\ SilentUntilOpened /\ OutboxMatchesFacts)
  BY InitApplied, InitFacts, CoreInvariant, SilentStep, FactsStep, PTL DEF Spec
<1> QED BY <1>1, PTL

-----------------------------------------------------------------------------
(* The steps of the promise, in the terms of the core.                      *)

NewIdentity(id, b) ==
    Fates[id] = "none" /\ \A j \in TxIds : Fates[j] # "none" => Identities[j] # b

HasIdentity(id, b) ==
    /\ NewIdentity(id, b) \/ (Fates[id] = "waiting" /\ Identities[id] = b)
    /\ Identities' = [Identities EXCEPT ![id] = b]

\* A refusal.
LEMMA PromiseRefuse ==
    ASSUME NEW id \in TxIds, Fates'[id] # Fates[id], HasIdentity(id, Identities'[id]),
           Fates' = [Fates EXCEPT ![id] = "refused"],
           UNCHANGED <<Balances, Movements, Undoings>>
    PROVE  Promise!Next
<1>1. Promise!Refuse(id, Identities'[id])
  BY DEF Promise!Refuse, Promise!Identified, Promise!Fresh, HasIdentity, NewIdentity
<1> QED BY <1>1 DEF Promise!Next

\* A reversal that waits for its reference.
LEMMA PromiseWait ==
    ASSUME NEW id \in TxIds, Fates'[id] # Fates[id],
           NewIdentity(id, Identities'[id]), HasIdentity(id, Identities'[id]),
           Fates' = [Fates EXCEPT ![id] = "waiting"],
           UNCHANGED <<Balances, Movements, Undoings>>
    PROVE  Promise!Next
<1>1. Promise!Wait(id, Identities'[id])
  BY DEF Promise!Wait, Promise!Identified, Promise!Fresh, HasIdentity, NewIdentity
<1> QED BY <1>1 DEF Promise!Next

\* A movement of m on the wallet a.
Moves(id, a, m) ==
    /\ Balances[a] # -1
    /\ Balances[a] + m \in Money
    /\ Balances' = [Balances EXCEPT ![a] = @ + m]
    /\ Fates' = [Fates EXCEPT ![id] = "applied"]
    /\ Movements' = [Movements EXCEPT ![id] = m]

\* An operation of its own direction, or of none.
LEMMA PromiseApply ==
    ASSUME NEW id \in TxIds, NEW a \in Wallets, NEW m \in -MaxMinor .. MaxMinor,
           Fates'[id] # Fates[id], Fates[id] = "none", HasIdentity(id, Identities'[id]),
           Moves(id, a, m), UNCHANGED Undoings
    PROVE  Promise!Next
<1>1. Promise!Apply(id, Identities'[id], a, m)
  BY DEF Promise!Apply, Promise!Identified, Promise!Fresh, Promise!Move, Promise!Closed,
         HasIdentity, NewIdentity, Moves, Money
<1> QED BY <1>1 DEF Promise!Next

\* A reversal of j.
LEMMA PromiseUndo ==
    ASSUME NEW id \in TxIds, NEW a \in Wallets, NEW j \in TxIds,
           Fates'[id] # Fates[id], HasIdentity(id, Identities'[id]),
           Fates[j] = "applied", \A k \in TxIds : k # j => Undoings[k] # j,
           Moves(id, a, -Movements[j]), Undoings' = [Undoings EXCEPT ![id] = j]
    PROVE  Promise!Next
<1>1. Promise!Undo(id, Identities'[id], a, j)
  BY DEF Promise!Undo, Promise!Identified, Promise!Fresh, Promise!Move, Promise!Closed,
         HasIdentity, NewIdentity, Moves, Money
<1> QED BY <1>1 DEF Promise!Next

\* The opening of a wallet, empty or with money.
LEMMA PromiseOpen ==
    ASSUME NEW a \in Wallets, NEW m \in Money, Balances[a] = -1,
           Balances' = [Balances EXCEPT ![a] = m],
           \/ m = 0 /\ UNCHANGED <<Fates, Identities, Movements, Undoings>>
           \/ \E id \in TxIds :
                 /\ Fates'[id] # Fates[id] /\ NewIdentity(id, Identities'[id])
                 /\ Identities' = [Identities EXCEPT ![id] = Identities'[id]]
                 /\ Fates' = [Fates EXCEPT ![id] = "applied"]
                 /\ Movements' = [Movements EXCEPT ![id] = m]
                 /\ UNCHANGED Undoings
    PROVE  Promise!Next
<1>1. CASE m = 0 /\ UNCHANGED <<Fates, Identities, Movements, Undoings>>
  <2>1. Promise!OpenEmpty(a)
    BY <1>1 DEF Promise!OpenEmpty, Promise!Open, Promise!Closed, Money
  <2> QED BY <2>1 DEF Promise!Next
<1>2. ASSUME NEW id \in TxIds, Fates'[id] # Fates[id], NewIdentity(id, Identities'[id]),
             Identities' = [Identities EXCEPT ![id] = Identities'[id]],
             Fates' = [Fates EXCEPT ![id] = "applied"],
             Movements' = [Movements EXCEPT ![id] = m], UNCHANGED Undoings
      PROVE  Promise!Next
  <2>1. Promise!OpenWith(id, Identities'[id], a, m)
    BY <1>2 DEF Promise!OpenWith, Promise!Open, Promise!Closed, Promise!Fresh, NewIdentity, Money
  <2>2. m \in 0 .. MaxMinor
    BY DEF Money
  <2> QED BY <1>2, <2>1, <2>2 DEF Promise!Next
<1> QED BY <1>1, <1>2

-----------------------------------------------------------------------------
(* What a write of one row is to the promise.                               *)

\* The promise's variables are functions, whatever the tables hold.
Total ==
    /\ Fates = [id \in TxIds |-> Fates[id]] /\ Identities = [id \in TxIds |-> Identities[id]]
    /\ Movements = [id \in TxIds |-> Movements[id]] /\ Undoings = [id \in TxIds |-> Undoings[id]]

\* By the shape of their definitions.
LEMMA TotalMaps == Total
<1>1. Fates = [id \in TxIds |-> Fates[id]]
  BY DEF Fates
<1>2. Identities = [id \in TxIds |-> Identities[id]]
  BY DEF Identities, Stored, External
<1>3. Movements = [id \in TxIds |-> Movements[id]]
  BY DEF Movements
<1>4. Undoings = [id \in TxIds |-> Undoings[id]]
  BY DEF Undoings
<1> QED BY <1>1, <1>2, <1>3, <1>4 DEF Total

\* A row is written and no other.
LEMMA RowWritten ==
    ASSUME NEW i \in TxIds, \A j \in TxIds \ {i} : tx'[j] = tx[j]
    PROVE  /\ Fates' = [Fates EXCEPT ![i] = Fates'[i]]
           /\ Identities' = [Identities EXCEPT ![i] = Identities'[i]]
           /\ Undoings' = [Undoings EXCEPT ![i] = Undoings'[i]]
<1>1. \A j \in TxIds \ {i} : Fates'[j] = Fates[j]
  BY DEF Fates
<1>2. \A j \in TxIds \ {i} : Identities'[j] = Identities[j]
  BY DEF Identities, Stored, External
<1>3. \A j \in TxIds \ {i} : Undoings'[j] = Undoings[j]
  BY DEF Undoings
<1>4. Total /\ Total'
  BY TotalMaps, PTL
<1>5. Fates' = [Fates EXCEPT ![i] = Fates'[i]]
  BY <1>1, <1>4 DEF Total
<1>6. Identities' = [Identities EXCEPT ![i] = Identities'[i]]
  BY <1>2, <1>4 DEF Total
<1>7. Undoings' = [Undoings EXCEPT ![i] = Undoings'[i]]
  BY <1>3, <1>4 DEF Total
<1> QED BY <1>5, <1>6, <1>7

\* What the ledger has of an operation, from its row alone.
Owed(id) ==
    IF tx[id].status = "PROCESSED" /\ MovesMoney(tx[id].op.kind) THEN DueMovement(tx[id]) ELSE 0

MovementsAreOwed == \A id \in TxIds : Movements[id] = Owed(id)

\* Exactly once in the ledger means that the movement read there is the one owed.
LEMMA LedgerHasTheOwed == TablesOK /\ AppliedExactlyOnce => MovementsAreOwed
<1> SUFFICES ASSUME TablesOK, AppliedExactlyOnce, NEW id \in TxIds PROVE Moved(id) = Owed(id)
  BY DEF MovementsAreOwed, Movements
<1>1. PICK w : w = tx[id].op.wallet
  OBVIOUS
<1>2. w \in Wallets
  BY <1>1 DEF TablesOK, TxRow, Ops
<1>3. AppliedOnce(id, w)
  BY <1>2 DEF AppliedExactlyOnce, AppliedOnce
<1>4. CASE tx[id].status = "PROCESSED" /\ MovesMoney(tx[id].op.kind)
  <2>1. PICK i \in DOMAIN ledger[w] : EntriesOf(id, w) = {i}
                                      /\ ledger[w][i].amount = DueMovement(tx[id])
    BY <1>1, <1>3, <1>4 DEF AppliedOnce
  <2>2. (CHOOSE k \in EntriesOf(id, w) : TRUE) = i
    BY <2>1
  <2> QED BY <1>1, <1>4, <2>1, <2>2 DEF Moved, Owed
<1>5. CASE ~(tx[id].status = "PROCESSED" /\ MovesMoney(tx[id].op.kind))
  <2>1. EntriesOf(id, w) = {}
    BY <1>3, <1>5 DEF AppliedOnce
  <2> QED BY <1>1, <1>5, <2>1 DEF Moved, Owed
<1> QED BY <1>4, <1>5

\* So a written row changes its own movement and no other.
LEMMA MovementWritten ==
    ASSUME MovementsAreOwed, MovementsAreOwed', HistoryInv,
           NEW i \in TxIds, \A j \in TxIds \ {i} : tx'[j] = tx[j], tx[i].status # "PROCESSED"
    PROVE  Movements' = [Movements EXCEPT ![i] = Movements'[i]] /\ Movements[i] = 0
<1>1. ASSUME NEW j \in TxIds \ {i} PROVE Movements'[j] = Movements[j]
  <2>1. tx[j].status = "PROCESSED" => DueMovement(tx[j])' = DueMovement(tx[j])
    BY DueStays DEF HistoryInv
  <2>2. Movements[j] = Owed(j) /\ Movements'[j] = Owed(j)'
    BY DEF MovementsAreOwed, Owed, DueMovement
  <2> QED BY <2>1, <2>2 DEF Owed
<1>2. Total /\ Total'
  BY TotalMaps, PTL
<1>3. Movements' = [Movements EXCEPT ![i] = Movements'[i]]
  BY <1>1, <1>2 DEF Total
<1> QED BY <1>3 DEF MovementsAreOwed, Owed

\* What a row says of its operation.
LEMMA RowReads ==
    ASSUME NEW id \in TxIds
    PROVE  /\ Fates[id] = Fate(tx[id])
           /\ Identities[id] = IF tx[id].status # "ABSENT" /\ External(tx[id])
                               THEN <<tx[id].op.provider, tx[id].op.ext>> ELSE <<id>>
           /\ Undoings[id] = IF tx[id].resolved = None THEN id ELSE tx[id].resolved
<1>1. Fates[id] = Fate(tx[id])
  BY DEF Fates
<1>2. Identities[id] = IF tx[id].status # "ABSENT" /\ External(tx[id])
                       THEN <<tx[id].op.provider, tx[id].op.ext>> ELSE <<id>>
  BY DEF Identities, Stored, External
<1>3. Undoings[id] = IF tx[id].resolved = None THEN id ELSE tx[id].resolved
  BY DEF Undoings
<1> QED BY <1>1, <1>2, <1>3

\* The same after a step that left t there.
LEMMA RowReadsAfter ==
    ASSUME NEW id \in TxIds, NEW t, tx'[id] = t
    PROVE  /\ Fates'[id] = Fate(t)
           /\ Identities'[id] = IF t.status # "ABSENT" /\ External(t)
                                THEN <<t.op.provider, t.op.ext>> ELSE <<id>>
           /\ Undoings'[id] = IF t.resolved = None THEN id ELSE t.resolved
<1>1. Fates'[id] = Fate(t)
  BY DEF Fates
<1>2. Identities'[id] = IF t.status # "ABSENT" /\ External(t)
                        THEN <<t.op.provider, t.op.ext>> ELSE <<id>>
  BY DEF Identities, Stored, External
<1>3. Undoings'[id] = IF t.resolved = None THEN id ELSE t.resolved
  BY DEF Undoings
<1> QED BY <1>1, <1>2, <1>3

\* The fate of each status.
LEMMA FateOf ==
    ASSUME NEW t
    PROVE  /\ t.status = "ABSENT" => Fate(t) = "none"
           /\ t.status = "PENDING_REFERENCE" => Fate(t) = "waiting"
           /\ t.status = "PROCESSED" => Fate(t) = "applied"
           /\ t.status = "REJECTED" => Fate(t) = "refused"
BY DEF Fate

\* A pair is no singleton.
LEMMA PairIsNoSingleton == \A a, b, c : <<a, b>> # <<c>>
<1> SUFFICES ASSUME NEW a, NEW b, NEW c, <<a, b>> = <<c>> PROVE FALSE
  OBVIOUS
<1>1. Len(<<a, b>>) = 2 /\ Len(<<c>>) = 1
  OBVIOUS
<1> QED BY <1>1

-----------------------------------------------------------------------------
(* A commit.                                                                *)

\* The row that is committed is new under its identity, or was waiting under it.
LEMMA CommitIdentity ==
    ASSUME CoreInv, NEW p \in Procs, pc[p] = "commit", Persist(p)
    PROVE  /\ HasIdentity(row[p].id, Identities'[row[p].id])
           /\ p \in Requests => NewIdentity(row[p].id, Identities'[row[p].id])
           /\ p \in Workers => Fates[row[p].id] = "waiting"
<1>0. PICK t, i : t = row[p] /\ i = t.id
  OBVIOUS
<1>1. /\ i \in TxIds /\ Acceptable(t.op) /\ Decided(p)
      /\ p \in Requests => tx[i].status = "ABSENT"
      /\ p \in Workers => tx[i].status = "PENDING_REFERENCE" /\ tx[i].op = t.op
  BY <1>0, AtCommit
<1>2. tx'[i] = t /\ \A j \in TxIds \ {i} : tx'[j] = tx[j]
  BY <1>0, CommitWrites
<1>3. External(t) /\ t.status # "ABSENT"
  BY <1>0, <1>1 DEF Acceptable, External, Decided
<1>4. Identities'[i] = <<t.op.provider, t.op.ext>>
  BY <1>1, <1>2, <1>3, RowReadsAfter
<1>5. Identities' = [Identities EXCEPT ![i] = Identities'[i]]
  BY <1>1, <1>2, RowWritten
<1>6. ASSUME p \in Requests PROVE NewIdentity(i, Identities'[i])
  <2>1. Fates[i] = "none"
    BY <1>1, <1>6, RowReads, FateOf
  <2>2. ASSUME NEW j \in TxIds, Fates[j] # "none", Identities[j] = Identities'[i] PROVE FALSE
    <3>1. tx[j].status # "ABSENT" /\ j # i
      BY <2>1, <2>2, RowReads, FateOf
    <3>2. External(tx[j]) /\ Identities[j] = <<tx[j].op.provider, tx[j].op.ext>>
      BY <1>4, <2>2, <3>1, RowReads, PairIsNoSingleton
    <3>3. tx[j].op.provider = t.op.provider /\ tx[j].op.ext = t.op.ext
      BY <1>4, <2>2, <3>2
    <3>4. Indexed(tx[j]) /\ Indexed(t)
      BY <1>0, <2>2, <3>1, <3>2 DEF Indexed, Stored
    <3>5. tx[j].id = j
      BY DEF CoreInv, LockInv, RowsOwned
    <3>6. ~SameBusinessId(tx[j].op, t.op)
      BY <1>0, <3>1, <3>4, <3>5, IndexedRows DEF CoreInv
    <3> QED BY <3>3, <3>6 DEF SameBusinessId
  <2> QED BY <2>1, <2>2 DEF NewIdentity
<1>7. ASSUME p \in Workers PROVE Fates[i] = "waiting" /\ Identities[i] = Identities'[i]
  <2>1. Fates[i] = "waiting"
    BY <1>1, <1>7, RowReads, FateOf
  <2>2. tx[i].status # "ABSENT" /\ External(tx[i])
    BY <1>1, <1>3, <1>7 DEF External
  <2>3. Identities[i] = <<tx[i].op.provider, tx[i].op.ext>>
    BY <1>1, <2>2, RowReads
  <2> QED BY <1>1, <1>4, <1>7, <2>1, <2>3
<1>8. HasIdentity(i, Identities'[i])
  BY <1>5, <1>6, <1>7 DEF HasIdentity, Procs
<1> QED BY <1>0, <1>6, <1>7, <1>8

\* The balance moves by the movement decided, from an opened wallet and within Money.
LEMMA CommitBalance ==
    ASSUME CoreInv, NEW p \in Procs, pc[p] = "commit", Persist(p)
    PROVE  /\ Balances[row[p].op.wallet] # -1
           /\ Balances[row[p].op.wallet] + delta[p] \in Money
           /\ Balances' = [Balances EXCEPT ![row[p].op.wallet] = @ + delta[p]]
           /\ delta[p] = 0 => UNCHANGED Balances
<1>0. PICK a, d : a = row[p].op.wallet /\ d = delta[p]
  OBVIOUS
<1>1. /\ a \in Wallets /\ seen[p] = wallet[a] /\ wallet[a] \in WalletRow /\ wallet[a].version > 0
      /\ d \in Int /\ wallet[a].balance + d \in Money /\ wallet[a].version \in Nat
      /\ wallet[a].balance \in Money /\ wallet[a].balance \in Int
  BY <1>0, AtCommit DEF WalletRow, Money
<1>2. Balances[a] = wallet[a].balance
  BY <1>1 DEF Balances
<1>3. CASE d = 0
  <2>1. UNCHANGED wallet
    BY <1>0, <1>3, CommitWrites
  <2>2. UNCHANGED Balances
    BY <2>1 DEF Balances
  <2>3. Balances = [Balances EXCEPT ![a] = @ + d]
    BY <1>1, <1>2, <1>3 DEF Balances
  <2> QED BY <1>0, <1>1, <1>2, <2>2, <2>3 DEF Money
<1>4. CASE d # 0
  <2>1. wallet'[a].balance = wallet[a].balance + d /\ wallet'[a].version = wallet[a].version + 1
    <3>1. \E e \in Entry : /\ e = [tx |-> row[p].id, amount |-> delta[p], before |-> seen[p].balance,
                                   after |-> seen[p].balance + delta[p]]
                           /\ wallet'[a].balance = e.after
                           /\ wallet'[a].version = seen[p].version + 1
      BY <1>0, <1>4, CommitWrites
    <3> QED BY <1>0, <1>1, <3>1
  <2>2. \A v \in Wallets \ {a} : wallet'[v] = wallet[v]
    BY <1>0, CommitWrites
  <2>3. wallet'[a].version # 0
    BY <1>1, <2>1
  <2>4. Balances'[a] = Balances[a] + d
    BY <1>1, <1>2, <2>1, <2>3 DEF Balances
  <2>5. \A v \in Wallets \ {a} : Balances'[v] = Balances[v]
    BY <2>2 DEF Balances
  <2>6. Balances' = [Balances EXCEPT ![a] = @ + d]
    BY <2>4, <2>5 DEF Balances
  <2> QED BY <1>0, <1>1, <1>2, <1>4, <2>6 DEF Money
<1> QED BY <1>3, <1>4

\* The movement recorded for the committed row is the movement decided.
LEMMA CommitOwes ==
    ASSUME CoreInv, NEW p \in Procs, pc[p] = "commit", Persist(p),
           MovementsAreOwed, MovementsAreOwed'
    PROVE  /\ Movements' = [Movements EXCEPT ![row[p].id] = delta[p]]
           /\ delta[p] = 0 => UNCHANGED Movements
<1>0. PICK t, i, d : t = row[p] /\ i = t.id /\ d = delta[p]
  OBVIOUS
<1>1. i \in TxIds /\ Decided(p) /\ tx[i].status # "PROCESSED"
  BY <1>0, AtCommit DEF Procs
<1>2. tx'[i] = t /\ \A j \in TxIds \ {i} : tx'[j] = tx[j]
  BY <1>0, CommitWrites
<1>3. Movements'[i] = d
  <2>1. Movements'[i] = Owed(i)'
    BY <1>1 DEF MovementsAreOwed, Owed, DueMovement
  <2>2. CASE t.status = "PROCESSED" /\ MovesMoney(t.op.kind)
    <3>1. IsReversal(t.op.kind) => tx'[t.resolved] = tx[t.resolved]
      BY <1>0, <1>1, <1>2, <2>2 DEF Decided, Reverses
    <3>2. DueMovement(t)' = DueMovement(t)
      BY <3>1 DEF DueMovement
    <3>3. d = DueMovement(t)
      BY <1>0, <1>1, <2>2 DEF Decided
    <3> QED BY <1>2, <2>1, <2>2, <3>2, <3>3 DEF Owed
  <2>3. CASE ~(t.status = "PROCESSED" /\ MovesMoney(t.op.kind))
    <3>1. d = 0
      BY <1>0, <1>1, <2>3 DEF Decided
    <3> QED BY <1>2, <2>1, <2>3, <3>1 DEF Owed
  <2> QED BY <2>2, <2>3
<1>4. Movements' = [Movements EXCEPT ![i] = Movements'[i]] /\ Movements[i] = 0
  BY <1>1, <1>2, MovementWritten DEF CoreInv
<1>5. d = 0 => UNCHANGED Movements
  <2> SUFFICES ASSUME d = 0 PROVE UNCHANGED Movements
    OBVIOUS
  <2>1. Movements' = [Movements EXCEPT ![i] = 0] /\ Movements[i] = 0
    BY <1>3, <1>4
  <2>2. Movements = [id \in TxIds |-> Movements[id]]
    BY TotalMaps DEF Total
  <2> QED BY <2>1, <2>2
<1> QED BY <1>0, <1>3, <1>4, <1>5

\* A reversal is due the exact opposite of what the operation it reverses moved.
LEMMA ReversalIsOpposite ==
    ASSUME CoreInv, MovementsAreOwed, NEW t, IsReversal(t.op.kind),
           t.resolved \in TxIds, Reverses(t, t.resolved)
    PROVE  DueMovement(t) = -Movements[t.resolved]
<1>0. PICK j : j = t.resolved
  OBVIOUS
<1>1. /\ j \in TxIds /\ tx[j].status = "PROCESSED" /\ CanReverse(t.op.kind, tx[j].op.kind)
      /\ tx[j].op.amount = t.op.amount
  BY <1>0 DEF Reverses
<1>2. t.op.amount \in Int
  BY <1>1 DEF CoreInv, TypeInv, TypeOK, TablesOK, TxRow, Ops, Money
<1>3. tx[j].op.kind \in {"BET", "WIN", "REFUND"}
  BY <1>1 DEF CanReverse
<1>4. Movements[j] = DueMovement(tx[j])
  BY <1>1, <1>3 DEF MovementsAreOwed, Owed, MovesMoney
<1>5. DueMovement(t) = Signed(ReversalDirection(tx[j].op.kind), t.op.amount)
  BY <1>0 DEF DueMovement
<1>6. CASE tx[j].op.kind \in {"BET", "WIN"}
  <2>1. DueMovement(tx[j]) = Signed(Direction(tx[j].op.kind), t.op.amount)
    BY <1>1, <1>6 DEF DueMovement, IsReversal, MovesMoney
  <2> QED BY <1>0, <1>2, <1>4, <1>5, <1>6, <2>1 DEF Signed, ReversalDirection, Direction, Opposite
<1>7. CASE tx[j].op.kind = "REFUND"
  <2>1. RowInv(j) /\ tx[j].resolved # None
    BY <1>1, <1>7 DEF CoreInv, HistoryInv, RowInv, IsReversal
  <2>2. tx[tx[j].resolved].op.kind = "BET"
    BY <1>7, <2>1 DEF RowInv, Reverses, CanReverse
  <2>3. DueMovement(tx[j]) = Signed(ReversalDirection("BET"), t.op.amount)
    BY <1>1, <1>7, <2>2 DEF DueMovement, IsReversal
  <2> QED BY <1>0, <1>2, <1>4, <1>5, <1>7, <2>3 DEF Signed, ReversalDirection, Direction, Opposite
<1> QED BY <1>3, <1>6, <1>7

\* A commit is a refusal, a wait, an application or a reversal; a reference looked up
\* once more without success is invisible.
LEMMA CommitRefines ==
    ASSUME CoreInv, NEW p \in Procs, pc[p] = "commit", Persist(p),
           MovementsAreOwed, MovementsAreOwed'
    PROVE  Promise!Next \/ UNCHANGED <<Balances, Fates, Identities, Movements, Undoings>>
<1>0. PICK t, i, d, a : t = row[p] /\ i = t.id /\ d = delta[p] /\ a = t.op.wallet
  OBVIOUS
<1>1. /\ i \in TxIds /\ Decided(p) /\ a \in Wallets /\ d \in Int
      /\ p \in Requests => tx[i].status = "ABSENT"
      /\ p \in Workers => tx[i].status = "PENDING_REFERENCE" /\ tx[i].op = t.op
  BY <1>0, AtCommit
<1>2. tx'[i] = t /\ \A j \in TxIds \ {i} : tx'[j] = tx[j]
  BY <1>0, CommitWrites
<1>3. /\ Fates'[i] = Fate(t) /\ Undoings'[i] = IF t.resolved = None THEN i ELSE t.resolved
  BY <1>1, <1>2, RowReadsAfter
<1>4. /\ Fates' = [Fates EXCEPT ![i] = Fate(t)]
      /\ Undoings' = [Undoings EXCEPT ![i] = IF t.resolved = None THEN i ELSE t.resolved]
  BY <1>1, <1>2, <1>3, RowWritten
<1>5. /\ HasIdentity(i, Identities'[i])
      /\ p \in Requests => NewIdentity(i, Identities'[i])
      /\ p \in Workers => Fates[i] = "waiting"
  BY <1>0, CommitIdentity
<1>6. Fates[i] \in {"none", "waiting"} /\ (p \in Requests => Fates[i] = "none")
  BY <1>5 DEF NewIdentity, Procs
<1>7. /\ Movements' = [Movements EXCEPT ![i] = d] /\ (d = 0 => UNCHANGED Movements)
      /\ Balances[a] # -1 /\ Balances[a] + d \in Money
      /\ Balances' = [Balances EXCEPT ![a] = @ + d] /\ (d = 0 => UNCHANGED Balances)
  BY <1>0, CommitOwes, CommitBalance
<1>8. t.resolved = None => UNCHANGED Undoings
  <2> SUFFICES ASSUME t.resolved = None PROVE UNCHANGED Undoings
    OBVIOUS
  <2>1. tx[i].resolved = None
    BY <1>1 DEF CoreInv, HistoryInv, RowInv, Procs
  <2>2. Undoings[i] = i
    BY <1>1, <2>1, RowReads
  <2>3. Undoings = [id \in TxIds |-> Undoings[id]]
    BY TotalMaps DEF Total
  <2> QED BY <1>4, <2>2, <2>3
<1>9. t.status # "PROCESSED" => d = 0 /\ UNCHANGED <<Balances, Movements, Undoings>>
  BY <1>0, <1>1, <1>7, <1>8 DEF Decided
<1>10. CASE t.status = "REJECTED"
  <2>1. Fate(t) = "refused"
    BY <1>10, FateOf
  <2>2. Fates'[i] # Fates[i]
    BY <1>3, <1>6, <2>1
  <2>3. Fates' = [Fates EXCEPT ![i] = "refused"]
    BY <1>4, <2>1
  <2>4. UNCHANGED <<Balances, Movements, Undoings>>
    BY <1>9, <1>10
  <2> QED BY <1>1, <1>5, <2>2, <2>3, <2>4, PromiseRefuse
<1>11. CASE t.status = "PENDING_REFERENCE"
  <2>1. Fate(t) = "waiting"
    BY <1>11, FateOf
  <2>2. Fates' = [Fates EXCEPT ![i] = "waiting"]
    BY <1>4, <2>1
  <2>3. UNCHANGED <<Balances, Movements, Undoings>>
    BY <1>9, <1>11
  <2>4. CASE p \in Requests
    <3>1. Fates'[i] # Fates[i]
      BY <1>3, <1>6, <2>1, <2>4
    <3>2. NewIdentity(i, Identities'[i])
      BY <1>5, <2>4
    <3> QED BY <1>1, <1>5, <2>2, <2>3, <3>1, <3>2, PromiseWait
  <2>5. CASE p \in Workers
    <3>1. Fates[i] = "waiting" /\ Identities[i] = Identities'[i]
      BY <1>5, <2>5 DEF HasIdentity, NewIdentity
    <3>2. /\ Fates = [id \in TxIds |-> Fates[id]]
          /\ Identities = [id \in TxIds |-> Identities[id]]
      BY TotalMaps DEF Total
    <3>3. UNCHANGED Fates
      BY <2>2, <3>1, <3>2
    <3>4. Identities' = [Identities EXCEPT ![i] = Identities[i]]
      BY <1>5, <3>1 DEF HasIdentity
    <3>5. UNCHANGED Identities
      BY <3>2, <3>4
    <3> QED BY <2>3, <3>3, <3>5
  <2> QED BY <2>4, <2>5 DEF Procs
<1>12. CASE t.status = "PROCESSED" /\ ~IsReversal(t.op.kind)
  <2>1. Fate(t) = "applied"
    BY <1>12, FateOf
  <2>2. t.resolved = None
    BY <1>0, <1>1, <1>12 DEF Decided
  <2>3. p \in Requests
    BY <1>1, <1>12 DEF CoreInv, HistoryInv, RowInv, Procs
  <2>4. Fates'[i] # Fates[i] /\ Fates[i] = "none"
    BY <1>3, <1>6, <2>1, <2>3
  <2>5. Moves(i, a, d)
    BY <1>4, <1>7, <2>1 DEF Moves
  <2>6. d \in -MaxMinor .. MaxMinor
    <3>1. wallet[a].balance \in Money /\ wallet[a].balance + d \in Money
      BY <1>0, AtCommit DEF WalletRow
    <3> QED BY <1>1, <3>1, MaxMinorAssumption DEF Money
  <2>7. UNCHANGED Undoings
    BY <1>8, <2>2
  <2> QED BY <1>1, <1>5, <2>4, <2>5, <2>6, <2>7, PromiseApply
<1>13. CASE t.status = "PROCESSED" /\ IsReversal(t.op.kind)
  <2>1. Fate(t) = "applied"
    BY <1>13, FateOf
  <2>2. PICK j : j = t.resolved
    OBVIOUS
  <2>3. /\ j # None /\ j \in TxIds /\ Reverses(t, j) /\ FindProcessedReversalOf(j) = {}
        /\ d = DueMovement(t)
    BY <1>0, <1>1, <1>13, <2>2 DEF Decided, Reverses
  <2>4. d = -Movements[j]
    BY <1>13, <2>2, <2>3, ReversalIsOpposite
  <2>5. Fates[j] = "applied"
    <3>1. tx[j].status = "PROCESSED"
      BY <2>3 DEF Reverses
    <3> QED BY <2>3, <3>1, RowReads, FateOf
  <2>6. ASSUME NEW k \in TxIds, k # j PROVE Undoings[k] # j
    <3>1. CASE tx[k].resolved = None
      BY <2>6, <3>1, RowReads
    <3>2. CASE tx[k].resolved # None
      <4>1. tx[k].status = "PROCESSED"
        BY <3>2 DEF CoreInv, HistoryInv, RowInv
      <4>2. tx[k].resolved # j
        BY <2>3, <4>1 DEF FindProcessedReversalOf
      <4> QED BY <3>2, <4>2, RowReads
    <3> QED BY <3>1, <3>2
  <2>7. Fates'[i] # Fates[i]
    BY <1>3, <1>6, <2>1
  <2>8. Moves(i, a, -Movements[j])
    BY <1>4, <1>7, <2>1, <2>4 DEF Moves
  <2>9. Undoings' = [Undoings EXCEPT ![i] = j]
    BY <1>4, <2>2, <2>3
  <2> QED BY <1>1, <1>5, <2>3, <2>5, <2>6, <2>7, <2>8, <2>9, PromiseUndo
<1>14. t.status \in {"PROCESSED", "REJECTED", "PENDING_REFERENCE"}
  BY <1>0, <1>1 DEF Decided
<1> QED BY <1>10, <1>11, <1>12, <1>13, <1>14

-----------------------------------------------------------------------------
(* An opening.                                                              *)

\* A function that changes at one argument only.
LEMMA OneValueChanges ==
    ASSUME NEW S, NEW f, NEW g, f = [x \in S |-> f[x]], g = [x \in S |-> g[x]],
           NEW w \in S, NEW m, g[w] = m, \A x \in S \ {w} : g[x] = f[x]
    PROVE  g = [f EXCEPT ![w] = m]
OBVIOUS

\* An opening with money is an applied operation under an identity of its own; without,
\* it only opens the account.
LEMMA OpeningRefines ==
    ASSUME CoreInv, SilentUntilOpened, NEW o \in Openings, OpenWallet(o),
           MovementsAreOwed, MovementsAreOwed'
    PROVE  Promise!Next
<1>0. PICK w, m : w = o.wallet /\ m = o.amount
  OBVIOUS
<1>1. /\ w \in Wallets /\ w \in TxIds /\ m \in Money
      /\ tx[w].status = "ABSENT" /\ wallet[w].version = 0
      /\ wallet'[w].version = 1 /\ wallet'[w].balance = m
      /\ \A v \in Wallets \ {w} : wallet'[v] = wallet[v]
      /\ \A i \in TxIds \ {w} : tx'[i] = tx[i]
      /\ m > 0 => tx'[w] = OpeningRow(o)
      /\ ~(m > 0) => UNCHANGED <<tx, ledger>>
  BY <1>0, OpeningWrites
<1>2. Balances[w] = -1
  BY <1>1 DEF Balances
<1>3. Balances' = [Balances EXCEPT ![w] = m]
  <2>1. Balances'[w] = m /\ \A v \in Wallets \ {w} : Balances'[v] = Balances[v]
    BY <1>1 DEF Balances
  <2>2. Balances = [v \in Wallets |-> Balances[v]] /\ Balances' = [v \in Wallets |-> Balances'[v]]
    BY DEF Balances
  <2> QED BY <1>1, <2>1, <2>2, OneValueChanges
<1>4. CASE ~(m > 0)
  <2>1. m = 0 /\ UNCHANGED <<tx, ledger>>
    BY <1>1, <1>4 DEF Money
  <2>2. UNCHANGED Fates /\ UNCHANGED Undoings
    BY <2>1 DEF Fates, Fate, Undoings
  <2>3. UNCHANGED Identities
    BY <2>1 DEF Identities, Stored, External
  <2>4. UNCHANGED Movements
    BY <2>1 DEF Movements, Moved, EntriesOf
  <2> QED BY <1>1, <1>2, <1>3, <2>1, <2>2, <2>3, <2>4, PromiseOpen
<1>5. CASE m > 0
  <2>1. PICK t : t = OpeningRow(o)
    OBVIOUS
  <2>2. /\ t.status = "PROCESSED" /\ t.op.kind = "OPENING" /\ t.op.amount = m
        /\ t.resolved = None
    BY <1>0, <2>1 DEF OpeningRow, NewTx, NoOp
  <2>3. tx'[w] = t
    BY <1>1, <1>5, <2>1
  <2>4. /\ Fates'[w] = "applied" /\ Identities'[w] = <<w>> /\ Undoings'[w] = w
    BY <1>1, <2>2, <2>3, RowReadsAfter, FateOf DEF External
  <2>5. /\ Fates' = [Fates EXCEPT ![w] = "applied"]
        /\ Identities' = [Identities EXCEPT ![w] = Identities'[w]]
        /\ Undoings' = [Undoings EXCEPT ![w] = w]
    BY <1>1, <2>4, RowWritten
  <2>6. Fates[w] = "none"
    BY <1>1, RowReads, FateOf
  <2>7. ASSUME NEW j \in TxIds, Fates[j] # "none" PROVE Identities[j] # Identities'[w]
    <3>1. j # w
      BY <2>6, <2>7
    <3>2. <<j>> # <<w>>
      BY <3>1
    <3>3. Identities[j] = <<j>> \/ Identities[j] = <<tx[j].op.provider, tx[j].op.ext>>
      BY RowReads
    <3> QED BY <2>4, <3>2, <3>3, PairIsNoSingleton
  <2>8. NewIdentity(w, Identities'[w]) /\ Fates'[w] # Fates[w]
    BY <2>4, <2>6, <2>7 DEF NewIdentity
  <2>9. Movements' = [Movements EXCEPT ![w] = m]
    <3>1. Movements' = [Movements EXCEPT ![w] = Movements'[w]]
      BY <1>1, MovementWritten DEF CoreInv
    <3>2. Movements'[w] = Owed(w)'
      BY <1>1 DEF MovementsAreOwed, Owed, DueMovement
    <3>3. DueMovement(t)' = m
      BY <2>2 DEF DueMovement, IsReversal, MovesMoney, Direction, Signed
    <3>4. Owed(w)' = m
      BY <2>2, <2>3, <3>3 DEF Owed, MovesMoney
    <3> QED BY <3>1, <3>2, <3>4
  <2>10. UNCHANGED Undoings
    <3>1. tx[w].resolved = None
      BY <1>1 DEF CoreInv, HistoryInv, RowInv
    <3>2. Undoings[w] = w /\ Undoings = [id \in TxIds |-> Undoings[id]]
      BY <1>1, <3>1, RowReads, TotalMaps DEF Total
    <3> QED BY <2>5, <3>2
  <2> QED BY <1>1, <1>2, <1>3, <2>5, <2>8, <2>9, <2>10, PromiseOpen
<1> QED BY <1>4, <1>5

-----------------------------------------------------------------------------
(* The refinement.                                                          *)

\* The tables before anything happened are the promise before anything happened.
LEMMA RefinesInit == Init => Promise!Init
<1> SUFFICES ASSUME Init PROVE Promise!Init
  OBVIOUS
<1>1. \A id \in TxIds : tx[id].status = "ABSENT" /\ tx[id].resolved = None
  BY DEF Init, NoRow, NewTx
<1>2. \A w \in Wallets : wallet[w].version = 0
  BY DEF Init, NoWallet
<1>3. Balances = [w \in Wallets |-> -1]
  BY <1>2 DEF Balances
<1>4. Total
  BY TotalMaps
<1>5. \A id \in TxIds : Fates[id] = "none" /\ Identities[id] = <<id>> /\ Undoings[id] = id
  BY <1>1, RowReads, FateOf
<1>6. \A id \in TxIds : Movements[id] = 0
  <2>1. MovementsAreOwed
    BY InitTypes, InitApplied, LedgerHasTheOwed DEF TypeInv, TypeOK
  <2> QED BY <1>1, <2>1 DEF MovementsAreOwed, Owed
<1>7. /\ Fates = [id \in TxIds |-> "none"] /\ Identities = [id \in TxIds |-> <<id>>]
      /\ Movements = [id \in TxIds |-> 0] /\ Undoings = [id \in TxIds |-> id]
  BY <1>4, <1>5, <1>6 DEF Total
<1> QED BY <1>3, <1>7 DEF Promise!Init, Promise!Closed

\* Every step of the core is a step of the promise or leaves it alone.
LEMMA RefinesStep ==
    CoreInv /\ SilentUntilOpened /\ AppliedExactlyOnce /\ [Next]_vars
        => [Promise!Next]_(Promise!avars)
<1> SUFFICES ASSUME CoreInv, SilentUntilOpened, AppliedExactlyOnce, [Next]_vars
             PROVE  \/ Promise!Next
                    \/ UNCHANGED <<Balances, Fates, Identities, Movements, Undoings>>
  BY DEF Promise!avars
<1>1. AppliedExactlyOnce' /\ TypeInv'
  BY AppliedStep, TypeStep DEF CoreInv
<1>2. TablesOK /\ TablesOK'
  BY <1>1 DEF CoreInv, TypeInv, TypeOK
<1>3. MovementsAreOwed /\ MovementsAreOwed'
  BY <1>1, <1>2, LedgerHasTheOwed, PTL
<1>4. ASSUME UNCHANGED db
      PROVE  UNCHANGED <<Balances, Fates, Identities, Movements, Undoings>>
  <2>1. UNCHANGED <<tx, wallet, ledger>>
    BY <1>4 DEF db
  <2>2. UNCHANGED Balances
    BY <2>1 DEF Balances
  <2>3. UNCHANGED Fates
    BY <2>1 DEF Fates, Fate
  <2>4. UNCHANGED Identities
    BY <2>1 DEF Identities, Stored, External
  <2>5. UNCHANGED Movements
    BY <2>1 DEF Movements, Moved, EntriesOf
  <2>6. UNCHANGED Undoings
    BY <2>1 DEF Undoings
  <2> QED BY <2>2, <2>3, <2>4, <2>5, <2>6
<1> QED BY <1>3, <1>4, TablesMove, OpeningRefines, CommitRefines

\* For every set of requests, workers, wallets, commands and openings and every bound
\* on attempts and failures, every behaviour of the core is a behaviour of the
\* exactly-once ledger: whatever the interleaving, a commit is one of its steps and
\* nothing else can be seen of an operation (submit.go, reference_worker.go, openwallet.go).
THEOREM CoreRefinesExactlyOnceLedger == Spec => RefinesExactlyOnceLedger
<1>1. Init => SilentUntilOpened /\ AppliedExactlyOnce
  BY InitApplied
<1>2. Spec => [](CoreInv /\ SilentUntilOpened /\ AppliedExactlyOnce)
  BY <1>1, CoreInvariant, SilentStep, AppliedStep, PTL DEF Spec
<1>3. CoreInv /\ SilentUntilOpened /\ AppliedExactlyOnce /\ [Next]_vars
         => [Promise!Next]_(Promise!avars)
  BY RefinesStep
<1> QED BY <1>2, <1>3, RefinesInit, PTL DEF Spec, RefinesExactlyOnceLedger, Promise!Spec
=============================================================================
