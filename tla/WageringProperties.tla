------------------------ MODULE WageringProperties ------------------------
(***************************************************************************)
(* What the financial core promises, stated over the tables and the        *)
(* answers of Wagering.                                                    *)
(***************************************************************************)
EXTENDS Wagering

TablesOK ==
    /\ wallet \in [Wallets -> WalletRow]
    /\ tx \in [TxIds -> TxRow]
    /\ ledger \in [Wallets -> Seq(Entry)]
    /\ outbox \in [Wallets -> Seq(Event)]

ProcessesOK ==
    /\ pc \in [Procs -> {"idle", "lookup", "lock", "reference", "reversed", "write",
                         "commit", "reread", "done"}]
    /\ row \in [Procs -> TxRow]
    /\ seen \in [Procs -> WalletRow]
    /\ found \in [Procs -> TxIds \cup {None}]
    /\ delta \in [Procs -> Int]
    /\ attempt \in [Procs -> Nat]
    /\ answer \in [Requests -> Answers]

\* Every table and every local holds a value of its type; no stored balance is
\* negative or beyond MaxMinor.
TypeOK == TablesOK /\ ProcessesOK /\ faults \in Nat

\* A process that has read its wallet FOR UPDATE still holds the current row when it
\* writes: nobody else has committed a movement on that wallet in between, whatever
\* the interleaving of submissions, workers, retries and crashes.  This is what lets
\* apply and handleOne decide on a balance they read several statements earlier.
LockedReadFresh ==
    \A p \in Procs : HoldsWallet(p) => seen[p] = wallet[row[p].op.wallet]

\* Each entry continues from the one before it and adds its signed amount.
Chained(es) ==
    \A i \in 1 .. Len(es) :
        /\ es[i].before = IF i = 1 THEN 0 ELSE es[i - 1].after
        /\ es[i].after = es[i].before + es[i].amount
        /\ es[i].after >= 0 /\ es[i].amount # 0

ClosingBalance(es) == IF Len(es) = 0 THEN 0 ELSE es[Len(es)].after

\* The ledger explains the balance: entries start at zero and chain, no balance on
\* the way is negative, the last one ends at the balance stored in the wallet, whose
\* version counts the movements since it was opened, the opening itself included
\* (reconcile.go reports zero difference).  An opening is stored with its wallet.
LedgerExplainsBalance ==
    \A w \in Wallets :
        /\ Chained(ledger[w])
        /\ wallet[w].balance = ClosingBalance(ledger[w])
        /\ Stored(w) => wallet[w].version > 0
        /\ wallet[w].version = IF Stored(w) \/ wallet[w].version = 0
                               THEN Len(ledger[w]) ELSE Len(ledger[w]) + 1

\* One stored operation per (provider, externalId) and one per (provider, key), also
\* counting the transactions that have inserted their row and not committed yet.
OneRowPerIdentity ==
    LET Committed == {tx[id] : id \in {i \in TxIds : Stored(i) /\ External(tx[i])}}
        InFlight  == {row[p] : p \in {q \in Procs : pc[q] = "commit"}}
    IN  \A a, b \in Committed \cup InFlight :
            a.id # b.id => ~SameBusinessId(a.op, b.op) /\ ~SameKey(a.op, b.op)

\* Positions of an operation's entries in the ledger of a wallet.
EntriesOf(id, w) == {i \in DOMAIN ledger[w] : ledger[w][i].tx = id}

\* The movement a processed operation is due: its kind's direction, or for a reversal
\* the exact opposite of what its reference moved.
DueMovement(t) ==
    IF IsReversal(t.op.kind)
    THEN Signed(ReversalDirection(tx[t.resolved].op.kind), t.op.amount)
    ELSE IF MovesMoney(t.op.kind) THEN Signed(Direction(t.op.kind), t.op.amount) ELSE 0

\* Exactly once: an operation is in the ledger if and only if it is PROCESSED and
\* moves money; then it is there once, on its own wallet, with the movement its kind
\* is due, and the balance it reports is the one its entry ended at.  Resends under
\* the same identity, retries after a rollback and lost acknowledgements included.
AppliedExactlyOnce ==
    \A id \in TxIds, w \in Wallets :
        LET t == tx[id]
            due == t.status = "PROCESSED" /\ MovesMoney(t.op.kind) /\ t.op.wallet = w
        IN  IF due
            THEN \E i \in DOMAIN ledger[w] :
                    /\ EntriesOf(id, w) = {i}
                    /\ ledger[w][i].amount = DueMovement(t)
                    /\ ledger[w][i].after = t.balance
            ELSE EntriesOf(id, w) = {}

\* An operation is undone at most once, by whatever kind and through whichever of
\* the HTTP path and the worker, and only by a reversal of the same provider, player,
\* wallet, currency, round and amount that names it.
ReversedAtMostOnce ==
    \A r \in TxIds :
        tx[r].status = "PROCESSED" /\ IsReversal(tx[r].op.kind) =>
            LET target == tx[tx[r].resolved]
            IN  /\ tx[r].resolved \in TxIds
                /\ FindProcessedReversalOf(tx[r].resolved) = {r}
                /\ target.status = "PROCESSED"
                /\ CanReverse(tx[r].op.kind, target.op.kind)
                /\ target.op.ext = tx[r].op.ref
                /\ \A f \in {"provider", "player", "wallet", "currency", "round", "amount"} :
                      target.op[f] = tx[r].op[f]

\* The second line of defence is never needed: under the wallet lock the conditional
\* UPDATE of the balance always matches its version, the partial unique index on the
\* resolved reference never refuses, and a worker never finds its claimed row settled.
BackstopsSilent ==
    \A p \in Procs :
        pc[p] = "write" => WriteOutcome(p) \notin {"version", "reversal", "terminal"}

IsChange(e) == e.type = "WalletBalanceChanged"

\* The balance events are the entries, in order, and number the versions from base on.
ChangesAre(events, entries, base) ==
    /\ \A i \in DOMAIN events :
          IsChange(events[i]) =>
              \E k \in DOMAIN entries : /\ events[i].version = base + k
                                        /\ events[i].tx = entries[k].tx
    /\ \A k \in DOMAIN entries :
          \E i \in DOMAIN events : IsChange(events[i]) /\ events[i].version = base + k
    /\ \A i, j \in DOMAIN events :
          i < j /\ IsChange(events[i]) /\ IsChange(events[j]) =>
              events[i].version < events[j].version

\* Where an operation's end is announced.
EndsOf(events, id) ==
    {i \in DOMAIN events :
        /\ events[i].tx = id
        /\ events[i].type \in {"WagerTransactionProcessed", "WagerTransactionRejected"}}

\* The outbox tells what happened and nothing else: per wallet the balance events are
\* the ledger, in order, with consecutive versions, and every stored operation has
\* exactly one terminal event once it is terminal and none before.
OutboxMatchesFacts ==
    \A w \in Wallets :
        /\ ChangesAre(outbox[w], ledger[w], wallet[w].version - Len(ledger[w]))
        /\ \A id \in TxIds :
              IF tx[id].status \in Terminal /\ tx[id].op.wallet = w
              THEN \E i \in DOMAIN outbox[w] : EndsOf(outbox[w], id) = {i}
              ELSE EndsOf(outbox[w], id) = {}

\* What a provider is told is what is stored: a result names a committed row of the
\* operation it sent, a final status in it is the row's status for good, and two
\* requests for the same operation that get a result get it from the same row.
AnswersAreDurable ==
    \A r \in Requests :
        answer[r].kind = "result" =>
            LET t == tx[answer[r].id]
            IN  /\ Stored(answer[r].id)
                /\ t.op = row[r].op
                /\ answer[r].status \in Terminal =>
                      /\ t.status = answer[r].status /\ t.code = answer[r].code
                      /\ t.status = "PROCESSED" => t.balance = answer[r].balance
                /\ \A q \in Requests :
                      answer[q].kind = "result" /\ row[q].op = row[r].op
                         => answer[q].id = answer[r].id

\* A resend gets the same answer: two results for the same operation in the same
\* status carry the same code and the same balance (the comment on SubmitResult).
ReplayRepeatsAnswer ==
    \A r, q \in Requests :
        /\ answer[r].kind = "result" /\ answer[q].kind = "result"
        /\ row[r].op = row[q].op /\ answer[r].status = answer[q].status
        => answer[r].code = answer[q].code /\ answer[r].balance = answer[q].balance

\* A row that was stored keeps its identity and moves along allowedTransitions, or
\* waits on; the ledger and the outbox only grow at their ends.
FinalStep ==
    /\ \A id \in TxIds :
          tx'[id] # tx[id] =>
             \/ tx[id].status = "ABSENT"
             \/ /\ tx'[id].op = tx[id].op
                /\ \/ <<tx[id].status, tx'[id].status>> \in AllowedTransitions
                   \/ /\ tx[id].status = "PENDING_REFERENCE"
                      /\ tx'[id] = [tx[id] EXCEPT !.attempts = @ + 1]
    /\ \A w \in Wallets :
          /\ SubSeq(ledger'[w], 1, Len(ledger[w])) = ledger[w]
          /\ SubSeq(outbox'[w], 1, Len(outbox[w])) = outbox[w]

\* Rows only move along allowedTransitions, an identity is never rewritten, and a
\* terminal row never changes again; the ledger and the outbox are append-only.
HistoryIsFinal == [][FinalStep]_db

-----------------------------------------------------------------------------
(* Refinement: read through committed rows only, the core is the exactly-   *)
(* once ledger.                                                             *)

Fate(t) ==
    CASE t.status \in {"ABSENT", "PENDING"} -> "none"
      [] t.status = "PENDING_REFERENCE" -> "waiting"
      [] t.status = "PROCESSED" -> "applied"
      [] t.status \in {"REJECTED", "FAILED"} -> "refused"

\* The signed amount an operation moved, as its ledger entry has it.
Moved(id) ==
    LET w == tx[id].op.wallet
    IN  IF EntriesOf(id, w) = {} THEN 0
        ELSE ledger[w][CHOOSE i \in EntriesOf(id, w) : TRUE].amount

\* What the promise's variables stand for.
Balances == [w \in Wallets |-> IF wallet[w].version = 0 THEN -1 ELSE wallet[w].balance]

Fates == [id \in TxIds |-> Fate(tx[id])]

Identities ==
    [id \in TxIds |-> IF Stored(id) /\ External(tx[id])
                      THEN <<tx[id].op.provider, tx[id].op.ext>> ELSE <<id>>]

Movements == [id \in TxIds |-> Moved(id)]

Undoings == [id \in TxIds |-> IF tx[id].resolved = None THEN id ELSE tx[id].resolved]

Promise == INSTANCE ExactlyOnceLedger WITH
    Ids <- TxIds, Accounts <- Wallets, Top <- MaxMinor,
    balance <- Balances, fate <- Fates, identity <- Identities,
    moved <- Movements, undoes <- Undoings

\* Every behaviour of submissions, workers, retries, crashes and lost acknowledgements
\* is a behaviour of the exactly-once ledger: each commit is one of its steps and
\* everything else is invisible.
RefinesExactlyOnceLedger == Promise!Spec

-----------------------------------------------------------------------------
(* Liveness.  A statement that can run does, and the worker's ticker keeps  *)
(* firing: weak fairness is enough, because a wallet lock and an index      *)
(* entry are held for a bounded number of statements and every claim        *)
(* settles the row or uses up one of its attempts.  Failures are finite:    *)
(* MaxFaults bounds them.  Openings, arrivals and failures are not fair.    *)

FairSpec ==
    /\ Spec
    /\ \A r \in Requests : WF_vars(Lookup(r) \/ Reread(r))
    /\ \A p \in Procs : WF_vars(Step(p))
    /\ \A id \in TxIds : WF_vars(\E k \in Workers : Claim(k, id))

\* Every submission is answered: nobody waits forever on a wallet or an index, and
\* no retry loop goes on forever.
EveryRequestAnswered == \A r \in Requests : pc[r] = "lookup" ~> pc[r] = "done"

\* Every parked reversal is settled: applied when its reference turned up, rejected
\* when the deadline or the attempts ran out.
EveryWaitEnds ==
    \A id \in TxIds : tx[id].status = "PENDING_REFERENCE" ~> tx[id].status \in Terminal
=============================================================================
