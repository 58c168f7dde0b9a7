------------------------------ MODULE Wagering ------------------------------
(***************************************************************************)
(* The financial core: operations submitted over HTTP                      *)
(* (SubmitTransaction.Execute), the worker that settles parked reversals   *)
(* (ReferenceWorker.handleOne) and the opening of wallets, interleaved     *)
(* statement by statement over one PostgreSQL database at READ COMMITTED.  *)
(*                                                                         *)
(* A process is a unit of work in progress.  Every statement that reads    *)
(* shared rows, or that can wait for another transaction, is a step of its *)
(* own; computation on values already read is folded into the step that    *)
(* read them.  A row lock is not a variable: who holds it follows from how *)
(* far the process has got, so a rollback or a crash releases it by moving *)
(* the program counter, as PostgreSQL releases it by ending the            *)
(* transaction.  What a transaction has written and not committed is in    *)
(* its locals (row, delta, seen) and nowhere else until Commit.            *)
(***************************************************************************)
EXTENDS WagerDomain

CONSTANTS
    Requests,        \* submissions; a request's name is also the id it mints
    Workers,         \* reference workers
    Names,           \* providers, external ids, keys, players, currencies, rounds
    Wallets,         \* wallet ids; a wallet's name is also its opening's id
    Commands,        \* operations a request may carry
    Openings,        \* wallet openings the internal service may ask for
    MaxAttempts,     \* RetryPolicy.MaxAttempts of the unit of work
    MaxLookups,      \* ReferencePolicy.MaxAttempts of the reference worker
    MaxFaults,       \* bound: failures of the database or of a process
    None             \* an identifier that is not set

Ops == [provider : Names, ext : Names, key : Names, wallet : Wallets,
        player : Names, currency : Names, round : Names, kind : Kinds,
        amount : Money, ref : Names]

ASSUME SetsAssumption ==
    /\ Requests \cap Workers = {}
    /\ Requests \cap Wallets = {}
    /\ Wallets # {}
    /\ None \notin Requests \cup Wallets
    /\ None \in Names

ASSUME CommandsAssumption == Commands \subseteq Ops

ASSUME OpeningsAssumption ==
    Openings \subseteq [wallet : Wallets, player : Names, currency : Names, amount : Money]

ASSUME BoundsAssumption ==
    MaxAttempts \in Nat \ {0} /\ MaxLookups \in Nat \ {0} /\ MaxFaults \in Nat

VARIABLES
    wallet,    \* table wallets
    tx,        \* table wager_transactions, by id
    ledger,    \* table wallet_ledger_entries, per wallet in seq order
    outbox,    \* table outbox_events, per wallet in seq order
    pc,        \* the statement each process is about to run
    row,       \* the WagerTransaction value a process holds in memory
    seen,      \* the Wallet value it read under FOR UPDATE
    found,     \* the reference resolveReference found
    delta,     \* the signed movement it is about to record; 0 for none
    attempt,   \* attempts of the unit of work so far
    answer,    \* what the caller of a request was told
    faults     \* failures so far

db     == <<wallet, tx, ledger, outbox>>
locals == <<row, seen, found, delta>>
vars   == <<db, pc, locals, attempt, answer, faults>>

Procs == Requests \cup Workers
TxIds == Requests \cup Wallets

-----------------------------------------------------------------------------
(* Rows.  An absent row is a record of the same shape, so every table is a  *)
(* total function.                                                          *)

Unset == -1      \* a Money that was never set: NULL in the column, Money{} in memory

NoWallet == [player |-> None, currency |-> None, balance |-> 0, version |-> 0]

WalletRow == [player : Names, currency : Names, balance : Money, version : Nat]

AnyWallet == CHOOSE w \in Wallets : TRUE

NoOp == [provider |-> None, ext |-> None, key |-> None, wallet |-> AnyWallet,
         player |-> None, currency |-> None, round |-> None, kind |-> "OPENING",
         amount |-> 0, ref |-> None]

TxRow == [id : TxIds, op : Ops, status : Statuses \cup {"ABSENT"}, code : FailureCodes \cup {None},
          balance : Money \cup {Unset}, resolved : TxIds \cup {None}, attempts : Nat]

\* NewExternalTransaction
NewTx(id, op) == [id |-> id, op |-> op, status |-> "PENDING", code |-> None,
                  balance |-> Unset, resolved |-> None, attempts |-> 0]

NoRow(id) == [NewTx(id, NoOp) EXCEPT !.status = "ABSENT"]

NullRow == NoRow(AnyWallet)   \* in the hands of a process that holds no row

Entry == [tx : TxIds, amount : Int, before : Money, after : Money]

Event == [type : EventTypes, tx : TxIds, version : Nat]

\* The content a payload hash fingerprints: everything but the key.
Content(op) == [op EXCEPT !.key = None]

External(t) == t.op.kind # "OPENING"

Stored(id) == tx[id].status # "ABSENT"

-----------------------------------------------------------------------------
(* Transitions of a WagerTransaction in memory.                             *)

MarkProcessed(t, balance) == [t EXCEPT !.status = "PROCESSED", !.balance = balance]

Reject(t, code) == [t EXCEPT !.status = "REJECTED", !.code = code]

MarkPendingReference(t) == [t EXCEPT !.status = "PENDING_REFERENCE", !.attempts = @ + 1]

\* Faults: a reschedule that puts the row back to PENDING; one that counts nothing.
RescheduleToPending(t) == [t EXCEPT !.status = "PENDING", !.attempts = @ + 1]

RescheduleUncounted(t) == t

RescheduleReference(t) == [t EXCEPT !.attempts = @ + 1]

\* What NewExternalTransaction refuses: OPENING, an amount the kind does not
\* take, a reference on the wrong side of IsReversal.
Acceptable(op) ==
    /\ op.kind # "OPENING"
    /\ ValidAmount(op.kind, op.amount)
    /\ IsReversal(op.kind) <=> op.ref # None

-----------------------------------------------------------------------------
(* Decisions, on values already read.  A decision is the row to write and   *)
(* the movement to record with it.                                          *)

Decision(t, d) == [row |-> t, delta |-> d]

\* SubmitTransaction.movement, then MarkProcessed or reject.
Movement(t, w) ==
    LET d    == Direction(t.op.kind)
        code == MoveCode(w, d, t.op.amount, t.op.currency)
        move == Signed(d, t.op.amount)
    IN  IF ~MovesMoney(t.op.kind) THEN Decision(MarkProcessed(t, w.balance), 0)
        ELSE IF code = "OK" THEN Decision(MarkProcessed(t, w.balance + move), move)
        ELSE Decision(Reject(t, code), 0)

\* A LOSS in another currency: MarkProcessed refuses and nothing is recorded.
Unrecordable(t, w) == ~MovesMoney(t.op.kind) /\ t.op.currency # w.currency

\* disagreement: a field the reversal and its reference must share and do not.
Disagrees(t, target) ==
    \E f \in {"player", "wallet", "currency", "round"} : t.op[f] # target.op[f]

\* resolveReference up to the amount: "WAIT", a rejection code, or "USABLE".
ReferenceVerdict(t, target) ==
    IF target.status \notin Terminal THEN "WAIT"
    ELSE IF target.status # "PROCESSED" \/ ~CanReverse(t.op.kind, target.op.kind)
         THEN "REFERENCE_NOT_REVERSIBLE"
    ELSE IF Disagrees(t, target) THEN "REFERENCE_MISMATCH"
    ELSE IF t.op.amount # target.op.amount THEN "REFERENCE_AMOUNT_MISMATCH"
    ELSE "USABLE"

\* Faults: applyReversal without ResolveReference; reporting the balance it found.
ApplyReversalUnresolved(t, w, target) ==
    LET d    == ReversalDirection(target.op.kind)
        code == MoveCode(w, d, t.op.amount, t.op.currency)
        move == Signed(d, t.op.amount)
    IN  IF code = "OK" THEN Decision(MarkProcessed(t, w.balance + move), move)
        ELSE Decision(Reject(t, code), 0)

ApplyReversalStaleBalance(t, w, target) ==
    LET d    == ReversalDirection(target.op.kind)
        code == MoveCode(w, d, t.op.amount, t.op.currency)
        move == Signed(d, t.op.amount)
    IN  IF code = "OK"
        THEN Decision([MarkProcessed(t, w.balance) EXCEPT !.resolved = target.id], move)
        ELSE Decision(Reject(t, code), 0)

\* Fault: the reversal moves the money the way its reference did.
ApplyReversalSameWay(t, w, target) ==
    LET d    == Direction(target.op.kind)
        code == MoveCode(w, d, t.op.amount, t.op.currency)
        move == Signed(d, t.op.amount)
    IN  IF code = "OK"
        THEN Decision([MarkProcessed(t, w.balance + move) EXCEPT !.resolved = target.id], move)
        ELSE Decision(Reject(t, code), 0)

\* applyReversal: the opposite movement, a debit that does not fit having its own code.
ApplyReversal(t, w, target) ==
    LET d    == ReversalDirection(target.op.kind)
        code == MoveCode(w, d, t.op.amount, t.op.currency)
        move == Signed(d, t.op.amount)
    IN  IF code = "OK"
        THEN Decision([MarkProcessed(t, w.balance + move) EXCEPT !.resolved = target.id], move)
        ELSE Decision(Reject(t, IF code = "INSUFFICIENT_FUNDS" THEN "REVERSAL_EXCEEDS_BALANCE"
                                ELSE code), 0)

-----------------------------------------------------------------------------
(* Queries on committed rows.                                               *)

SameBusinessId(a, b) == a.provider = b.provider /\ a.ext = b.ext

SameKey(a, b) == a.provider = b.provider /\ a.key = b.key

\* FindByBusinessID
FindByBusinessID(provider, ext) ==
    {id \in TxIds : Stored(id) /\ External(tx[id])
                    /\ tx[id].op.provider = provider /\ tx[id].op.ext = ext}

\* FindProcessedReversalOf
FindProcessedReversalOf(id) ==
    {r \in TxIds : tx[r].status = "PROCESSED" /\ tx[r].resolved = id}

-----------------------------------------------------------------------------
(* Locks, derived from where a process is.                                  *)

\* Past FindByIDForUpdate and not yet ended.
HoldsWallet(p) == pc[p] \in {"reference", "reversed", "write", "commit"}

\* Fault: the wallet is read without FOR UPDATE.
WalletFreeUnlocked(p) == TRUE

WalletFree(p) ==
    \A q \in Procs \ {p} : HoldsWallet(q) => row[q].op.wallet # row[p].op.wallet

\* The pending row a worker has claimed FOR UPDATE SKIP LOCKED.
Claimed(id) == \E q \in Workers : pc[q] # "idle" /\ row[q].id = id

\* Unique indexes of wager_transactions: a process at "commit" has its entries in
\* them, and whoever would collide waits for it to end.
BusinessClash(a, b) == SameBusinessId(a.op, b.op) /\ a.id # b.id

KeyClash(a, b) == SameKey(a.op, b.op) /\ a.id # b.id

ReversalClash(a, b) ==
    /\ a.status = "PROCESSED" /\ b.status = "PROCESSED"
    /\ a.resolved # None /\ a.resolved = b.resolved /\ a.id # b.id

IndexFree(p) ==
    \A q \in Procs \ {p} :
        pc[q] = "commit" => /\ ~BusinessClash(row[q], row[p])
                            /\ ~KeyClash(row[q], row[p])
                            /\ ~ReversalClash(row[q], row[p])

-----------------------------------------------------------------------------
(* Answers and the ways a process ends.                                     *)

NoAnswer == [kind |-> "none", id |-> None, status |-> "ABSENT", code |-> None,
             balance |-> Unset, replay |-> FALSE]

Refusal(kind) == [NoAnswer EXCEPT !.kind = kind]

Result(t, balance, replay) ==
    [kind |-> "result", id |-> t.id, status |-> t.status, code |-> t.code,
     balance |-> balance, replay |-> replay]

Answers == [kind : {"none", "result", "conflict", "invalid", "not_found", "failed"},
            id : TxIds \cup {None}, status : Statuses \cup {"ABSENT"}, code : FailureCodes \cup {None},
            balance : Money \cup {Unset}, replay : BOOLEAN]

\* Fault: replay that compares nothing.
ReplayUnchecked(stored, op) == Result(stored, stored.balance, TRUE)

\* replay: the stored outcome, once content and key are shown to be the same.
Replay(stored, op) ==
    IF Content(stored.op) # Content(op) \/ stored.op.key # op.key
    THEN Refusal("conflict")
    ELSE Result(stored, stored.balance, TRUE)

Goto(p, label) == pc' = [pc EXCEPT ![p] = label]

Forget(p, t) ==
    /\ row' = [row EXCEPT ![p] = t]
    /\ seen' = [seen EXCEPT ![p] = NoWallet]
    /\ found' = [found EXCEPT ![p] = None]
    /\ delta' = [delta EXCEPT ![p] = 0]

\* A request returns to its caller.
Return(p, a) ==
    /\ p \in Requests
    /\ Goto(p, "done")
    /\ Forget(p, NewTx(p, row[p].op))
    /\ answer' = [answer EXCEPT ![p] = a]
    /\ UNCHANGED attempt

\* A worker's handleOne returns; the next tick starts another.
EndWork(p) ==
    /\ p \in Workers
    /\ Goto(p, "idle")
    /\ Forget(p, NullRow)
    /\ UNCHANGED <<attempt, answer>>

Fails(p) == Return(p, Refusal("failed")) \/ EndWork(p)

\* unitOfWork.Do after a transient failure: roll back, run fn again from the top.
\* For a worker that is to claim afresh, as its next tick would.
Retry(p) ==
    \/ /\ p \in Requests
       /\ attempt[p] < MaxAttempts
       /\ Goto(p, "lookup")
       /\ Forget(p, NewTx(p, row[p].op))
       /\ attempt' = [attempt EXCEPT ![p] = @ + 1]
       /\ UNCHANGED answer
    \/ (p \in Workers \/ attempt[p] >= MaxAttempts) /\ Fails(p)

\* The outcome is decided; what is left is to write it.
Decide(p, d) ==
    /\ Goto(p, "write")
    /\ row' = [row EXCEPT ![p] = d.row]
    /\ delta' = [delta EXCEPT ![p] = d.delta]

-----------------------------------------------------------------------------
(* Opening a wallet: one unit of work of plain inserts, in one step.        *)

OpeningRow(o) ==
    [NewTx(o.wallet, [NoOp EXCEPT !.wallet = o.wallet, !.player = o.player,
                                  !.currency = o.currency, !.amount = o.amount])
       EXCEPT !.status = "PROCESSED", !.balance = o.amount]

Announce(types, id, version) ==
    [i \in DOMAIN types |->
        [type |-> types[i], tx |-> id,
         version |-> IF types[i] = "WalletBalanceChanged" THEN version ELSE 0]]

OpenWallet(o) ==
    /\ wallet[o.wallet].version = 0
    /\ \A w \in Wallets : wallet[w].version = 0 \/ wallet[w].player # o.player
                          \/ wallet[w].currency # o.currency
    /\ wallet' = [wallet EXCEPT ![o.wallet] =
                     [player |-> o.player, currency |-> o.currency,
                      balance |-> o.amount, version |-> 1]]
    /\ IF o.amount > 0
       THEN /\ tx' = [tx EXCEPT ![o.wallet] = OpeningRow(o)]
            /\ ledger' = [ledger EXCEPT ![o.wallet] =
                             <<[tx |-> o.wallet, amount |-> o.amount, before |-> 0,
                                after |-> o.amount]>>]
            /\ outbox' = [outbox EXCEPT ![o.wallet] =
                             Announce(EventsForOutcome("PROCESSED", TRUE), o.wallet, 1)]
       ELSE UNCHANGED <<tx, ledger, outbox>>
    /\ UNCHANGED <<pc, locals, attempt, answer, faults>>

-----------------------------------------------------------------------------
(* The statements of a unit of work, in order.                              *)

\* Execute is called: the command is parsed and a transaction begins.
Receive(r, c) ==
    /\ pc[r] = "idle"
    /\ Goto(r, "lookup")
    /\ row' = [row EXCEPT ![r] = NewTx(r, c)]
    /\ attempt' = [attempt EXCEPT ![r] = 1]
    /\ UNCHANGED <<db, seen, found, delta, answer, faults>>

\* ExecuteIn up to the wallet: FindByBusinessID, then replay or go on.
Lookup(r) ==
    /\ pc[r] = "lookup"
    /\ LET op   == row[r].op
           hits == FindByBusinessID(op.provider, op.ext)
       IN  \/ \E id \in hits : Return(r, Replay(tx[id], op))
           \/ hits = {} /\ ~Acceptable(op) /\ Return(r, Refusal("invalid"))
           \/ /\ hits = {} /\ Acceptable(op)
              /\ Goto(r, "lock")
              /\ UNCHANGED <<locals, attempt, answer>>
    /\ UNCHANGED <<db, faults>>

\* ReferenceWorker.handleOne: ClaimDueReferences of one row.  When a row is due
\* is left open: any waiting row may be.
Claim(k, id) ==
    /\ pc[k] = "idle"
    /\ tx[id].status = "PENDING_REFERENCE"
    /\ ~Claimed(id)
    /\ Goto(k, "lock")
    /\ row' = [row EXCEPT ![k] = tx[id]]
    /\ UNCHANGED <<db, seen, found, delta, attempt, answer, faults>>

\* FindByIDForUpdate, the ownership check, and for a kind that reverses nothing
\* the decision that follows from the balance alone.
LockWallet(p) ==
    /\ pc[p] = "lock"
    /\ WalletFree(p)
    /\ LET t == row[p]
           w == wallet[t.op.wallet]
       IN  \/ w.version = 0 /\ Return(p, Refusal("not_found"))
           \/ /\ w.version > 0 /\ p \in Requests /\ w.player # t.op.player
              /\ Return(p, Refusal("invalid"))
           \/ /\ w.version > 0 /\ (p \in Workers \/ w.player = t.op.player)
              /\ IsReversal(t.op.kind)
              /\ Goto(p, "reference")
              /\ seen' = [seen EXCEPT ![p] = w]
              /\ UNCHANGED <<row, found, delta, attempt, answer>>
           \/ /\ w.version > 0 /\ w.player = t.op.player
              /\ ~IsReversal(t.op.kind) /\ Unrecordable(t, w)
              /\ Return(p, Refusal("invalid"))
           \/ /\ w.version > 0 /\ w.player = t.op.player
              /\ ~IsReversal(t.op.kind) /\ ~Unrecordable(t, w)
              /\ Decide(p, Movement(t, w))
              /\ seen' = [seen EXCEPT ![p] = w]
              /\ UNCHANGED <<found, attempt, answer>>
    /\ UNCHANGED <<db, faults>>

\* The reference cannot be used yet: a submission parks the reversal, a worker
\* reschedules it or, past its deadline or its attempts, rejects it.
StillWaiting(p) ==
    \/ p \in Requests /\ Decide(p, Decision(MarkPendingReference(row[p]), 0))
    \/ \E deadlinePassed \in BOOLEAN :
          /\ p \in Workers
          /\ Decide(p, IF deadlinePassed \/ row[p].attempts >= MaxLookups
                       THEN Decision(Reject(row[p], "REFERENCE_NOT_FOUND"), 0)
                       ELSE Decision(RescheduleReference(row[p]), 0))

\* resolveReference: FindByBusinessID of the reference and the checks on it.
FindReference(p) ==
    /\ pc[p] = "reference"
    /\ LET hits == FindByBusinessID(row[p].op.provider, row[p].op.ref)
       IN  \/ hits = {} /\ StillWaiting(p) /\ UNCHANGED found
           \/ \E id \in hits :
                LET verdict == ReferenceVerdict(row[p], tx[id])
                IN  \/ verdict = "WAIT" /\ StillWaiting(p) /\ UNCHANGED found
                    \/ /\ verdict \notin {"WAIT", "USABLE"}
                       /\ Decide(p, Decision(Reject(row[p], verdict), 0))
                       /\ UNCHANGED found
                    \/ /\ verdict = "USABLE"
                       /\ Goto(p, "reversed")
                       /\ found' = [found EXCEPT ![p] = id]
                       /\ UNCHANGED <<row, delta>>
    /\ UNCHANGED <<db, seen, attempt, answer, faults>>

\* resolveReference's last query, then applyReversal.
FindReversal(p) ==
    /\ pc[p] = "reversed"
    /\ \/ /\ FindProcessedReversalOf(found[p]) # {}
          /\ Decide(p, Decision(Reject(row[p], "ALREADY_REVERSED"), 0))
       \/ /\ FindProcessedReversalOf(found[p]) = {}
          /\ Decide(p, ApplyReversal(row[p], seen[p], tx[found[p]]))
    /\ UNCHANGED <<db, seen, found, attempt, answer, faults>>

\* A committed row already has this transaction's identity, or its key.
BusinessTaken(t) == \E id \in TxIds : Stored(id) /\ External(tx[id]) /\ BusinessClash(tx[id], t)

KeyUnindexed(t) == FALSE      \* fault: no unique index on the key

KeyTaken(t) == \E id \in TxIds : Stored(id) /\ External(tx[id]) /\ KeyClash(tx[id], t)

\* Another reversal of the same reference is PROCESSED.
ReversalTaken(t) == \E id \in TxIds : ReversalClash(tx[id], t)

\* Update's WHERE clause: the row the worker means to move is already settled.
AlreadyTerminal(p) == p \in Workers /\ tx[row[p].id].status \in Terminal

\* UpdateBalance's WHERE clause: the wallet is not at the version it was read at.
VersionMoved(p) == delta[p] # 0 /\ wallet[row[p].op.wallet].version # seen[p].version

\* What Insert or Update, UpdateBalance and Append run into first.  PostgreSQL
\* checks the unique indexes in the order they were created.
WriteOutcome(p) ==
    IF BusinessTaken(row[p]) THEN "business"
    ELSE IF KeyTaken(row[p]) THEN "key"
    ELSE IF ReversalTaken(row[p]) THEN "reversal"
    ELSE IF AlreadyTerminal(p) THEN "terminal"
    ELSE IF VersionMoved(p) THEN "version"
    ELSE "ok"

\* The statements succeed and their rows wait for the commit.
Write(p) ==
    /\ pc[p] = "write"
    /\ IndexFree(p)
    /\ WriteOutcome(p) = "ok"
    /\ Goto(p, "commit")
    /\ UNCHANGED <<db, locals, attempt, answer, faults>>

\* Fault: any refused write is taken for a transient failure and never given up.
LoseRaceForever(p) ==
    /\ pc[p] = "write"
    /\ IndexFree(p)
    /\ WriteOutcome(p) # "ok"
    /\ Goto(p, IF p \in Requests THEN "lookup" ELSE "lock")
    /\ Forget(p, IF p \in Requests THEN NewTx(p, row[p].op) ELSE tx[row[p].id])
    /\ UNCHANGED <<db, attempt, answer, faults>>

\* Another operation got there first; the transaction is rolled back.  Which
\* constraint refused decides what comes next.
LoseRace(p) ==
    /\ pc[p] = "write"
    /\ IndexFree(p)
    /\ WriteOutcome(p) # "ok"
    /\ CASE WriteOutcome(p) = "version" -> Retry(p)
         [] WriteOutcome(p) = "key" /\ p \in Requests -> Return(p, Refusal("conflict"))
         [] WriteOutcome(p) # "version" /\ p \in Workers -> EndWork(p)
         [] OTHER -> /\ Goto(p, "reread")
                     /\ Forget(p, NewTx(p, row[p].op))
                     /\ UNCHANGED <<attempt, answer>>
    /\ UNCHANGED <<db, faults>>

\* execute after a conflict: the winner's row, read outside any transaction.  A
\* read that fails reports the original conflict.
Reread(r) ==
    /\ pc[r] = "reread"
    /\ LET op   == row[r].op
           hits == FindByBusinessID(op.provider, op.ext)
       IN  \/ \E id \in hits : Return(r, Replay(tx[id], op)) /\ UNCHANGED faults
           \/ /\ hits = {} \/ faults < MaxFaults
              /\ faults' = IF hits = {} THEN faults ELSE faults + 1
              /\ Return(r, Refusal("conflict"))
    /\ UNCHANGED db

\* Everything the transaction wrote becomes visible.
Persist(p) ==
    LET t == row[p]
        w == t.op.wallet
        e == [tx |-> t.id, amount |-> delta[p], before |-> seen[p].balance,
              after |-> seen[p].balance + delta[p]]
        types == IF p \in Workers /\ t.status = "PENDING_REFERENCE" THEN << >>
                 ELSE EventsForOutcome(t.status, delta[p] # 0)
    IN  /\ tx' = [tx EXCEPT ![t.id] = t]
        /\ IF delta[p] # 0
           THEN /\ wallet' = [wallet EXCEPT ![w] = [@ EXCEPT !.balance = e.after,
                                                           !.version = seen[p].version + 1]]
                /\ ledger' = [ledger EXCEPT ![w] = Append(@, e)]
           ELSE UNCHANGED <<wallet, ledger>>
        /\ outbox' = [outbox EXCEPT ![w] = @ \o Announce(types, t.id, seen[p].version + 1)]

\* The commit, acknowledged: the answer carries the balance observed.
Commit(p) ==
    /\ pc[p] = "commit"
    /\ Persist(p)
    /\ \/ Return(p, Result(row[p], IF row[p].status = "PROCESSED" THEN row[p].balance
                                   ELSE seen[p].balance, FALSE))
       \/ EndWork(p)
    /\ UNCHANGED faults

\* The commit happens and its acknowledgement is lost with the connection.
CommitUnacknowledged(p) ==
    /\ pc[p] = "commit"
    /\ faults < MaxFaults
    /\ faults' = faults + 1
    /\ Persist(p)
    /\ Fails(p)

\* A statement fails, or the process dies: the transaction is rolled back and,
\* when the failure is transient, tried again.
Fault(p) ==
    /\ pc[p] \in {"lookup", "lock", "reference", "reversed", "write", "commit"}
    /\ faults < MaxFaults
    /\ faults' = faults + 1
    /\ Retry(p) \/ Fails(p)
    /\ UNCHANGED db

-----------------------------------------------------------------------------
Init ==
    /\ wallet = [w \in Wallets |-> NoWallet]
    /\ tx = [id \in TxIds |-> NoRow(id)]
    /\ ledger = [w \in Wallets |-> << >>]
    /\ outbox = [w \in Wallets |-> << >>]
    /\ pc = [p \in Procs |-> "idle"]
    /\ row = [p \in Procs |-> NullRow]
    /\ seen = [p \in Procs |-> NoWallet]
    /\ found = [p \in Procs |-> None]
    /\ delta = [p \in Procs |-> 0]
    /\ attempt = [p \in Procs |-> 0]
    /\ answer = [p \in Requests |-> NoAnswer]
    /\ faults = 0

\* Every request answered, every parked reversal settled: nothing is left to do.
Quiescent ==
    /\ \A r \in Requests : pc[r] = "done"
    /\ \A k \in Workers : pc[k] = "idle"
    /\ \A id \in TxIds : tx[id].status # "PENDING_REFERENCE"

Step(p) ==
    \/ LockWallet(p) \/ FindReference(p) \/ FindReversal(p)
    \/ Write(p) \/ LoseRace(p) \/ Commit(p)

Next ==
    \/ \E o \in Openings : OpenWallet(o)
    \/ \E r \in Requests, c \in Commands : Receive(r, c)
    \/ \E r \in Requests : Lookup(r) \/ Reread(r)
    \/ \E k \in Workers, id \in TxIds : Claim(k, id)
    \/ \E p \in Procs : Step(p) \/ CommitUnacknowledged(p) \/ Fault(p)
    \/ Quiescent /\ UNCHANGED vars

Spec == Init /\ [][Next]_vars
=============================================================================
