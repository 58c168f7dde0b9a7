--------------------------- MODULE WageringProofs ---------------------------
(***************************************************************************)
(* Proofs about Wagering, for every set of requests, workers, wallets and  *)
(* commands and every bound.  Five layers, each using the ones below: the  *)
(* types and the locals of a unit of work; who holds which wallet and that *)
(* the row read under the lock is still current; the ledger; one row per   *)
(* identity, which the unique indexes give by themselves; and the history  *)
(* of a row, which relates what each process has in hand to the committed  *)
(* rows.                                                                   *)
(***************************************************************************)
EXTENDS WageringProperties, TLAPS

-----------------------------------------------------------------------------
(* Facts about values.                                                      *)

\* The placeholder rows have the types of the rows they stand for.
LEMMA Placeholders ==
    /\ None \in Names /\ AnyWallet \in Wallets
    /\ NoWallet \in WalletRow /\ NoWallet.balance = 0 /\ NoOp \in Ops
BY SetsAssumption, MaxMinorAssumption
   DEF AnyWallet, NoWallet, WalletRow, NoOp, Ops, Money, Kinds

\* NewExternalTransaction and the absent row build a row of the table under its id.
LEMMA NewRows ==
    ASSUME NEW id \in TxIds, NEW op \in Ops
    PROVE  /\ NewTx(id, op) \in TxRow /\ NewTx(id, op).id = id /\ NewTx(id, op).op = op
           /\ NoRow(id) \in TxRow /\ NoRow(id).id = id /\ NoRow(id).status = "ABSENT"
BY Placeholders DEF NewTx, NoRow, TxRow, Statuses, Terminal, Unset

\* A row in nobody's hands.
LEMMA NullRowType == NullRow \in TxRow
BY Placeholders, NewRows DEF NullRow, TxIds

\* Wallet.move accepts a movement only if the balance it leads to is a Money.
LEMMA MoveFits ==
    ASSUME NEW w \in WalletRow, NEW d, NEW a \in Money, NEW c
    PROVE  /\ MoveCode(w, d, a, c) \in MoveCodes \cup {"OK"}
           /\ MoveCode(w, d, a, c) = "OK" => w.balance + Signed(d, a) \in Money
           /\ Signed(d, a) \in Int
<1> DEFINE s == Signed(d, a)
<1>1. s \in Int /\ w.balance \in Int /\ MaxMinor \in Int /\ a \in Int
  BY MaxMinorAssumption DEF Signed, WalletRow, Money
<1> HIDE DEF s
<1>2. MoveCode(w, d, a, c) =
        IF a <= 0 THEN "NON_POSITIVE_AMOUNT"
        ELSE IF c # w.currency THEN "CURRENCY_MISMATCH"
        ELSE IF w.balance + s > MaxMinor THEN "AMOUNT_OVERFLOW"
        ELSE IF w.balance + s < 0 THEN "INSUFFICIENT_FUNDS"
        ELSE "OK"
  BY DEF MoveCode, s
<1>3. MoveCode(w, d, a, c) = "OK" => w.balance + s \in Money
  BY <1>1, <1>2 DEF Money
<1>4. MoveCode(w, d, a, c) \in MoveCodes \cup {"OK"}
  BY <1>2 DEF MoveCodes
<1> QED BY <1>1, <1>3, <1>4 DEF s

\* The decision on an operation that reverses nothing keeps the row and fits the balance.
LEMMA MovementFits ==
    ASSUME NEW t \in TxRow, NEW w \in WalletRow
    PROVE  LET d == Movement(t, w)
           IN  /\ d.row \in TxRow /\ d.row.id = t.id /\ d.row.op = t.op
               /\ d.delta \in Int /\ w.balance + d.delta \in Money
<1> DEFINE dir  == Direction(t.op.kind)
           code == MoveCode(w, dir, t.op.amount, t.op.currency)
           move == Signed(dir, t.op.amount)
<1>1. code \in MoveCodes \cup {"OK"} /\ move \in Int /\ (code = "OK" => w.balance + move \in Money)
  BY MoveFits DEF TxRow, Ops
<1>2. w.balance \in Money /\ w.balance + 0 = w.balance
  BY DEF WalletRow, Money
<1>3. \A b \in Money : MarkProcessed(t, b) \in TxRow /\ MarkProcessed(t, b).id = t.id
                       /\ MarkProcessed(t, b).op = t.op
  BY DEF MarkProcessed, TxRow, Statuses, Terminal
<1>4. code # "OK" => Reject(t, code) \in TxRow /\ Reject(t, code).id = t.id /\ Reject(t, code).op = t.op
  BY <1>1 DEF Reject, TxRow, Statuses, Terminal, FailureCodes
<1>5. CASE ~MovesMoney(t.op.kind)
  <2>1. Movement(t, w) = Decision(MarkProcessed(t, w.balance), 0)
    BY <1>5 DEF Movement
  <2> QED BY <2>1, <1>2, <1>3 DEF Decision
<1>6. CASE MovesMoney(t.op.kind) /\ code = "OK"
  <2>1. Movement(t, w) = Decision(MarkProcessed(t, w.balance + move), move)
    BY <1>6 DEF Movement
  <2> QED BY <2>1, <1>1, <1>3, <1>6 DEF Decision
<1>7. CASE MovesMoney(t.op.kind) /\ code # "OK"
  <2>1. Movement(t, w) = Decision(Reject(t, code), 0)
    BY <1>7 DEF Movement
  <2> QED BY <2>1, <1>2, <1>4, <1>7 DEF Decision
<1> QED BY <1>5, <1>6, <1>7

\* The decision on a reversal whose reference is usable: the same, and it names the
\* reference it undid.
LEMMA ReversalFits ==
    ASSUME NEW t \in TxRow, NEW w \in WalletRow, NEW target \in TxRow
    PROVE  LET d == ApplyReversal(t, w, target)
           IN  /\ d.row \in TxRow /\ d.row.id = t.id /\ d.row.op = t.op
               /\ d.delta \in Int /\ w.balance + d.delta \in Money
<1> DEFINE dir  == ReversalDirection(target.op.kind)
           code == MoveCode(w, dir, t.op.amount, t.op.currency)
           move == Signed(dir, t.op.amount)
           said == IF code = "INSUFFICIENT_FUNDS" THEN "REVERSAL_EXCEEDS_BALANCE" ELSE code
<1>1. code \in MoveCodes \cup {"OK"} /\ move \in Int
      /\ (code = "OK" => w.balance + move \in Money)
  BY MoveFits DEF TxRow, Ops
<1>2. w.balance \in Money /\ w.balance + 0 = w.balance
  BY DEF WalletRow, Money
<1>3. CASE code = "OK"
  <2> DEFINE after == w.balance + move
             undone == [MarkProcessed(t, after) EXCEPT !.resolved = target.id]
  <2>1. ApplyReversal(t, w, target) = Decision(undone, move)
    BY <1>3 DEF ApplyReversal
  <2>2. after \in Money
    BY <1>1, <1>3
  <2> HIDE DEF after, move
  <2>3. undone \in TxRow /\ undone.id = t.id /\ undone.op = t.op
    BY <2>2 DEF MarkProcessed, TxRow, Statuses, Terminal
  <2>4. w.balance + move \in Money
    BY <2>2 DEF after
  <2> HIDE DEF undone
  <2> QED BY <2>1, <2>3, <2>4, <1>1 DEF Decision
<1>4. CASE code # "OK"
  <2>1. ApplyReversal(t, w, target) = Decision(Reject(t, said), 0)
    BY <1>4 DEF ApplyReversal
  <2>2. said \in FailureCodes
    BY <1>1, <1>4 DEF FailureCodes
  <2> HIDE DEF said
  <2>3. Reject(t, said) \in TxRow /\ Reject(t, said).id = t.id /\ Reject(t, said).op = t.op
    BY <2>2 DEF Reject, TxRow, Statuses, Terminal
  <2> QED BY <2>1, <2>3, <1>2 DEF Decision
<1> QED BY <1>3, <1>4

\* What resolveReference says of a reference is to wait, to use it, or a failure code.
LEMMA VerdictKinds ==
    ASSUME NEW t, NEW target
    PROVE  ReferenceVerdict(t, target) \in FailureCodes \cup {"WAIT", "USABLE"}
BY DEF ReferenceVerdict, FailureCodes

\* Refusing, parking and rescheduling keep a row's identity.
LEMMA RowSteps ==
    ASSUME NEW t \in TxRow
    PROVE  /\ \A c \in FailureCodes : Reject(t, c) \in TxRow /\ Reject(t, c).id = t.id
                                      /\ Reject(t, c).op = t.op
           /\ MarkPendingReference(t) \in TxRow /\ MarkPendingReference(t).id = t.id
           /\ MarkPendingReference(t).op = t.op
           /\ RescheduleReference(t) \in TxRow /\ RescheduleReference(t).id = t.id
           /\ RescheduleReference(t).op = t.op
<1>1. \A c \in FailureCodes : Reject(t, c) \in TxRow /\ Reject(t, c).id = t.id
                             /\ Reject(t, c).op = t.op
  BY DEF Reject, TxRow, Statuses, Terminal
<1>2. t.attempts + 1 \in Nat
  BY DEF TxRow
<1>3. MarkPendingReference(t) \in TxRow /\ MarkPendingReference(t).id = t.id
      /\ MarkPendingReference(t).op = t.op
  BY <1>2 DEF MarkPendingReference, TxRow, Statuses
<1>4. RescheduleReference(t) \in TxRow /\ RescheduleReference(t).id = t.id
      /\ RescheduleReference(t).op = t.op
  BY <1>2 DEF RescheduleReference, TxRow
<1> QED BY <1>1, <1>3, <1>4

\* The events of an outcome are events of the outbox.
LEMMA AnnounceType ==
    ASSUME NEW status, NEW moved, NEW id \in TxIds, NEW v \in Nat
    PROVE  /\ Announce(EventsForOutcome(status, moved), id, v) \in Seq(Event)
           /\ Announce(<< >>, id, v) \in Seq(Event)
<1> DEFINE types == EventsForOutcome(status, moved)
<1>1. types \in Seq(EventTypes) /\ << >> \in Seq(EventTypes)
  <2>1. CASE status = "PROCESSED"
    <3>1. types = IF moved THEN <<"WagerTransactionProcessed", "WalletBalanceChanged">>
                  ELSE <<"WagerTransactionProcessed">>
      BY <2>1 DEF EventsForOutcome
    <3>2. CASE moved
      BY <3>1, <3>2 DEF EventTypes
    <3>3. CASE ~moved
      BY <3>1, <3>3 DEF EventTypes
    <3> QED BY <3>2, <3>3
  <2>2. CASE status = "REJECTED"
    BY <2>2 DEF EventsForOutcome, EventTypes
  <2>3. CASE status = "PENDING_REFERENCE"
    BY <2>3 DEF EventsForOutcome, EventTypes
  <2>4. CASE status \notin {"PROCESSED", "REJECTED", "PENDING_REFERENCE"}
    <3>1. types = << >>
      BY <2>4 DEF EventsForOutcome
    <3>2. << >> \in Seq(EventTypes)
      OBVIOUS
    <3> HIDE DEF types
    <3> QED BY <3>1, <3>2
  <2> QED BY <2>1, <2>2, <2>3, <2>4
<1>2. ASSUME NEW s \in Seq(EventTypes)
      PROVE  Announce(s, id, v) \in Seq(Event)
  <2>1. Len(s) \in Nat /\ DOMAIN s = 1 .. Len(s) /\ \A i \in 1 .. Len(s) : s[i] \in EventTypes
    OBVIOUS
  <2>2. \A i \in 1 .. Len(s) :
          [type |-> s[i], tx |-> id,
           version |-> IF s[i] = "WalletBalanceChanged" THEN v ELSE 0] \in Event
    BY <2>1 DEF Event
  <2> QED BY <2>1, <2>2 DEF Announce
<1> QED BY <1>1, <1>2

\* What a caller is told has the shape of an answer.
LEMMA AnswerTypes ==
    /\ NoAnswer \in Answers
    /\ \A k \in {"conflict", "invalid", "not_found", "failed"} : Refusal(k) \in Answers
    /\ \A t \in TxRow, b \in Money \cup {Unset}, r \in BOOLEAN : Result(t, b, r) \in Answers
    /\ \A t \in TxRow, op \in Ops : Replay(t, op) \in Answers
<1>1. NoAnswer \in Answers
  BY DEF NoAnswer, Answers
<1>2. \A k \in {"conflict", "invalid", "not_found", "failed"} : Refusal(k) \in Answers
  BY DEF Refusal, NoAnswer, Answers
<1>3. \A t \in TxRow, b \in Money \cup {Unset}, r \in BOOLEAN : Result(t, b, r) \in Answers
  BY DEF Result, Answers, TxRow
<1>4. \A t \in TxRow, op \in Ops : Replay(t, op) \in Answers
  BY <1>2, <1>3 DEF Replay, TxRow
<1> QED BY <1>1, <1>2, <1>3, <1>4

-----------------------------------------------------------------------------
(* First layer: types, and locals that fit the statement a process is at.   *)

\* The locals of a unit of work fit where it is: no movement before one is decided,
\* a movement that keeps the balance it was decided on within Money, a reference in
\* hand when its reversals are looked up.
LocalsFit ==
    \A p \in Procs :
        /\ pc[p] \notin {"write", "commit"} => delta[p] = 0
        /\ seen[p].balance + delta[p] \in Money
        /\ pc[p] = "reversed" => found[p] \in TxIds

TypeInv == TypeOK /\ LocalsFit

\* A process that puts its locals away keeps them typed.
LEMMA ForgetKeeps ==
    ASSUME ProcessesOK, LocalsFit, NEW p \in Procs, NEW t \in TxRow, Forget(p, t),
           NEW label \in {"idle", "lookup", "reread", "done"}, Goto(p, label)
    PROVE  /\ pc' \in [Procs -> {"idle", "lookup", "lock", "reference", "reversed", "write",
                                 "commit", "reread", "done"}]
           /\ row' \in [Procs -> TxRow] /\ seen' \in [Procs -> WalletRow]
           /\ found' \in [Procs -> TxIds \cup {None}] /\ delta' \in [Procs -> Int]
           /\ LocalsFit'
<1>1. /\ pc' \in [Procs -> {"idle", "lookup", "lock", "reference", "reversed", "write",
                            "commit", "reread", "done"}]
      /\ row' \in [Procs -> TxRow] /\ seen' \in [Procs -> WalletRow]
      /\ found' \in [Procs -> TxIds \cup {None}] /\ delta' \in [Procs -> Int]
  BY Placeholders DEF Forget, Goto, ProcessesOK
<1>2. ASSUME NEW q \in Procs, q # p
      PROVE  pc'[q] = pc[q] /\ seen'[q] = seen[q] /\ found'[q] = found[q] /\ delta'[q] = delta[q]
  BY <1>2 DEF Forget, Goto, ProcessesOK
<1>3. pc'[p] = label /\ seen'[p] = NoWallet /\ delta'[p] = 0
  BY DEF Forget, Goto, ProcessesOK
<1>4. NoWallet.balance + 0 \in Money
  BY Placeholders, MaxMinorAssumption DEF Money
<1>5. LocalsFit'
  BY <1>2, <1>3, <1>4 DEF LocalsFit
<1> QED BY <1>1, <1>5

\* A request that returns.
LEMMA ReturnKeeps ==
    ASSUME ProcessesOK, LocalsFit, NEW p \in Procs, NEW a \in Answers, Return(p, a)
    PROVE  ProcessesOK' /\ LocalsFit'
<1>1. p \in Requests /\ Goto(p, "done") /\ Forget(p, NewTx(p, row[p].op))
      /\ answer' = [answer EXCEPT ![p] = a] /\ attempt' = attempt
  BY DEF Return
<1>2. NewTx(p, row[p].op) \in TxRow
  BY <1>1, NewRows DEF ProcessesOK, TxRow, TxIds
<1>3. answer' \in [Requests -> Answers] /\ attempt' \in [Procs -> Nat]
  BY <1>1 DEF ProcessesOK
<1> QED BY <1>1, <1>2, <1>3, ForgetKeeps DEF ProcessesOK

\* A worker that ends.
LEMMA EndWorkKeeps ==
    ASSUME ProcessesOK, LocalsFit, NEW p \in Procs, EndWork(p)
    PROVE  ProcessesOK' /\ LocalsFit'
<1>1. Goto(p, "idle") /\ Forget(p, NullRow) /\ answer' = answer /\ attempt' = attempt
  BY DEF EndWork
<1> QED BY <1>1, NullRowType, ForgetKeeps DEF ProcessesOK

\* Whoever fails.
LEMMA FailsKeeps ==
    ASSUME ProcessesOK, LocalsFit, NEW p \in Procs, Fails(p)
    PROVE  ProcessesOK' /\ LocalsFit'
BY ReturnKeeps, EndWorkKeeps, AnswerTypes DEF Fails

\* Another attempt.
LEMMA RetryKeeps ==
    ASSUME ProcessesOK, LocalsFit, NEW p \in Procs, Retry(p)
    PROVE  ProcessesOK' /\ LocalsFit'
<1>1. CASE /\ p \in Requests /\ Goto(p, "lookup") /\ Forget(p, NewTx(p, row[p].op))
           /\ attempt' = [attempt EXCEPT ![p] = @ + 1] /\ UNCHANGED answer
  <2>1. NewTx(p, row[p].op) \in TxRow
    BY <1>1, NewRows DEF ProcessesOK, TxRow, TxIds
  <2>2. attempt' \in [Procs -> Nat]
    BY <1>1 DEF ProcessesOK
  <2> QED BY <1>1, <2>1, <2>2, ForgetKeeps DEF ProcessesOK
<1>2. CASE Fails(p)
  BY <1>2, FailsKeeps
<1> QED BY <1>1, <1>2 DEF Retry

\* A process that decides, on the wallet row w it has in hand.
LEMMA DecideKeeps ==
    ASSUME ProcessesOK, LocalsFit, NEW p \in Procs, NEW d, NEW w \in WalletRow,
           d.row \in TxRow, d.delta \in Int, w.balance + d.delta \in Money,
           Decide(p, d), seen' = [seen EXCEPT ![p] = w], UNCHANGED <<found, attempt, answer>>
    PROVE  ProcessesOK' /\ LocalsFit'
<1>1. ProcessesOK'
  BY DEF Decide, Goto, ProcessesOK
<1>2. ASSUME NEW q \in Procs, q # p
      PROVE  pc'[q] = pc[q] /\ seen'[q] = seen[q] /\ found'[q] = found[q] /\ delta'[q] = delta[q]
  BY <1>2 DEF Decide, Goto, ProcessesOK
<1>3. pc'[p] = "write" /\ seen'[p] = w /\ delta'[p] = d.delta
  BY DEF Decide, Goto, ProcessesOK
<1>4. LocalsFit'
  BY <1>2, <1>3 DEF LocalsFit
<1> QED BY <1>1, <1>4

\* FindByIDForUpdate and what follows from it.
LEMMA LockWalletKeeps ==
    ASSUME TablesOK, ProcessesOK, LocalsFit, NEW p \in Procs, LockWallet(p)
    PROVE  ProcessesOK' /\ LocalsFit'
<1> DEFINE t == row[p]
           w == wallet[t.op.wallet]
<1>1. t \in TxRow /\ w \in WalletRow
  BY DEF ProcessesOK, TablesOK, TxRow, Ops
<1>2. CASE \E k \in {"not_found", "invalid"} : Return(p, Refusal(k))
  BY <1>2, ReturnKeeps, AnswerTypes
<1>3. CASE /\ Goto(p, "reference") /\ seen' = [seen EXCEPT ![p] = w]
           /\ UNCHANGED <<row, found, delta, attempt, answer>>
  <2>1. ProcessesOK'
    BY <1>1, <1>3 DEF Goto, ProcessesOK
  <2>2. ASSUME NEW q \in Procs, q # p
        PROVE  pc'[q] = pc[q] /\ seen'[q] = seen[q] /\ found'[q] = found[q]
               /\ delta'[q] = delta[q]
    BY <1>3, <2>2 DEF Goto, ProcessesOK
  <2>3. pc[p] = "lock" /\ pc'[p] = "reference" /\ seen'[p] = w /\ delta'[p] = delta[p]
    BY <1>3 DEF Goto, ProcessesOK, LockWallet
  <2>4. delta[p] = 0 /\ w.balance + 0 \in Money
    BY <1>1, <2>3 DEF LocalsFit, WalletRow, Money
  <2> HIDE DEF w
  <2>5. LocalsFit'
    BY <2>2, <2>3, <2>4 DEF LocalsFit
  <2> QED BY <2>1, <2>5
<1>4. CASE /\ Decide(p, Movement(t, w)) /\ seen' = [seen EXCEPT ![p] = w]
           /\ UNCHANGED <<found, attempt, answer>>
  BY <1>1, <1>4, MovementFits, DecideKeeps
<1> QED BY <1>2, <1>3, <1>4 DEF LockWallet

\* resolveReference up to the amount, and what each verdict leads to.
LEMMA FindReferenceKeeps ==
    ASSUME TablesOK, ProcessesOK, LocalsFit, NEW p \in Procs, FindReference(p)
    PROVE  ProcessesOK' /\ LocalsFit'
<1>1. row[p] \in TxRow /\ seen[p] \in WalletRow /\ seen[p].balance + 0 \in Money
      /\ seen' = [seen EXCEPT ![p] = seen[p]] /\ UNCHANGED <<attempt, answer>>
  BY DEF ProcessesOK, FindReference, WalletRow, Money
<1>2. ASSUME NEW t \in TxRow, Decide(p, Decision(t, 0)), UNCHANGED found
      PROVE  ProcessesOK' /\ LocalsFit'
  <2>1. Decision(t, 0).row = t /\ Decision(t, 0).delta = 0
    BY DEF Decision
  <2>2. Decision(t, 0).row \in TxRow /\ Decision(t, 0).delta \in Int
        /\ seen[p].balance + Decision(t, 0).delta \in Money
    BY <1>1, <2>1
  <2> QED BY <1>1, <1>2, <2>2, DecideKeeps
<1>3. ASSUME StillWaiting(p), UNCHANGED found
      PROVE  \E t \in TxRow : Decide(p, Decision(t, 0))
  <2>1. /\ MarkPendingReference(row[p]) \in TxRow /\ RescheduleReference(row[p]) \in TxRow
        /\ Reject(row[p], "REFERENCE_NOT_FOUND") \in TxRow
    BY <1>1, RowSteps DEF FailureCodes
  <2> QED BY <1>3, <2>1 DEF StillWaiting
<1>4. ASSUME NEW c \in FailureCodes
      PROVE  Reject(row[p], c) \in TxRow
  BY <1>1, RowSteps
<1>5. ASSUME NEW id \in TxIds, Goto(p, "reversed"), found' = [found EXCEPT ![p] = id],
             UNCHANGED <<row, delta>>
      PROVE  ProcessesOK' /\ LocalsFit'
  <2>1. seen' = seen
    BY DEF FindReference
  <2>2. ProcessesOK'
    BY <1>1, <1>5, <2>1 DEF Goto, ProcessesOK
  <2>3. ASSUME NEW q \in Procs, q # p
        PROVE  pc'[q] = pc[q] /\ seen'[q] = seen[q] /\ found'[q] = found[q]
               /\ delta'[q] = delta[q]
    BY <1>5, <2>1, <2>3 DEF Goto, ProcessesOK
  <2>4. pc[p] = "reference" /\ pc'[p] = "reversed" /\ seen'[p] = seen[p] /\ delta'[p] = delta[p]
        /\ found'[p] = id
    BY <1>5, <2>1 DEF Goto, ProcessesOK, FindReference
  <2>5. LocalsFit'
    BY <2>3, <2>4 DEF LocalsFit
  <2> QED BY <2>2, <2>5
<1>6. \A id \in FindByBusinessID(row[p].op.provider, row[p].op.ref) : id \in TxIds
  BY DEF FindByBusinessID
<1> QED BY <1>2, <1>3, <1>4, <1>5, <1>6, VerdictKinds DEF FindReference

\* resolveReference's last query and applyReversal.
LEMMA FindReversalKeeps ==
    ASSUME TablesOK, ProcessesOK, LocalsFit, NEW p \in Procs, FindReversal(p)
    PROVE  ProcessesOK' /\ LocalsFit'
<1>1. row[p] \in TxRow /\ seen[p] \in WalletRow /\ seen[p].balance + 0 \in Money
      /\ seen' = [seen EXCEPT ![p] = seen[p]] /\ UNCHANGED <<found, attempt, answer>>
  BY DEF ProcessesOK, FindReversal, WalletRow, Money
<1>2. tx[found[p]] \in TxRow
  BY DEF FindReversal, LocalsFit, TablesOK
<1>3. CASE Decide(p, Decision(Reject(row[p], "ALREADY_REVERSED"), 0))
  <2> DEFINE d == Decision(Reject(row[p], "ALREADY_REVERSED"), 0)
  <2>1. Reject(row[p], "ALREADY_REVERSED") \in TxRow
    BY <1>1, RowSteps DEF FailureCodes
  <2>2. d.row = Reject(row[p], "ALREADY_REVERSED") /\ d.delta = 0
    BY DEF Decision
  <2>3. d.row \in TxRow /\ d.delta \in Int /\ seen[p].balance + d.delta \in Money
    BY <1>1, <2>1, <2>2
  <2> QED BY <1>1, <1>3, <2>3, DecideKeeps
<1>4. CASE Decide(p, ApplyReversal(row[p], seen[p], tx[found[p]]))
  BY <1>1, <1>2, <1>4, ReversalFits, DecideKeeps
<1> QED BY <1>3, <1>4 DEF FindReversal

\* A step that only moves the program counter to a statement with weaker demands.
LEMMA GotoKeeps ==
    ASSUME ProcessesOK, LocalsFit, NEW p \in Procs,
           \/ pc[p] = "lookup" /\ Goto(p, "lock")
           \/ pc[p] = "write" /\ Goto(p, "commit"),
           UNCHANGED <<locals, attempt, answer>>
    PROVE  ProcessesOK' /\ LocalsFit'
<1>1. ProcessesOK'
  BY DEF Goto, ProcessesOK, locals
<1>2. ASSUME NEW q \in Procs, q # p
      PROVE  pc'[q] = pc[q]
  BY <1>2 DEF Goto, ProcessesOK
<1>3. LocalsFit'
  BY <1>2 DEF LocalsFit, Goto, ProcessesOK, locals
<1> QED BY <1>1, <1>3

\* A process takes up a row: a request its command, a worker a parked reversal.
LEMMA TakeUpKeeps ==
    ASSUME ProcessesOK, LocalsFit, NEW p \in Procs, pc[p] = "idle", NEW t \in TxRow,
           NEW label \in {"lookup", "lock"}, Goto(p, label), row' = [row EXCEPT ![p] = t],
           attempt' \in [Procs -> Nat], UNCHANGED <<seen, found, delta, answer>>
    PROVE  ProcessesOK' /\ LocalsFit'
<1>1. ProcessesOK'
  BY DEF Goto, ProcessesOK
<1>2. ASSUME NEW q \in Procs, q # p
      PROVE  pc'[q] = pc[q]
  BY <1>2 DEF Goto, ProcessesOK
<1>3. LocalsFit'
  BY <1>2 DEF LocalsFit, Goto, ProcessesOK
<1> QED BY <1>1, <1>3

\* What a commit makes visible has the types of the tables.
LEMMA PersistKeeps ==
    ASSUME TablesOK, ProcessesOK, LocalsFit, NEW p \in Procs, Persist(p)
    PROVE  TablesOK'
<1> DEFINE t == row[p]
           w == t.op.wallet
           e == [tx |-> t.id, amount |-> delta[p], before |-> seen[p].balance,
                 after |-> seen[p].balance + delta[p]]
           types == IF p \in Workers /\ t.status = "PENDING_REFERENCE" THEN << >>
                    ELSE EventsForOutcome(t.status, delta[p] # 0)
           events == Announce(types, t.id, seen[p].version + 1)
<1>1. /\ t \in TxRow /\ t.id \in TxIds /\ w \in Wallets
      /\ delta[p] \in Int /\ seen[p].balance \in Money /\ seen[p].version + 1 \in Nat
  BY DEF ProcessesOK, TxRow, Ops, WalletRow
<1>2. e \in Entry
  BY <1>1 DEF Entry, LocalsFit
<1>3. events \in Seq(Event)
  <2>1. CASE p \in Workers /\ t.status = "PENDING_REFERENCE"
    BY <1>1, <2>1, AnnounceType
  <2>2. CASE ~(p \in Workers /\ t.status = "PENDING_REFERENCE")
    BY <1>1, <2>2, AnnounceType
  <2> QED BY <2>1, <2>2
<1>4. /\ tx' = [tx EXCEPT ![t.id] = t]
      /\ IF delta[p] # 0
         THEN /\ wallet' = [wallet EXCEPT ![w] = [@ EXCEPT !.balance = e.after,
                                                         !.version = seen[p].version + 1]]
              /\ ledger' = [ledger EXCEPT ![w] = Append(@, e)]
         ELSE UNCHANGED <<wallet, ledger>>
      /\ outbox' = [outbox EXCEPT ![w] = @ \o events]
  BY DEF Persist
<1>5. e.after \in Money
  BY <1>2 DEF Entry
<1> HIDE DEF t, w, e, types, events
<1>6. tx' \in [TxIds -> TxRow]
  BY <1>1, <1>4 DEF TablesOK
<1>7. wallet' \in [Wallets -> WalletRow]
  <2>1. [wallet[w] EXCEPT !.balance = e.after, !.version = seen[p].version + 1] \in WalletRow
    BY <1>1, <1>5 DEF TablesOK, WalletRow
  <2> QED BY <1>1, <1>4, <2>1 DEF TablesOK
<1>8. ledger' \in [Wallets -> Seq(Entry)]
  <2>1. ledger[w] \in Seq(Entry)
    BY <1>1 DEF TablesOK
  <2>2. Append(ledger[w], e) \in Seq(Entry)
    BY <1>2, <2>1
  <2> QED BY <1>1, <1>4, <2>2 DEF TablesOK
<1>9. outbox' \in [Wallets -> Seq(Event)]
  BY <1>1, <1>3, <1>4 DEF TablesOK
<1> QED BY <1>6, <1>7, <1>8, <1>9 DEF TablesOK

\* CreateWallet's inserts have the types of the tables.
LEMMA OpenWalletKeeps ==
    ASSUME TablesOK, NEW o \in Openings, OpenWallet(o)
    PROVE  TablesOK'
<1>1. o.wallet \in Wallets /\ o.player \in Names /\ o.currency \in Names /\ o.amount \in Money
      /\ o.wallet \in TxIds
  BY OpeningsAssumption DEF TxIds
<1>2. [player |-> o.player, currency |-> o.currency, balance |-> o.amount, version |-> 1]
        \in WalletRow
  BY <1>1 DEF WalletRow
<1>3. wallet' \in [Wallets -> WalletRow]
  BY <1>1, <1>2 DEF OpenWallet, TablesOK
<1>4. CASE o.amount > 0
  <2> DEFINE op == [NoOp EXCEPT !.wallet = o.wallet, !.player = o.player,
                                !.currency = o.currency, !.amount = o.amount]
             e == [tx |-> o.wallet, amount |-> o.amount, before |-> 0, after |-> o.amount]
             events == Announce(EventsForOutcome("PROCESSED", TRUE), o.wallet, 1)
  <2>1. op \in Ops
    BY <1>1, Placeholders DEF Ops
  <2> HIDE DEF op
  <2>2. NewTx(o.wallet, op) \in TxRow
    BY <1>1, <2>1, NewRows
  <2>3. OpeningRow(o) = [NewTx(o.wallet, op) EXCEPT !.status = "PROCESSED", !.balance = o.amount]
    BY DEF OpeningRow, op
  <2>4. OpeningRow(o) \in TxRow
    BY <1>1, <2>2, <2>3 DEF TxRow, Statuses, Terminal
  <2>5. e \in Entry
    BY <1>1, MaxMinorAssumption DEF Entry, Money
  <2>6. events \in Seq(Event)
    BY <1>1, AnnounceType
  <2>7. /\ tx' = [tx EXCEPT ![o.wallet] = OpeningRow(o)]
        /\ ledger' = [ledger EXCEPT ![o.wallet] = <<e>>]
        /\ outbox' = [outbox EXCEPT ![o.wallet] = events]
    BY <1>4 DEF OpenWallet
  <2> HIDE DEF e, events
  <2>8. <<e>> \in Seq(Entry)
    BY <2>5
  <2> QED BY <1>1, <1>3, <2>4, <2>6, <2>7, <2>8 DEF TablesOK
<1>5. CASE ~(o.amount > 0)
  BY <1>3, <1>5 DEF OpenWallet, TablesOK
<1> QED BY <1>4, <1>5

\* A submission is parsed and looked up.
LEMMA LookupKeeps ==
    ASSUME TablesOK, ProcessesOK, LocalsFit, NEW r \in Requests, Lookup(r) \/ Reread(r)
    PROVE  ProcessesOK' /\ LocalsFit'
<1>1. r \in Procs /\ row[r].op \in Ops
  BY DEF Procs, ProcessesOK, TxRow
<1>2. ASSUME NEW id \in FindByBusinessID(row[r].op.provider, row[r].op.ext)
      PROVE  Replay(tx[id], row[r].op) \in Answers
  BY <1>1, AnswerTypes DEF FindByBusinessID, TablesOK
<1>3. CASE Lookup(r)
  BY <1>1, <1>2, <1>3, ReturnKeeps, GotoKeeps, AnswerTypes DEF Lookup
<1>4. CASE Reread(r)
  BY <1>1, <1>2, <1>4, ReturnKeeps, AnswerTypes DEF Reread
<1> QED BY <1>3, <1>4

\* The write is refused: what may follow.
LEMMA LoseRaceCases ==
    ASSUME NEW p \in Procs, LoseRace(p)
    PROVE  \/ Retry(p) \/ Return(p, Refusal("conflict")) \/ EndWork(p)
           \/ /\ p \in Requests /\ Goto(p, "reread") /\ Forget(p, NewTx(p, row[p].op))
              /\ UNCHANGED <<attempt, answer>>
<1>1. CASE WriteOutcome(p) = "version"
  BY <1>1 DEF LoseRace
<1>2. CASE WriteOutcome(p) = "key" /\ p \in Requests
  BY <1>2, SetsAssumption DEF LoseRace
<1>3. CASE WriteOutcome(p) # "version" /\ p \in Workers
  BY <1>3, SetsAssumption DEF LoseRace
<1>4. CASE /\ WriteOutcome(p) # "version" /\ p \notin Workers
           /\ ~(WriteOutcome(p) = "key" /\ p \in Requests)
  BY <1>4 DEF LoseRace, Procs
<1> QED BY <1>1, <1>2, <1>3, <1>4

\* A refused write keeps the types.
LEMMA LoseRaceKeeps ==
    ASSUME TablesOK, ProcessesOK, LocalsFit, NEW p \in Procs, LoseRace(p)
    PROVE  ProcessesOK' /\ LocalsFit'
<1>1. CASE /\ p \in Requests /\ Goto(p, "reread") /\ Forget(p, NewTx(p, row[p].op))
           /\ UNCHANGED <<attempt, answer>>
  <2>1. NewTx(p, row[p].op) \in TxRow
    BY <1>1, NewRows DEF ProcessesOK, TxRow, TxIds
  <2> QED BY <1>1, <2>1, ForgetKeeps DEF ProcessesOK
<1> QED BY <1>1, LoseRaceCases, RetryKeeps, ReturnKeeps, EndWorkKeeps, AnswerTypes

\* The commit, acknowledged or not.
LEMMA CommitCases ==
    ASSUME ProcessesOK, NEW p \in Procs, Commit(p) \/ CommitUnacknowledged(p)
    PROVE  /\ pc[p] = "commit" /\ Persist(p)
           /\ (\E a \in Answers : Return(p, a)) \/ EndWork(p)
<1> DEFINE told == IF row[p].status = "PROCESSED" THEN row[p].balance ELSE seen[p].balance
<1>1. Result(row[p], told, FALSE) \in Answers
  <2>1. row[p] \in TxRow /\ told \in Money \cup {Unset}
    BY DEF ProcessesOK, TxRow, WalletRow
  <2> HIDE DEF told
  <2> QED BY <2>1, AnswerTypes
<1>2. CASE Commit(p)
  BY <1>1, <1>2 DEF Commit
<1>3. CASE CommitUnacknowledged(p)
  BY <1>3, AnswerTypes DEF CommitUnacknowledged, Fails
<1> QED BY <1>2, <1>3

\* A commit keeps the types.
LEMMA CommitKeeps ==
    ASSUME TablesOK, ProcessesOK, LocalsFit, NEW p \in Procs,
           Commit(p) \/ CommitUnacknowledged(p)
    PROVE  TablesOK' /\ ProcessesOK' /\ LocalsFit'
BY CommitCases, PersistKeeps, ReturnKeeps, EndWorkKeeps

\* Nothing is wrong before anything happened.
LEMMA InitTypes == Init => TypeInv
<1> SUFFICES ASSUME Init PROVE TypeInv
  OBVIOUS
<1>1. TablesOK
  <2>1. \A id \in TxIds : NoRow(id) \in TxRow
    BY NewRows, Placeholders
  <2> QED BY <2>1, Placeholders DEF Init, TablesOK
<1>2. ProcessesOK
  BY Placeholders, NullRowType, AnswerTypes DEF Init, ProcessesOK
<1>3. LocalsFit
  <2>1. NoWallet.balance + 0 \in Money
    BY Placeholders, MaxMinorAssumption DEF Money
  <2> QED BY <2>1 DEF Init, LocalsFit
<1> QED BY <1>1, <1>2, <1>3 DEF Init, TypeInv, TypeOK

\* Every step keeps the types and the locals.
LEMMA TypeStep == TypeInv /\ [Next]_vars => TypeInv'
<1> SUFFICES ASSUME TypeInv, [Next]_vars PROVE TypeInv'
  OBVIOUS
<1> USE DEF TypeInv, TypeOK
<1>1. ASSUME NEW o \in Openings, OpenWallet(o) PROVE TypeInv'
  <2>1. ProcessesOK' /\ LocalsFit' /\ faults' \in Nat
    BY <1>1 DEF OpenWallet, ProcessesOK, LocalsFit, locals
  <2> QED BY <1>1, <2>1, OpenWalletKeeps
<1>2. ASSUME NEW r \in Requests, NEW c \in Commands, Receive(r, c) PROVE TypeInv'
  <2>1. r \in Procs /\ r \in TxIds /\ c \in Ops
    BY CommandsAssumption DEF Procs, TxIds
  <2>2. NewTx(r, c) \in TxRow
    BY <2>1, NewRows
  <2>3. attempt' \in [Procs -> Nat] /\ TablesOK' /\ faults' \in Nat
    BY <1>2 DEF Receive, ProcessesOK, TablesOK, db
  <2> QED BY <1>2, <2>1, <2>2, <2>3, TakeUpKeeps DEF Receive
<1>3. ASSUME NEW r \in Requests, Lookup(r) \/ Reread(r) PROVE TypeInv'
  <2>1. TablesOK' /\ faults' \in Nat
    BY <1>3 DEF Lookup, Reread, TablesOK, db
  <2> QED BY <1>3, <2>1, LookupKeeps
<1>4. ASSUME NEW k \in Workers, NEW id \in TxIds, Claim(k, id) PROVE TypeInv'
  <2>1. k \in Procs /\ tx[id] \in TxRow
    BY DEF Procs, TablesOK
  <2>2. attempt' \in [Procs -> Nat] /\ TablesOK' /\ faults' \in Nat
    BY <1>4 DEF Claim, ProcessesOK, TablesOK, db
  <2> QED BY <1>4, <2>1, <2>2, TakeUpKeeps DEF Claim
<1>5. ASSUME NEW p \in Procs, LockWallet(p) PROVE TypeInv'
  BY <1>5, LockWalletKeeps DEF LockWallet, TablesOK, db
<1>6. ASSUME NEW p \in Procs, FindReference(p) PROVE TypeInv'
  BY <1>6, FindReferenceKeeps DEF FindReference, TablesOK, db
<1>7. ASSUME NEW p \in Procs, FindReversal(p) PROVE TypeInv'
  BY <1>7, FindReversalKeeps DEF FindReversal, TablesOK, db
<1>8. ASSUME NEW p \in Procs, Write(p) PROVE TypeInv'
  BY <1>8, GotoKeeps DEF Write, TablesOK, db
<1>9. ASSUME NEW p \in Procs, LoseRace(p) PROVE TypeInv'
  BY <1>9, LoseRaceKeeps DEF LoseRace, TablesOK, db
<1>10. ASSUME NEW p \in Procs, Commit(p) \/ CommitUnacknowledged(p) PROVE TypeInv'
  <2>1. faults' = faults \/ faults' = faults + 1
    BY <1>10 DEF Commit, CommitUnacknowledged
  <2> QED BY <1>10, <2>1, CommitKeeps
<1>11. ASSUME NEW p \in Procs, Fault(p) PROVE TypeInv'
  <2>1. TablesOK' /\ faults' \in Nat
    BY <1>11 DEF Fault, TablesOK, db
  <2> QED BY <1>11, <2>1, RetryKeeps, FailsKeeps DEF Fault
<1>12. ASSUME UNCHANGED vars PROVE TypeInv'
  BY <1>12 DEF vars, db, locals, TablesOK, ProcessesOK, LocalsFit
<1> QED BY <1>1, <1>2, <1>3, <1>4, <1>5, <1>6, <1>7, <1>8, <1>9, <1>10, <1>11, <1>12
        DEF Next, Step

\* Types are kept: whatever the interleaving, no committed balance is ever negative
\* or beyond MaxMinor, and every row, entry, event and answer is well formed.
THEOREM TypeCorrect == Spec => []TypeOK
<1>1. Spec => []TypeInv
  BY InitTypes, TypeStep, PTL DEF Spec
<1>2. TypeInv => TypeOK
  BY DEF TypeInv
<1> QED BY <1>1, <1>2, PTL

-----------------------------------------------------------------------------
(* Second layer: who holds which wallet.  A row lock is where the program   *)
(* counter is, so these lemmas are about how one process's step leaves the  *)
(* others where they were.                                                  *)

\* Rows sit under their own ids, and only submitted ones are ever in a process's hands.
RowsOwned ==
    /\ \A id \in TxIds : tx[id].id = id
    /\ \A w \in Wallets : tx[w].status \in {"ABSENT", "PROCESSED"}
    /\ \A p \in Procs : pc[p] # "idle" => row[p].id \in Requests

\* A wallet that is held exists, and is held by one process.
WalletsHeld ==
    \A p \in Procs :
        HoldsWallet(p) =>
            /\ seen[p].version > 0
            /\ \A q \in Procs \ {p} : HoldsWallet(q) => row[q].op.wallet # row[p].op.wallet

LockInv == RowsOwned /\ WalletsHeld /\ LockedReadFresh

Others(p) ==
    \A q \in Procs \ {p} : pc'[q] = pc[q] /\ row'[q] = row[q] /\ seen'[q] = seen[q]

\* p no longer holds a wallet.
Ends(p) ==
    /\ Others(p)
    /\ pc'[p] \in {"idle", "lookup", "lock", "reread", "done"}
    /\ pc'[p] # "idle" => row'[p].id \in Requests

\* p goes on under the lock it has, on the same row.
GoesOn(p) ==
    /\ Others(p)
    /\ HoldsWallet(p)
    /\ pc'[p] \in {"reference", "reversed", "write", "commit"}
    /\ row'[p].id = row[p].id /\ row'[p].op = row[p].op /\ seen'[p] = seen[p]

\* Every way out of a unit of work lets go of the wallet.
LEMMA WaysOut ==
    ASSUME ProcessesOK, NEW p \in Procs,
           \/ \E a \in Answers : Return(p, a)
           \/ EndWork(p) \/ Fails(p) \/ Retry(p)
           \/ p \in Requests /\ Goto(p, "reread") /\ Forget(p, NewTx(p, row[p].op))
    PROVE  Ends(p)
<1>1. ASSUME NEW t \in TxRow, Forget(p, t), NEW label, Goto(p, label)
      PROVE  Others(p) /\ pc'[p] = label /\ row'[p] = t
  BY <1>1 DEF Forget, Goto, Others, ProcessesOK
<1>2. p \in Requests => NewTx(p, row[p].op) \in TxRow /\ NewTx(p, row[p].op).id = p
  BY NewRows DEF ProcessesOK, TxRow, TxIds
<1>3. ASSUME NEW a, Return(p, a) PROVE Ends(p)
  BY <1>1, <1>2, <1>3 DEF Return, Ends
<1>4. ASSUME EndWork(p) PROVE Ends(p)
  BY <1>1, <1>4, NullRowType DEF EndWork, Ends
<1>5. ASSUME Fails(p) PROVE Ends(p)
  BY <1>3, <1>4, <1>5 DEF Fails
<1>6. ASSUME Retry(p) PROVE Ends(p)
  BY <1>1, <1>2, <1>5, <1>6 DEF Retry, Ends
<1>7. ASSUME p \in Requests, Goto(p, "reread"), Forget(p, NewTx(p, row[p].op)) PROVE Ends(p)
  BY <1>1, <1>2, <1>7 DEF Ends
<1> QED BY <1>3, <1>4, <1>5, <1>6, <1>7

\* A refused write and a commit are ways out.
LEMMA WritesEnd ==
    ASSUME ProcessesOK, NEW p \in Procs,
           LoseRace(p) \/ Commit(p) \/ CommitUnacknowledged(p)
    PROVE  Ends(p)
<1>1. CASE LoseRace(p)
  BY <1>1, LoseRaceCases, WaysOut, AnswerTypes
<1>2. CASE Commit(p) \/ CommitUnacknowledged(p)
  BY <1>2, CommitCases, WaysOut
<1> QED BY <1>1, <1>2

\* Letting go disturbs nobody.
LEMMA EndsKeepsLocks ==
    ASSUME TypeInv, LockInv, NEW p \in Procs, Ends(p), UNCHANGED db
    PROVE  LockInv'
<1>1. RowsOwned'
  BY DEF LockInv, RowsOwned, Ends, Others, db
<1>2. ~HoldsWallet(p)' /\ \A q \in Procs \ {p} : HoldsWallet(q)' <=> HoldsWallet(q)
  BY DEF Ends, Others, HoldsWallet
<1>3. WalletsHeld'
  BY <1>2 DEF LockInv, WalletsHeld, Ends, Others
<1>4. LockedReadFresh'
  BY <1>2 DEF LockInv, LockedReadFresh, Ends, Others, db
<1> QED BY <1>1, <1>3, <1>4 DEF LockInv

\* Going on disturbs nobody.
LEMMA GoesOnKeepsLocks ==
    ASSUME TypeInv, LockInv, NEW p \in Procs, GoesOn(p), UNCHANGED db
    PROVE  LockInv'
<1>1. RowsOwned'
  BY DEF LockInv, RowsOwned, GoesOn, Others, db, HoldsWallet
<1>2. HoldsWallet(p) /\ HoldsWallet(p)' /\ \A q \in Procs \ {p} : HoldsWallet(q)' <=> HoldsWallet(q)
  BY DEF GoesOn, Others, HoldsWallet
<1>3. WalletsHeld'
  BY <1>2 DEF LockInv, WalletsHeld, GoesOn, Others
<1>4. LockedReadFresh'
  BY <1>2 DEF LockInv, LockedReadFresh, GoesOn, Others, db
<1> QED BY <1>1, <1>3, <1>4 DEF LockInv

\* The commit moves the wallet only its holder had read.
LEMMA CommitKeepsLocks ==
    ASSUME TypeInv, LockInv, NEW p \in Procs, pc[p] = "commit", Persist(p), Ends(p)
    PROVE  LockInv'
<1> DEFINE t == row[p]
           w == t.op.wallet
<1>1. t \in TxRow /\ t.id \in Requests /\ t.id \in TxIds /\ t.id \notin Wallets
  BY SetsAssumption DEF TypeInv, TypeOK, ProcessesOK, LockInv, RowsOwned, TxIds
<1>2. tx' = [tx EXCEPT ![t.id] = t]
  BY DEF Persist
<1>3. \A v \in Wallets \ {w} : wallet'[v] = wallet[v]
  BY DEF Persist, TypeInv, TypeOK, TablesOK
<1>4. RowsOwned'
  BY <1>1, <1>2 DEF TypeInv, TypeOK, TablesOK, LockInv, RowsOwned, Ends, Others
<1>5. HoldsWallet(p) /\ ~HoldsWallet(p)'
      /\ \A q \in Procs \ {p} : HoldsWallet(q)' <=> HoldsWallet(q)
  BY DEF Ends, Others, HoldsWallet
<1>6. WalletsHeld'
  BY <1>5 DEF LockInv, WalletsHeld, Ends, Others
<1>7. \A q \in Procs \ {p} : HoldsWallet(q) => row[q].op.wallet \in Wallets \ {w}
  BY <1>5 DEF LockInv, WalletsHeld, TypeInv, TypeOK, ProcessesOK, TxRow, Ops
<1>8. LockedReadFresh'
  BY <1>3, <1>5, <1>7 DEF LockInv, LockedReadFresh, Ends, Others
<1> QED BY <1>4, <1>6, <1>8 DEF LockInv

\* A wallet being opened is in nobody's hands.
LEMMA OpenWalletKeepsLocks ==
    ASSUME TypeInv, LockInv, NEW o \in Openings, OpenWallet(o)
    PROVE  LockInv'
<1>1. o.wallet \in Wallets /\ o.wallet \in TxIds
  BY OpeningsAssumption DEF TxIds
<1>2. OpeningRow(o).id = o.wallet /\ OpeningRow(o).status = "PROCESSED"
  BY DEF OpeningRow, NewTx
<1>3. tx' = tx \/ tx' = [tx EXCEPT ![o.wallet] = OpeningRow(o)]
  BY DEF OpenWallet
<1>4. pc' = pc /\ row' = row /\ seen' = seen
  BY DEF OpenWallet, locals
<1>5. RowsOwned'
  <2> DEFINE opened == OpeningRow(o)
  <2> HIDE DEF opened
  <2>1. opened.id = o.wallet /\ opened.status = "PROCESSED"
    BY <1>2 DEF opened
  <2>2. CASE tx' = [tx EXCEPT ![o.wallet] = opened]
    BY <1>1, <1>4, <2>1, <2>2 DEF LockInv, RowsOwned, TypeInv, TypeOK, TablesOK
  <2>3. CASE tx' = tx
    BY <1>4, <2>3 DEF LockInv, RowsOwned
  <2> QED BY <1>3, <2>2, <2>3 DEF opened
<1>6. WalletsHeld'
  BY <1>4 DEF LockInv, WalletsHeld, HoldsWallet
<1>7. \A p \in Procs : HoldsWallet(p) => row[p].op.wallet # o.wallet
  BY DEF LockInv, WalletsHeld, LockedReadFresh, OpenWallet
<1>8. \A v \in Wallets \ {o.wallet} : wallet'[v] = wallet[v]
  BY DEF OpenWallet, TypeInv, TypeOK, TablesOK
<1>9. \A p \in Procs : row[p].op.wallet \in Wallets
  BY DEF TypeInv, TypeOK, ProcessesOK, TxRow, Ops
<1>10. LockedReadFresh'
  BY <1>4, <1>7, <1>8, <1>9 DEF LockInv, LockedReadFresh, HoldsWallet
<1> QED BY <1>5, <1>6, <1>10 DEF LockInv

\* FindByIDForUpdate hands out a wallet nobody holds, and its current row.
LEMMA LockWalletKeepsLocks ==
    ASSUME TypeInv, LockInv, NEW p \in Procs, LockWallet(p)
    PROVE  LockInv'
<1> DEFINE t == row[p]
           w == wallet[t.op.wallet]
<1>1. t \in TxRow /\ w \in WalletRow /\ t.id \in Requests
  BY DEF TypeInv, TypeOK, ProcessesOK, TablesOK, TxRow, Ops, LockInv, RowsOwned, LockWallet
<1>2. UNCHANGED db /\ WalletFree(p) /\ pc[p] = "lock"
  BY DEF LockWallet
<1>3. CASE \E k \in {"not_found", "invalid"} : Return(p, Refusal(k))
  BY <1>2, <1>3, WaysOut, EndsKeepsLocks, AnswerTypes DEF TypeInv, TypeOK
<1>4. ASSUME w.version > 0, Others(p), pc'[p] \in {"reference", "write"}, seen'[p] = w,
             row'[p].id = t.id, row'[p].op = t.op
      PROVE  LockInv'
  <2>1. RowsOwned'
    BY <1>1, <1>2, <1>4 DEF LockInv, RowsOwned, Others, db
  <2>2. HoldsWallet(p)' /\ \A q \in Procs \ {p} : HoldsWallet(q)' <=> HoldsWallet(q)
    BY <1>4 DEF Others, HoldsWallet
  <2>3. WalletsHeld'
    BY <1>2, <1>4, <2>2 DEF LockInv, WalletsHeld, WalletFree, Others
  <2>4. LockedReadFresh'
    BY <1>2, <1>4, <2>2 DEF LockInv, LockedReadFresh, Others, db
  <2> QED BY <2>1, <2>3, <2>4 DEF LockInv
<1>5. CASE /\ w.version > 0 /\ Goto(p, "reference") /\ seen' = [seen EXCEPT ![p] = w]
           /\ UNCHANGED <<row, found, delta, attempt, answer>>
  <2>1. Others(p) /\ pc'[p] = "reference" /\ seen'[p] = w /\ row'[p] = t
    BY <1>5 DEF Others, Goto, TypeInv, TypeOK, ProcessesOK
  <2> QED BY <1>4, <1>5, <2>1
<1>6. CASE /\ w.version > 0 /\ Decide(p, Movement(t, w)) /\ seen' = [seen EXCEPT ![p] = w]
           /\ UNCHANGED <<found, attempt, answer>>
  <2>1. Others(p) /\ pc'[p] = "write" /\ seen'[p] = w /\ row'[p] = Movement(t, w).row
    BY <1>6 DEF Others, Decide, Goto, TypeInv, TypeOK, ProcessesOK
  <2>2. row'[p].id = t.id /\ row'[p].op = t.op
    BY <1>1, <2>1, MovementFits
  <2> QED BY <1>4, <1>6, <2>1, <2>2
<1> QED BY <1>3, <1>5, <1>6 DEF LockWallet

\* Looking for the reference and for its reversals happens under the wallet's lock.
LEMMA ResolveGoesOn ==
    ASSUME TypeInv, NEW p \in Procs, FindReference(p) \/ FindReversal(p)
    PROVE  GoesOn(p)
<1>1. row[p] \in TxRow /\ seen[p] \in WalletRow /\ seen' = seen /\ HoldsWallet(p)
  BY DEF TypeInv, TypeOK, ProcessesOK, FindReference, FindReversal, HoldsWallet
<1>2. ASSUME NEW d, Decide(p, d), d.row.id = row[p].id, d.row.op = row[p].op
      PROVE  GoesOn(p)
  BY <1>1, <1>2 DEF GoesOn, Others, Decide, Goto, TypeInv, TypeOK, ProcessesOK
<1>3. ASSUME NEW t, Decide(p, Decision(t, 0)), t.id = row[p].id, t.op = row[p].op
      PROVE  GoesOn(p)
  <2>1. Decision(t, 0).row = t
    BY DEF Decision
  <2> QED BY <1>2, <1>3, <2>1
<1>4. ASSUME NEW c \in FailureCodes, Decide(p, Decision(Reject(row[p], c), 0))
      PROVE  GoesOn(p)
  BY <1>1, <1>3, <1>4, RowSteps
<1>5. CASE FindReference(p)
  <2>1. ASSUME StillWaiting(p) PROVE GoesOn(p)
    <3>1. CASE Decide(p, Decision(MarkPendingReference(row[p]), 0))
      BY <1>1, <1>3, <3>1, RowSteps
    <3>2. CASE Decide(p, Decision(RescheduleReference(row[p]), 0))
      BY <1>1, <1>3, <3>2, RowSteps
    <3>3. CASE Decide(p, Decision(Reject(row[p], "REFERENCE_NOT_FOUND"), 0))
      BY <1>4, <3>3 DEF FailureCodes
    <3> QED BY <2>1, <3>1, <3>2, <3>3 DEF StillWaiting
  <2>2. ASSUME Goto(p, "reversed"), UNCHANGED <<row, delta>> PROVE GoesOn(p)
    BY <1>1, <2>2 DEF GoesOn, Others, Goto, TypeInv, TypeOK, ProcessesOK
  <2> QED BY <1>4, <1>5, <2>1, <2>2, VerdictKinds DEF FindReference
<1>6. CASE FindReversal(p)
  <2>1. tx[found[p]] \in TxRow
    BY <1>6 DEF FindReversal, TypeInv, TypeOK, LocalsFit, TablesOK
  <2>2. CASE Decide(p, ApplyReversal(row[p], seen[p], tx[found[p]]))
    BY <1>1, <1>2, <2>1, <2>2, ReversalFits
  <2>3. CASE Decide(p, Decision(Reject(row[p], "ALREADY_REVERSED"), 0))
    BY <1>4, <2>3 DEF FailureCodes
  <2> QED BY <1>6, <2>2, <2>3 DEF FindReversal
<1> QED BY <1>5, <1>6

\* Before anything happened nobody holds anything.
LEMMA InitLocks == Init => LockInv
<1> SUFFICES ASSUME Init PROVE LockInv
  OBVIOUS
<1>1. \A id \in TxIds : tx[id].id = id /\ tx[id].status = "ABSENT"
  BY NewRows, Placeholders DEF Init
<1>2. \A p \in Procs : pc[p] = "idle"
  BY DEF Init
<1>3. RowsOwned
  BY <1>1, <1>2 DEF RowsOwned, TxIds
<1> QED BY <1>2, <1>3 DEF LockInv, WalletsHeld, LockedReadFresh, HoldsWallet

\* Every step keeps the lock discipline.
LEMMA LockStep == TypeInv /\ LockInv /\ [Next]_vars => LockInv'
<1> SUFFICES ASSUME TypeInv, LockInv, [Next]_vars PROVE LockInv'
  OBVIOUS
<1>0. ProcessesOK /\ TablesOK
  BY DEF TypeInv, TypeOK
<1>1. ASSUME NEW o \in Openings, OpenWallet(o) PROVE LockInv'
  BY <1>1, OpenWalletKeepsLocks
<1>2. ASSUME NEW r \in Requests, NEW c \in Commands, Receive(r, c) PROVE LockInv'
  <2>1. r \in Procs /\ NewTx(r, c).id = r
    BY DEF Procs, NewTx
  <2>2. Ends(r)
    BY <1>0, <1>2, <2>1 DEF Receive, Ends, Others, Goto, ProcessesOK
  <2> QED BY <1>2, <2>1, <2>2, EndsKeepsLocks DEF Receive
<1>3. ASSUME NEW r \in Requests, Lookup(r) \/ Reread(r) PROVE LockInv'
  <2>1. r \in Procs /\ row[r].op \in Ops /\ UNCHANGED db
    BY <1>0, <1>3 DEF Procs, ProcessesOK, TxRow, Lookup, Reread
  <2>2. ASSUME NEW id \in FindByBusinessID(row[r].op.provider, row[r].op.ext)
        PROVE  Replay(tx[id], row[r].op) \in Answers
    BY <1>0, <2>1, AnswerTypes DEF FindByBusinessID, TablesOK
  <2>3. ASSUME pc[r] = "lookup", Goto(r, "lock"), UNCHANGED locals PROVE Ends(r)
    BY <1>0, <2>1, <2>3 DEF Ends, Others, Goto, ProcessesOK, locals, LockInv, RowsOwned
  <2>4. CASE Lookup(r)
    BY <1>0, <2>1, <2>2, <2>3, <2>4, WaysOut, EndsKeepsLocks, AnswerTypes DEF Lookup
  <2>5. CASE Reread(r)
    BY <1>0, <2>1, <2>2, <2>5, WaysOut, EndsKeepsLocks, AnswerTypes DEF Reread
  <2> QED BY <1>3, <2>4, <2>5
<1>4. ASSUME NEW k \in Workers, NEW id \in TxIds, Claim(k, id) PROVE LockInv'
  <2>1. k \in Procs /\ tx[id].id \in Requests
    BY <1>4 DEF Procs, Claim, LockInv, RowsOwned, TxIds
  <2>2. Ends(k)
    BY <1>0, <1>4, <2>1 DEF Claim, Ends, Others, Goto, ProcessesOK
  <2> QED BY <1>4, <2>1, <2>2, EndsKeepsLocks DEF Claim
<1>5. ASSUME NEW p \in Procs, LockWallet(p) PROVE LockInv'
  BY <1>5, LockWalletKeepsLocks
<1>6. ASSUME NEW p \in Procs, FindReference(p) \/ FindReversal(p) PROVE LockInv'
  BY <1>6, ResolveGoesOn, GoesOnKeepsLocks DEF FindReference, FindReversal
<1>7. ASSUME NEW p \in Procs, Write(p) PROVE LockInv'
  <2>1. GoesOn(p)
    BY <1>0, <1>7 DEF Write, GoesOn, Others, HoldsWallet, Goto, ProcessesOK, locals
  <2> QED BY <1>7, <2>1, GoesOnKeepsLocks DEF Write
<1>8. ASSUME NEW p \in Procs, LoseRace(p) PROVE LockInv'
  <2>1. Ends(p)
    BY <1>0, <1>8, WritesEnd
  <2> QED BY <1>8, <2>1, EndsKeepsLocks DEF LoseRace
<1>9. ASSUME NEW p \in Procs, Commit(p) \/ CommitUnacknowledged(p) PROVE LockInv'
  <2>1. Ends(p)
    BY <1>0, <1>9, WritesEnd
  <2> QED BY <1>9, <2>1, CommitKeepsLocks DEF Commit, CommitUnacknowledged
<1>10. ASSUME NEW p \in Procs, Fault(p) PROVE LockInv'
  BY <1>0, <1>10, WaysOut, EndsKeepsLocks DEF Fault
<1>11. ASSUME UNCHANGED vars PROVE LockInv'
  BY <1>11 DEF vars, db, locals, LockInv, RowsOwned, WalletsHeld, LockedReadFresh, HoldsWallet
<1> QED BY <1>1, <1>2, <1>3, <1>4, <1>5, <1>6, <1>7, <1>8, <1>9, <1>10, <1>11 DEF Next, Step

\* The row read under FOR UPDATE is the committed row for as long as the lock is held.
THEOREM LockedReadsStayFresh == Spec => []LockedReadFresh
<1>1. Spec => [](TypeInv /\ LockInv)
  BY InitTypes, TypeStep, InitLocks, LockStep, PTL DEF Spec
<1>2. TypeInv /\ LockInv => LockedReadFresh
  BY DEF LockInv
<1> QED BY <1>1, <1>2, PTL

-----------------------------------------------------------------------------
(* Third layer: the ledger.                                                 *)

\* An entry that starts where the chain ends extends it.
LEMMA ChainAppend ==
    ASSUME NEW es \in Seq(Entry), NEW e \in Entry, Chained(es),
           e.before = ClosingBalance(es), e.after = e.before + e.amount, e.amount # 0
    PROVE  /\ Chained(Append(es, e))
           /\ ClosingBalance(Append(es, e)) = e.after
           /\ Len(Append(es, e)) = Len(es) + 1
<1> DEFINE n == Len(es)
           fs == Append(es, e)
<1>1. /\ n \in Nat /\ fs \in Seq(Entry) /\ Len(fs) = n + 1 /\ fs[n + 1] = e
      /\ \A i \in 1 .. n : fs[i] = es[i]
  OBVIOUS
<1>2. e.after >= 0
  BY MaxMinorAssumption DEF Entry, Money
<1> HIDE DEF fs
<1>3. ASSUME NEW i \in 1 .. n
      PROVE  /\ fs[i].before = IF i = 1 THEN 0 ELSE fs[i - 1].after
             /\ fs[i].after = fs[i].before + fs[i].amount
             /\ fs[i].after >= 0 /\ fs[i].amount # 0
  <2>1. i = 1 \/ i - 1 \in 1 .. n
    OBVIOUS
  <2>2. fs[i] = es[i] /\ (i # 1 => fs[i - 1] = es[i - 1])
    BY <1>1, <2>1
  <2> QED BY <2>2 DEF Chained
<1>4. /\ fs[n + 1].before = IF n + 1 = 1 THEN 0 ELSE fs[n + 1 - 1].after
      /\ fs[n + 1].after = fs[n + 1].before + fs[n + 1].amount
      /\ fs[n + 1].after >= 0 /\ fs[n + 1].amount # 0
  <2>1. n = 0 => e.before = 0
    BY DEF ClosingBalance
  <2>2. n # 0 => n \in 1 .. n /\ fs[n] = es[n] /\ e.before = es[n].after
    BY <1>1 DEF ClosingBalance
  <2>3. n + 1 - 1 = n /\ (n + 1 = 1 <=> n = 0)
    BY <1>1
  <2> QED BY <1>1, <1>2, <2>1, <2>2, <2>3
<1>5. Chained(fs)
  <2>1. \A i \in 1 .. Len(fs) : i \in 1 .. n \/ i = n + 1
    BY <1>1
  <2> QED BY <1>1, <1>3, <1>4, <2>1 DEF Chained
<1>6. ClosingBalance(fs) = e.after
  BY <1>1 DEF ClosingBalance
<1> QED BY <1>1, <1>5, <1>6 DEF fs

\* The commit of a movement extends the chain from the balance it was decided on,
\* which the lock kept current.
LEMMA PersistKeepsLedger ==
    ASSUME TypeInv, LockInv, LedgerExplainsBalance, NEW p \in Procs, pc[p] = "commit", Persist(p)
    PROVE  LedgerExplainsBalance'
<1> DEFINE t == row[p]
           w == t.op.wallet
           e == [tx |-> t.id, amount |-> delta[p], before |-> seen[p].balance,
                 after |-> seen[p].balance + delta[p]]
<1>1. /\ t \in TxRow /\ t.id \in TxIds \ Wallets /\ w \in Wallets
      /\ delta[p] \in Int /\ seen[p] \in WalletRow
      /\ seen[p] = wallet[w] /\ seen[p].version > 0
  BY SetsAssumption DEF TypeInv, TypeOK, ProcessesOK, TxRow, Ops, LockInv, RowsOwned, TxIds,
     WalletsHeld, LockedReadFresh, HoldsWallet
<1>2. /\ tx' = [tx EXCEPT ![t.id] = t]
      /\ IF delta[p] # 0
         THEN /\ wallet' = [wallet EXCEPT ![w] = [@ EXCEPT !.balance = e.after,
                                                         !.version = seen[p].version + 1]]
              /\ ledger' = [ledger EXCEPT ![w] = Append(@, e)]
         ELSE UNCHANGED <<wallet, ledger>>
  BY DEF Persist
<1>3. \A v \in Wallets : Stored(v)' <=> Stored(v)
  BY <1>1, <1>2 DEF Stored, TypeInv, TypeOK, TablesOK, TxIds
<1>4. CASE delta[p] = 0
  BY <1>2, <1>3, <1>4 DEF LedgerExplainsBalance
<1>5. CASE delta[p] # 0
  <2>1. e \in Entry /\ e.before = wallet[w].balance /\ e.after = e.before + e.amount
        /\ e.amount # 0 /\ ledger[w] \in Seq(Entry)
    BY <1>1, <1>5 DEF Entry, WalletRow, TypeInv, TypeOK, TablesOK, LocalsFit
  <2> HIDE DEF e
  <2>2. ledger'[w] = Append(ledger[w], e) /\ wallet'[w].balance = e.after
        /\ wallet'[w].version = wallet[w].version + 1
    <3>1. ledger'[w] = Append(ledger[w], e)
      BY <1>1, <1>2, <1>5 DEF TypeInv, TypeOK, TablesOK
    <3>2. wallet'[w] = [wallet[w] EXCEPT !.balance = e.after, !.version = seen[p].version + 1]
      BY <1>1, <1>2, <1>5 DEF TypeInv, TypeOK, TablesOK
    <3>3. wallet[w] \in WalletRow
      BY <1>1
    <3> QED BY <1>1, <3>1, <3>2, <3>3 DEF WalletRow
  <2>3. \A v \in Wallets \ {w} : ledger'[v] = ledger[v] /\ wallet'[v] = wallet[v]
    BY <1>1, <1>2, <1>5 DEF TypeInv, TypeOK, TablesOK
  <2>4. /\ Chained(ledger[w]) /\ e.before = ClosingBalance(ledger[w])
        /\ wallet[w].version = IF Stored(w) THEN Len(ledger[w]) ELSE Len(ledger[w]) + 1
        /\ wallet[w].version \in Nat /\ wallet[w].version > 0 /\ Len(ledger[w]) \in Nat
    BY <1>1, <2>1 DEF LedgerExplainsBalance, TypeInv, TypeOK, TablesOK, WalletRow
  <2>5. /\ Chained(ledger'[w]) /\ wallet'[w].balance = ClosingBalance(ledger'[w])
        /\ Len(ledger'[w]) = Len(ledger[w]) + 1
    BY <2>1, <2>2, <2>4, ChainAppend
  <2>6. /\ wallet'[w].version > 0
        /\ wallet'[w].version = IF Stored(w) THEN Len(ledger'[w]) ELSE Len(ledger'[w]) + 1
    BY <2>2, <2>4, <2>5
  <2>7. ASSUME NEW v \in Wallets
        PROVE  /\ Chained(ledger'[v])
               /\ wallet'[v].balance = ClosingBalance(ledger'[v])
               /\ Stored(v)' => wallet'[v].version > 0
               /\ wallet'[v].version = IF Stored(v)' \/ wallet'[v].version = 0
                                       THEN Len(ledger'[v]) ELSE Len(ledger'[v]) + 1
    <3>1. CASE v = w
      BY <1>3, <2>5, <2>6, <3>1
    <3>2. CASE v # w
      BY <1>3, <2>3, <3>2 DEF LedgerExplainsBalance
    <3> QED BY <3>1, <3>2
  <2> QED BY <2>7 DEF LedgerExplainsBalance
<1> QED BY <1>4, <1>5

\* A wallet is opened with an empty ledger and at most one entry.
LEMMA OpenWalletKeepsLedger ==
    ASSUME TypeInv, LedgerExplainsBalance, NEW o \in Openings, OpenWallet(o)
    PROVE  LedgerExplainsBalance'
<1> DEFINE w == o.wallet
           e == [tx |-> w, amount |-> o.amount, before |-> 0, after |-> o.amount]
<1>1. w \in Wallets /\ w \in TxIds /\ o.amount \in Money /\ o.amount \in Nat
  BY OpeningsAssumption, MaxMinorAssumption DEF TxIds, Money
<1>2. wallet[w].version = 0 /\ ~Stored(w) /\ Len(ledger[w]) = 0 /\ ledger[w] \in Seq(Entry)
  BY <1>1 DEF OpenWallet, LedgerExplainsBalance, TypeInv, TypeOK, TablesOK, WalletRow
<1>3. wallet'[w].balance = o.amount /\ wallet'[w].version = 1
  BY <1>1 DEF OpenWallet, TypeInv, TypeOK, TablesOK
<1>4. \A v \in Wallets \ {w} : wallet'[v] = wallet[v] /\ ledger'[v] = ledger[v]
                               /\ (Stored(v)' <=> Stored(v))
  BY <1>1 DEF OpenWallet, TypeInv, TypeOK, TablesOK, Stored, TxIds
<1>5. /\ Chained(ledger'[w])
      /\ wallet'[w].balance = ClosingBalance(ledger'[w])
      /\ wallet'[w].version = IF Stored(w)' THEN Len(ledger'[w]) ELSE Len(ledger'[w]) + 1
  <2>1. CASE o.amount > 0
    <3>1. OpeningRow(o).status = "PROCESSED"
      BY DEF OpeningRow, NewTx
    <3>2. tx'[w] = OpeningRow(o)
      BY <1>1, <2>1 DEF OpenWallet, TypeInv, TypeOK, TablesOK
    <3>3. Stored(w)'
      BY <3>1, <3>2 DEF Stored
    <3>4. ledger'[w] = <<e>>
      BY <1>1, <2>1 DEF OpenWallet, TypeInv, TypeOK, TablesOK
    <3>5. e.before = 0 /\ e.after = o.amount /\ e.amount = o.amount
      OBVIOUS
    <3> HIDE DEF e
    <3>6. Len(<<e>>) = 1 /\ <<e>>[1] = e
      OBVIOUS
    <3> QED BY <1>1, <1>3, <2>1, <3>3, <3>4, <3>5, <3>6 DEF Chained, ClosingBalance
  <2>2. CASE ~(o.amount > 0)
    <3>1. o.amount = 0
      BY <1>1, <2>2
    <3>2. ledger' = ledger /\ tx' = tx
      BY <2>2 DEF OpenWallet
    <3> QED BY <1>2, <1>3, <3>1, <3>2 DEF Chained, ClosingBalance, Stored
  <2> QED BY <2>1, <2>2
<1>6. ASSUME NEW v \in Wallets
      PROVE  /\ Chained(ledger'[v])
             /\ wallet'[v].balance = ClosingBalance(ledger'[v])
             /\ Stored(v)' => wallet'[v].version > 0
             /\ wallet'[v].version = IF Stored(v)' \/ wallet'[v].version = 0
                                     THEN Len(ledger'[v]) ELSE Len(ledger'[v]) + 1
  <2>1. CASE v = w
    BY <1>3, <1>5, <2>1
  <2>2. CASE v # w
    BY <1>4, <2>2 DEF LedgerExplainsBalance
  <2> QED BY <2>1, <2>2
<1> QED BY <1>6 DEF LedgerExplainsBalance

\* Every step keeps the ledger and the balance together.
LEMMA LedgerStep ==
    TypeInv /\ LockInv /\ LedgerExplainsBalance /\ [Next]_vars => LedgerExplainsBalance'
<1> SUFFICES ASSUME TypeInv, LockInv, LedgerExplainsBalance, [Next]_vars
             PROVE  LedgerExplainsBalance'
  OBVIOUS
<1>1. ASSUME NEW o \in Openings, OpenWallet(o) PROVE LedgerExplainsBalance'
  BY <1>1, OpenWalletKeepsLedger
<1>2. ASSUME NEW p \in Procs, Commit(p) \/ CommitUnacknowledged(p)
      PROVE  LedgerExplainsBalance'
  BY <1>2, PersistKeepsLedger DEF Commit, CommitUnacknowledged
<1>3. ASSUME UNCHANGED db PROVE LedgerExplainsBalance'
  BY <1>3 DEF db, LedgerExplainsBalance, Stored
<1>4. ASSUME NEW p \in Procs,
             \/ LockWallet(p) \/ FindReference(p) \/ FindReversal(p)
             \/ Write(p) \/ LoseRace(p) \/ Fault(p)
      PROVE  UNCHANGED db
  BY <1>4 DEF LockWallet, FindReference, FindReversal, Write, LoseRace, Fault
<1>5. ASSUME NEW r \in Requests, (\E c \in Commands : Receive(r, c)) \/ Lookup(r) \/ Reread(r)
      PROVE  UNCHANGED db
  BY <1>5 DEF Receive, Lookup, Reread
<1>6. ASSUME NEW k \in Workers, NEW id \in TxIds, Claim(k, id) PROVE UNCHANGED db
  BY <1>6 DEF Claim
<1>7. ASSUME UNCHANGED vars PROVE UNCHANGED db
  BY <1>7 DEF vars
<1> QED BY <1>1, <1>2, <1>3, <1>4, <1>5, <1>6, <1>7 DEF Next, Step

\* No wallet, no ledger, no balance.
LEMMA InitLedger == Init => LedgerExplainsBalance
<1> SUFFICES ASSUME Init PROVE LedgerExplainsBalance
  OBVIOUS
<1>1. \A w \in Wallets : ~Stored(w)
  BY NewRows, Placeholders DEF Init, Stored, TxIds
<1>2. \A w \in Wallets : ledger[w] = << >> /\ wallet[w].balance = 0 /\ wallet[w].version = 0
  BY DEF Init, NoWallet
<1>3. Len(<< >>) = 0
  OBVIOUS
<1> QED BY <1>1, <1>2, <1>3 DEF LedgerExplainsBalance, Chained, ClosingBalance

\* The balance of every wallet is always explained by its ledger, whatever the
\* interleaving of submissions, workers, retries, crashes and lost acknowledgements.
THEOREM LedgerAlwaysExplainsBalance == Spec => []LedgerExplainsBalance
<1>1. Spec => [](TypeInv /\ LockInv /\ LedgerExplainsBalance)
  BY InitTypes, TypeStep, InitLocks, LockStep, InitLedger, LedgerStep, PTL DEF Spec
<1> QED BY <1>1, PTL

-----------------------------------------------------------------------------
(* The invariant of a row's history.                                        *)

\* The operation j is applied, t names it, agrees with it and may reverse it.
Reverses(t, j) ==
    /\ j \in TxIds /\ tx[j].status = "PROCESSED"
    /\ CanReverse(t.op.kind, tx[j].op.kind)
    /\ tx[j].op.ext = t.op.ref
    /\ \A f \in {"provider", "player", "wallet", "currency", "round", "amount"} :
          tx[j].op[f] = t.op[f]

\* A stored row is an opening, or was accepted, decided, and resolved if and only if
\* it is an applied reversal; what an applied reversal undid nobody else has undone.
RowInv(id) ==
    LET t == tx[id]
    IN  /\ id \in Wallets => t.op.kind = "OPENING" /\ (Stored(id) => t.op.wallet = id)
        /\ id \in Requests /\ Stored(id) =>
              Acceptable(t.op) /\ t.status \in {"PROCESSED", "REJECTED", "PENDING_REFERENCE"}
        /\ t.status = "PENDING_REFERENCE" => IsReversal(t.op.kind)
        /\ t.resolved # None <=> t.status = "PROCESSED" /\ IsReversal(t.op.kind)
        /\ t.resolved # None => /\ Reverses(t, t.resolved)
                                /\ FindProcessedReversalOf(t.resolved) = {id}

\* Until a request is answered its row is not stored, and it works on no other.
RequestInv(p) ==
    /\ pc[p] # "done" => tx[p].status = "ABSENT"
    /\ pc[p] # "idle" => row[p].id = p
    /\ pc[p] \in {"lookup", "lock", "reference", "reversed", "reread", "done"} =>
          row[p] = NewTx(p, row[p].op)

\* The row a worker has claimed is still waiting, and is what the worker read.
WorkerInv(p) ==
    /\ pc[p] \in {"idle", "lock", "reference", "reversed", "write", "commit"}
    /\ pc[p] # "idle" => /\ tx[row[p].id].status = "PENDING_REFERENCE"
                         /\ row[p].op = tx[row[p].id].op
    /\ pc[p] \in {"lock", "reference", "reversed"} => row[p] = tx[row[p].id]

\* What is decided is what is due: a movement for an applied operation and only for
\* it, taken from the balance read; a reversal undoes what nobody has undone.
Decided(p) ==
    LET t == row[p]
    IN  /\ t.status \in {"PROCESSED", "REJECTED", "PENDING_REFERENCE"}
        /\ t.status = "PENDING_REFERENCE" =>
              IsReversal(t.op.kind) /\ (p \in Workers => t = RescheduleReference(tx[t.id]))
        /\ t.resolved # None <=> t.status = "PROCESSED" /\ IsReversal(t.op.kind)
        /\ t.resolved # None => Reverses(t, t.resolved) /\ FindProcessedReversalOf(t.resolved) = {}
        /\ IF t.status = "PROCESSED"
           THEN /\ delta[p] = DueMovement(t) /\ t.balance = seen[p].balance + delta[p]
                /\ delta[p] # 0 <=> MovesMoney(t.op.kind)
           ELSE delta[p] = 0

\* A unit of work past its checks.
WorkInv(p) ==
    /\ pc[p] \in {"lock", "reference", "reversed", "write", "commit"} => Acceptable(row[p].op)
    /\ pc[p] \in {"reference", "reversed"} => IsReversal(row[p].op.kind)
    /\ pc[p] = "reversed" => Reverses(row[p], found[p])
    /\ pc[p] \in {"write", "commit"} => Decided(p)

ClaimsDistinct ==
    \A p, q \in Workers : p # q /\ pc[p] # "idle" /\ pc[q] # "idle" => row[p].id # row[q].id

HistoryInv ==
    /\ \A id \in TxIds : RowInv(id)
    /\ \A p \in Requests : RequestInv(p)
    /\ \A p \in Workers : WorkerInv(p)
    /\ \A p \in Procs : WorkInv(p)
    /\ ClaimsDistinct

-----------------------------------------------------------------------------
(* One process at a time: what a step leaves alone.                         *)

Alone(p) ==
    \A q \in Procs \ {p} :
        /\ pc'[q] = pc[q] /\ row'[q] = row[q] /\ seen'[q] = seen[q]
        /\ found'[q] = found[q] /\ delta'[q] = delta[q]

\* p has let go of everything it had decided, and is back at the row it started from.
LetGo(p) ==
    \/ /\ p \in Requests /\ row'[p] = NewTx(p, row[p].op)
       /\ pc'[p] \in {"lookup", "reread", "done"}
    \/ p \in Workers /\ pc'[p] = "idle" /\ row'[p] = NullRow

\* Every way out of a unit of work, and what is in hand afterwards.
LEMMA WaysOutLetGo ==
    ASSUME ProcessesOK, NEW p \in Procs,
           \/ \E a : Return(p, a)
           \/ EndWork(p) \/ Fails(p) \/ Retry(p)
           \/ p \in Requests /\ Goto(p, "reread") /\ Forget(p, NewTx(p, row[p].op))
    PROVE  Alone(p) /\ LetGo(p)
<1>1. ASSUME NEW t, Forget(p, t), NEW label, Goto(p, label)
      PROVE  Alone(p) /\ pc'[p] = label /\ row'[p] = t
  BY <1>1 DEF Forget, Goto, Alone, ProcessesOK
<1>2. ASSUME NEW a, Return(p, a) PROVE Alone(p) /\ LetGo(p)
  BY <1>1, <1>2 DEF Return, LetGo
<1>3. ASSUME EndWork(p) PROVE Alone(p) /\ LetGo(p)
  BY <1>1, <1>3 DEF EndWork, LetGo
<1>4. ASSUME Fails(p) PROVE Alone(p) /\ LetGo(p)
  BY <1>2, <1>3, <1>4 DEF Fails
<1>5. ASSUME Retry(p) PROVE Alone(p) /\ LetGo(p)
  BY <1>1, <1>4, <1>5 DEF Retry, LetGo
<1>6. ASSUME p \in Requests, Goto(p, "reread"), Forget(p, NewTx(p, row[p].op))
      PROVE  Alone(p) /\ LetGo(p)
  BY <1>1, <1>6 DEF LetGo
<1> QED BY <1>2, <1>3, <1>4, <1>5, <1>6

\* A refused write, a commit and a fault are ways out.
LEMMA WritesLetGo ==
    ASSUME ProcessesOK, NEW p \in Procs,
           LoseRace(p) \/ Commit(p) \/ CommitUnacknowledged(p) \/ Fault(p)
    PROVE  Alone(p) /\ LetGo(p)
<1>1. CASE LoseRace(p)
  BY <1>1, LoseRaceCases, WaysOutLetGo
<1>2. CASE Commit(p) \/ CommitUnacknowledged(p)
  BY <1>2, WaysOutLetGo DEF Commit, CommitUnacknowledged
<1>3. CASE Fault(p)
  BY <1>3, WaysOutLetGo DEF Fault
<1> QED BY <1>1, <1>2, <1>3

\* Taking a row up, locking, resolving and writing are steps of one process.
LEMMA StepsAlone ==
    ASSUME ProcessesOK, NEW p \in Procs,
           \/ \E c \in Commands : Receive(p, c)
           \/ \E id \in TxIds : Claim(p, id)
           \/ Lookup(p) \/ Reread(p) \/ LockWallet(p)
           \/ FindReference(p) \/ FindReversal(p) \/ Write(p)
    PROVE  Alone(p) /\ UNCHANGED db
<1>1. ASSUME NEW c, Receive(p, c) PROVE Alone(p) /\ UNCHANGED db
  BY <1>1 DEF Receive, Goto, Alone, ProcessesOK
<1>2. ASSUME NEW id, Claim(p, id) PROVE Alone(p) /\ UNCHANGED db
  BY <1>2 DEF Claim, Goto, Alone, ProcessesOK
<1>3. CASE Lookup(p)
  <2>1. ASSUME Goto(p, "lock"), UNCHANGED <<locals, attempt, answer>> PROVE Alone(p)
    BY <2>1 DEF Goto, Alone, ProcessesOK, locals
  <2> QED BY <1>3, <2>1, WaysOutLetGo DEF Lookup
<1>4. CASE Reread(p)
  BY <1>4, WaysOutLetGo DEF Reread
<1>5. ASSUME NEW d, Decide(p, d), UNCHANGED found,
             seen' = seen \/ \E w : seen' = [seen EXCEPT ![p] = w]
      PROVE  Alone(p)
  BY <1>5 DEF Decide, Goto, Alone, ProcessesOK
<1>6. CASE LockWallet(p)
  <2>1. ASSUME NEW w, Goto(p, "reference"), seen' = [seen EXCEPT ![p] = w],
               UNCHANGED <<row, found, delta, attempt, answer>>
        PROVE  Alone(p)
    BY <2>1 DEF Goto, Alone, ProcessesOK
  <2> QED BY <1>5, <1>6, <2>1, WaysOutLetGo DEF LockWallet
<1>7. CASE FindReference(p)
  <2>1. ASSUME NEW id, Goto(p, "reversed"), found' = [found EXCEPT ![p] = id],
               UNCHANGED <<row, delta, seen>>
        PROVE  Alone(p)
    BY <2>1 DEF Goto, Alone, ProcessesOK
  <2>2. ASSUME StillWaiting(p) PROVE \E d : Decide(p, d)
    BY <2>2 DEF StillWaiting
  <2> QED BY <1>5, <1>7, <2>1, <2>2 DEF FindReference
<1>8. CASE FindReversal(p)
  BY <1>5, <1>8 DEF FindReversal
<1>9. CASE Write(p)
  BY <1>9 DEF Write, Goto, Alone, ProcessesOK, locals
<1> QED BY <1>1, <1>2, <1>3, <1>4, <1>6, <1>7, <1>8, <1>9

\* The steps of Next, by what they do to the tables.
LEMMA NextCases ==
    ASSUME [Next]_vars
    PROVE  \/ \E o \in Openings : OpenWallet(o)
           \/ \E p \in Procs :
                 \/ p \in Requests /\ \E c \in Commands : Receive(p, c)
                 \/ p \in Workers /\ \E id \in TxIds : Claim(p, id)
                 \/ p \in Requests /\ (Lookup(p) \/ Reread(p))
                 \/ LockWallet(p) \/ FindReference(p) \/ FindReversal(p)
                 \/ Write(p) \/ LoseRace(p) \/ Fault(p)
                 \/ Commit(p) \/ CommitUnacknowledged(p)
           \/ UNCHANGED vars
BY DEF Next, Step, Procs

\* Only Write takes a process to its commit.
LEMMA OnlyWriteCommits ==
    ASSUME ProcessesOK, NEW p \in Procs,
           \/ \E c \in Commands : Receive(p, c)
           \/ \E id \in TxIds : Claim(p, id)
           \/ p \in Requests /\ (Lookup(p) \/ Reread(p))
           \/ LockWallet(p) \/ FindReference(p) \/ FindReversal(p)
           \/ LoseRace(p) \/ Fault(p) \/ Commit(p) \/ CommitUnacknowledged(p)
    PROVE  pc'[p] # "commit"
<1>1. ASSUME NEW label, Goto(p, label) PROVE pc'[p] = label
  BY <1>1 DEF Goto, ProcessesOK
<1>2. LetGo(p) => pc'[p] # "commit"
  BY DEF LetGo
<1>3. ASSUME NEW d, Decide(p, d) PROVE pc'[p] = "write"
  BY <1>1, <1>3 DEF Decide
<1>4. ASSUME \/ \E c \in Commands : Receive(p, c)
             \/ \E id \in TxIds : Claim(p, id)
      PROVE  pc'[p] # "commit"
  BY <1>1, <1>4 DEF Receive, Claim
<1>5. ASSUME Lookup(p) \/ Reread(p) PROVE pc'[p] # "commit"
  BY <1>1, <1>2, <1>5, WaysOutLetGo DEF Lookup, Reread
<1>6. ASSUME LockWallet(p) PROVE pc'[p] # "commit"
  BY <1>1, <1>2, <1>3, <1>6, WaysOutLetGo DEF LockWallet
<1>7. ASSUME FindReference(p) \/ FindReversal(p) PROVE pc'[p] # "commit"
  BY <1>1, <1>3, <1>7 DEF FindReference, FindReversal, StillWaiting
<1> QED BY <1>2, <1>4, <1>5, <1>6, <1>7, WritesLetGo

-----------------------------------------------------------------------------
(* Fourth layer: the unique indexes.                                        *)

\* What the indexes on (provider, externalId) and (provider, key) hold: committed rows
\* and the rows of transactions about to commit.
Indexed(a) ==
    \/ \E id \in TxIds : Stored(id) /\ External(tx[id]) /\ a = tx[id]
    \/ \E q \in Procs : pc[q] = "commit" /\ a = row[q]

\* OneRowPerIdentity, row by row.
LEMMA IndexedRows ==
    OneRowPerIdentity <=>
        \A a, b : Indexed(a) /\ Indexed(b) /\ a.id # b.id =>
                     ~SameBusinessId(a.op, b.op) /\ ~SameKey(a.op, b.op)
<1> DEFINE Committed == {tx[id] : id \in {i \in TxIds : Stored(i) /\ External(tx[i])}}
           InFlight  == {row[p] : p \in {q \in Procs : pc[q] = "commit"}}
<1>1. \A a : Indexed(a) <=> a \in Committed \cup InFlight
  BY DEF Indexed
<1> HIDE DEF Committed, InFlight
<1>2. OneRowPerIdentity <=> \A a, b \in Committed \cup InFlight :
            a.id # b.id => ~SameBusinessId(a.op, b.op) /\ ~SameKey(a.op, b.op)
  BY DEF OneRowPerIdentity, Committed, InFlight
<1> QED BY <1>1, <1>2

\* The same after a step.
LEMMA IndexedRowsAfter ==
    OneRowPerIdentity' <=>
        \A a, b : Indexed(a)' /\ Indexed(b)' /\ a.id # b.id =>
                     ~SameBusinessId(a.op, b.op) /\ ~SameKey(a.op, b.op)
<1> DEFINE Committed == {tx'[id] : id \in {i \in TxIds : Stored(i)' /\ External(tx'[i])}}
           InFlight  == {row'[p] : p \in {q \in Procs : pc'[q] = "commit"}}
<1>1. \A a : Indexed(a)' <=> a \in Committed \cup InFlight
  BY DEF Indexed
<1> HIDE DEF Committed, InFlight
<1>2. OneRowPerIdentity' <=> \A a, b \in Committed \cup InFlight :
            a.id # b.id => ~SameBusinessId(a.op, b.op) /\ ~SameKey(a.op, b.op)
  BY DEF OneRowPerIdentity, Committed, InFlight
<1> QED BY <1>1, <1>2

\* A committed row replaces, in the indexes, the row that was about to commit.
LEMMA CommitIndexed ==
    ASSUME TypeInv, NEW p \in Procs, pc[p] = "commit", Persist(p), Alone(p), LetGo(p), NEW a,
           Indexed(a)'
    PROVE  Indexed(a)
<1>1. tx' = [tx EXCEPT ![row[p].id] = row[p]] /\ row[p].id \in TxIds
  BY DEF Persist, TypeInv, TypeOK, ProcessesOK, TxRow
<1>2. pc'[p] # "commit"
  BY DEF LetGo
<1>3. ASSUME NEW id \in TxIds, Stored(id)', External(tx'[id]), a = tx'[id] PROVE Indexed(a)
  <2>1. CASE id = row[p].id
    BY <1>1, <1>3, <2>1 DEF Indexed, TypeInv, TypeOK, TablesOK
  <2>2. CASE id # row[p].id
    BY <1>1, <1>3, <2>2 DEF Indexed, Stored, TypeInv, TypeOK, TablesOK
  <2> QED BY <2>1, <2>2
<1>4. ASSUME NEW q \in Procs, pc'[q] = "commit", a = row'[q] PROVE Indexed(a)
  BY <1>2, <1>4 DEF Indexed, Alone
<1> QED BY <1>3, <1>4 DEF Indexed

\* An opening has no business identity and no key: it is in neither index.
LEMMA OpeningIndexed ==
    ASSUME TypeInv, NEW o \in Openings, OpenWallet(o), NEW a, Indexed(a)'
    PROVE  Indexed(a)
<1>1. OpeningRow(o).op.kind = "OPENING"
  BY DEF OpeningRow, NewTx, NoOp
<1> DEFINE opened == OpeningRow(o)
<1> HIDE DEF opened
<1>2. tx' = tx \/ tx' = [tx EXCEPT ![o.wallet] = opened]
  BY DEF OpenWallet, opened
<1>3. pc' = pc /\ row' = row
  BY DEF OpenWallet, locals
<1>4. ~External(opened)
  BY <1>1 DEF External, opened
<1>5. ASSUME NEW id \in TxIds, Stored(id)', External(tx'[id]), a = tx'[id] PROVE Indexed(a)
  BY <1>2, <1>4, <1>5 DEF Indexed, Stored, TypeInv, TypeOK, TablesOK
<1>6. ASSUME NEW q \in Procs, pc'[q] = "commit", a = row'[q] PROVE Indexed(a)
  BY <1>3, <1>6 DEF Indexed
<1> QED BY <1>5, <1>6 DEF Indexed

\* A row enters the indexes only if it clashes with nothing in them.
LEMMA WriteIndexed ==
    ASSUME TypeInv, OneRowPerIdentity, NEW p \in Procs, Write(p)
    PROVE  OneRowPerIdentity'
<1>1. ASSUME NEW a, Indexed(a)' PROVE Indexed(a) \/ a = row[p]
  <2>1. UNCHANGED <<tx, row>> /\ \A q \in Procs \ {p} : pc'[q] = pc[q]
    BY DEF Write, db, locals, Goto, TypeInv, TypeOK, ProcessesOK
  <2> QED BY <1>1, <2>1 DEF Indexed, Stored
<1>2. ASSUME NEW a, Indexed(a), a.id # row[p].id
      PROVE  ~SameBusinessId(a.op, row[p].op) /\ ~SameKey(a.op, row[p].op)
  <2>1. ~BusinessTaken(row[p]) /\ ~KeyTaken(row[p])
    BY DEF Write, WriteOutcome
  <2>2. ASSUME NEW id \in TxIds, Stored(id), External(tx[id]), a = tx[id]
        PROVE  ~SameBusinessId(a.op, row[p].op) /\ ~SameKey(a.op, row[p].op)
    BY <1>2, <2>1, <2>2 DEF BusinessTaken, KeyTaken, BusinessClash, KeyClash
  <2>3. ASSUME NEW q \in Procs, pc[q] = "commit", a = row[q]
        PROVE  ~SameBusinessId(a.op, row[p].op) /\ ~SameKey(a.op, row[p].op)
    BY <1>2, <2>3 DEF Write, IndexFree, BusinessClash, KeyClash
  <2> QED BY <1>2, <2>2, <2>3 DEF Indexed
<1>3. \A a, b : SameBusinessId(a, b) = SameBusinessId(b, a) /\ SameKey(a, b) = SameKey(b, a)
  BY DEF SameBusinessId, SameKey
<1>4. \A a, b : Indexed(a)' /\ Indexed(b)' /\ a.id # b.id =>
                 ~SameBusinessId(a.op, b.op) /\ ~SameKey(a.op, b.op)
  <2> SUFFICES ASSUME NEW a, NEW b, Indexed(a)', Indexed(b)', a.id # b.id
               PROVE  ~SameBusinessId(a.op, b.op) /\ ~SameKey(a.op, b.op)
    OBVIOUS
  <2>1. CASE Indexed(a) /\ Indexed(b)
    BY <2>1, IndexedRows
  <2>2. CASE a = row[p]
    BY <1>1, <1>2, <1>3, <2>2
  <2>3. CASE b = row[p]
    BY <1>1, <1>2, <2>3
  <2> QED BY <1>1, <2>1, <2>2, <2>3
<1> QED BY <1>4, IndexedRowsAfter

\* Every step keeps the indexes unique.
LEMMA IdentityStep == TypeInv /\ OneRowPerIdentity /\ [Next]_vars => OneRowPerIdentity'
<1> SUFFICES ASSUME TypeInv, OneRowPerIdentity, [Next]_vars PROVE OneRowPerIdentity'
  OBVIOUS
<1>0. ProcessesOK
  BY DEF TypeInv, TypeOK
<1>1. ASSUME \A a : Indexed(a)' => Indexed(a) PROVE OneRowPerIdentity'
  BY <1>1, IndexedRows, IndexedRowsAfter
<1>2. ASSUME NEW p \in Procs, Alone(p), pc'[p] # "commit", UNCHANGED db
      PROVE  OneRowPerIdentity'
  <2>1. \A a : Indexed(a)' => Indexed(a)
    BY <1>2 DEF Indexed, Alone, db, Stored
  <2> QED BY <1>1, <2>1
<1>3. ASSUME NEW o \in Openings, OpenWallet(o) PROVE OneRowPerIdentity'
  BY <1>1, <1>3, OpeningIndexed
<1>4. ASSUME NEW p \in Procs,
             \/ p \in Requests /\ \E c \in Commands : Receive(p, c)
             \/ p \in Workers /\ \E id \in TxIds : Claim(p, id)
             \/ p \in Requests /\ (Lookup(p) \/ Reread(p))
             \/ LockWallet(p) \/ FindReference(p) \/ FindReversal(p)
      PROVE  OneRowPerIdentity'
  BY <1>0, <1>2, <1>4, StepsAlone, OnlyWriteCommits
<1>5. ASSUME NEW p \in Procs, Write(p) PROVE OneRowPerIdentity'
  BY <1>5, WriteIndexed
<1>6. ASSUME NEW p \in Procs, LoseRace(p) \/ Fault(p) PROVE OneRowPerIdentity'
  BY <1>0, <1>2, <1>6, WritesLetGo, OnlyWriteCommits DEF LoseRace, Fault
<1>7. ASSUME NEW p \in Procs, Commit(p) \/ CommitUnacknowledged(p) PROVE OneRowPerIdentity'
  BY <1>0, <1>1, <1>7, CommitIndexed, WritesLetGo DEF Commit, CommitUnacknowledged
<1>8. ASSUME UNCHANGED vars PROVE OneRowPerIdentity'
  BY <1>1, <1>8 DEF vars, db, locals, Indexed, Stored
<1> QED BY <1>3, <1>4, <1>5, <1>6, <1>7, <1>8, NextCases

\* The tables start empty, and so do the indexes.
LEMMA InitIdentity == Init => OneRowPerIdentity
<1> SUFFICES ASSUME Init PROVE OneRowPerIdentity
  OBVIOUS
<1>1. \A id \in TxIds : ~Stored(id)
  BY NewRows, Placeholders DEF Init, Stored
<1>2. \A p \in Procs : pc[p] # "commit"
  BY DEF Init
<1> QED BY <1>1, <1>2, IndexedRows DEF Indexed

\* No interleaving of resends, workers, retries and lost acknowledgements stores two
\* operations under one business identity or under one key: what the index check of
\* Insert and the wait for an uncommitted entry give together.
THEOREM OneRowPerIdentityAlways == Spec => []OneRowPerIdentity
<1>1. Spec => [](TypeInv /\ OneRowPerIdentity)
  BY InitTypes, TypeStep, InitIdentity, IdentityStep, PTL DEF Spec
<1> QED BY <1>1, PTL

-----------------------------------------------------------------------------
(* Fifth layer: the history of a row.  First, what a decision decides.      *)

\* A row as NewExternalTransaction made it, or as it was parked: not resolved.
LEMMA FreshRow ==
    ASSUME NEW id, NEW op
    PROVE  LET t == NewTx(id, op)
           IN  t.id = id /\ t.op = op /\ t.status = "PENDING" /\ t.resolved = None
BY DEF NewTx

\* An accepted movement of money is not zero.
LEMMA MoveIsNotZero ==
    ASSUME NEW w \in WalletRow, NEW d, NEW a \in Money, NEW c, MoveCode(w, d, a, c) = "OK"
    PROVE  Signed(d, a) # 0
<1>1. a \in Int /\ ~(a <= 0)
  BY MaxMinorAssumption DEF MoveCode, Money
<1> QED BY <1>1 DEF Signed

\* movement: an operation that reverses nothing is applied with its kind's movement or
\* rejected with none.
LEMMA MovementDecides ==
    ASSUME NEW t \in TxRow, NEW w \in WalletRow, t.resolved = None
    PROVE  LET d == Movement(t, w)
           IN  /\ d.row.status \in {"PROCESSED", "REJECTED"} /\ d.row.resolved = None
               /\ IF d.row.status = "PROCESSED"
                  THEN /\ d.delta = IF MovesMoney(t.op.kind)
                                    THEN Signed(Direction(t.op.kind), t.op.amount) ELSE 0
                       /\ d.row.balance = w.balance + d.delta
                       /\ d.delta # 0 <=> MovesMoney(t.op.kind)
                  ELSE d.delta = 0
<1> DEFINE dir  == Direction(t.op.kind)
           code == MoveCode(w, dir, t.op.amount, t.op.currency)
           move == Signed(dir, t.op.amount)
<1>1. w.balance \in Int /\ w.balance + 0 = w.balance
  BY MaxMinorAssumption DEF WalletRow, Money
<1>2. \A b : MarkProcessed(t, b).status = "PROCESSED" /\ MarkProcessed(t, b).balance = b
             /\ MarkProcessed(t, b).resolved = None
  BY DEF MarkProcessed, TxRow
<1>3. \A c : Reject(t, c).status = "REJECTED" /\ Reject(t, c).resolved = None
  BY DEF Reject, TxRow
<1>4. CASE ~MovesMoney(t.op.kind)
  <2>1. Movement(t, w) = Decision(MarkProcessed(t, w.balance), 0)
    BY <1>4 DEF Movement
  <2> QED BY <1>1, <1>2, <1>4, <2>1 DEF Decision
<1>5. CASE MovesMoney(t.op.kind) /\ code = "OK"
  <2>1. Movement(t, w) = Decision(MarkProcessed(t, w.balance + move), move)
    BY <1>5 DEF Movement
  <2>2. move # 0
    BY <1>5, MoveIsNotZero DEF TxRow, Ops
  <2> QED BY <1>2, <1>5, <2>1, <2>2 DEF Decision
<1>6. CASE MovesMoney(t.op.kind) /\ code # "OK"
  <2>1. Movement(t, w) = Decision(Reject(t, code), 0)
    BY <1>6 DEF Movement
  <2> QED BY <1>3, <1>6, <2>1 DEF Decision
<1> QED BY <1>4, <1>5, <1>6

\* applyReversal: the opposite movement and the reference undone, or neither.
LEMMA ReversalDecides ==
    ASSUME NEW t \in TxRow, NEW w \in WalletRow, NEW target, t.resolved = None
    PROVE  LET d == ApplyReversal(t, w, target)
           IN  /\ d.row.status \in {"PROCESSED", "REJECTED"}
               /\ IF d.row.status = "PROCESSED"
                  THEN /\ d.row.resolved = target.id
                       /\ d.delta = Signed(ReversalDirection(target.op.kind), t.op.amount)
                       /\ d.row.balance = w.balance + d.delta
                       /\ d.delta # 0
                  ELSE d.delta = 0 /\ d.row.resolved = None
<1> DEFINE dir  == ReversalDirection(target.op.kind)
           code == MoveCode(w, dir, t.op.amount, t.op.currency)
           move == Signed(dir, t.op.amount)
           said == IF code = "INSUFFICIENT_FUNDS" THEN "REVERSAL_EXCEEDS_BALANCE" ELSE code
<1>1. \A c : Reject(t, c).status = "REJECTED" /\ Reject(t, c).resolved = None
  BY DEF Reject, TxRow
<1>2. CASE code = "OK"
  <2> DEFINE undone == [MarkProcessed(t, w.balance + move) EXCEPT !.resolved = target.id]
  <2>1. ApplyReversal(t, w, target) = Decision(undone, move)
    BY <1>2 DEF ApplyReversal
  <2>2. move # 0
    BY <1>2, MoveIsNotZero DEF TxRow, Ops
  <2> HIDE DEF move
  <2>3. undone.status = "PROCESSED" /\ undone.resolved = target.id
        /\ undone.balance = w.balance + move
    BY DEF MarkProcessed, TxRow
  <2> HIDE DEF undone
  <2> QED BY <2>1, <2>2, <2>3 DEF Decision, move
<1>3. CASE code # "OK"
  <2>1. ApplyReversal(t, w, target) = Decision(Reject(t, said), 0)
    BY <1>3 DEF ApplyReversal
  <2> HIDE DEF said
  <2> QED BY <1>1, <2>1 DEF Decision
<1> QED BY <1>2, <1>3

\* A usable reference of the provider's that the reversal names is one it reverses.
LEMMA UsableReverses ==
    ASSUME NEW t \in TxRow, NEW id \in FindByBusinessID(t.op.provider, t.op.ref),
           ReferenceVerdict(t, tx[id]) = "USABLE"
    PROVE  Reverses(t, id)
<1>1. id \in TxIds /\ tx[id].op.provider = t.op.provider /\ tx[id].op.ext = t.op.ref
  BY DEF FindByBusinessID
<1>2. /\ tx[id].status = "PROCESSED" /\ CanReverse(t.op.kind, tx[id].op.kind)
      /\ ~Disagrees(t, tx[id]) /\ t.op.amount = tx[id].op.amount
  BY DEF ReferenceVerdict
<1>3. \A f \in {"provider", "player", "wallet", "currency", "round", "amount"} :
          tx[id].op[f] = t.op[f]
  BY <1>1, <1>2 DEF Disagrees
<1> QED BY <1>1, <1>2, <1>3 DEF Reverses

\* Reverses reads nothing but the operations: another row for the same operation has
\* the same references.
LEMMA ReversesByOp ==
    ASSUME NEW t, NEW u, t.op = u.op, NEW j, Reverses(t, j)
    PROVE  Reverses(u, j)
BY DEF Reverses

-----------------------------------------------------------------------------
(* Steps that leave the tables alone.                                       *)

\* With the same committed rows a process that did not move still fits.
LEMMA UnmovedFits ==
    ASSUME NEW q \in Procs, UNCHANGED tx,
           pc'[q] = pc[q], row'[q] = row[q], seen'[q] = seen[q], found'[q] = found[q],
           delta'[q] = delta[q]
    PROVE  /\ RequestInv(q) => RequestInv(q)'
           /\ WorkerInv(q) => WorkerInv(q)'
           /\ WorkInv(q) => WorkInv(q)'
<1>1. RequestInv(q) => RequestInv(q)'
  BY DEF RequestInv
<1>2. WorkerInv(q) => WorkerInv(q)'
  BY DEF WorkerInv
<1>3. \A t, j : Reverses(t, j) => Reverses(t, j)'
  BY DEF Reverses
<1>4. \A j : FindProcessedReversalOf(j)' = FindProcessedReversalOf(j)
  BY DEF FindProcessedReversalOf
<1>5. Decided(q) => Decided(q)'
  BY <1>3, <1>4 DEF Decided, DueMovement
<1>6. WorkInv(q) => WorkInv(q)'
  BY <1>3, <1>5 DEF WorkInv
<1> QED BY <1>1, <1>2, <1>6

\* The same committed rows are as good as before.
LEMMA UnmovedRows ==
    ASSUME UNCHANGED tx, NEW id, RowInv(id)
    PROVE  RowInv(id)'
<1>1. \A t, j : Reverses(t, j) => Reverses(t, j)'
  BY DEF Reverses
<1>2. \A j : FindProcessedReversalOf(j)' = FindProcessedReversalOf(j)
  BY DEF FindProcessedReversalOf
<1> QED BY <1>1, <1>2 DEF RowInv, Stored

\* A step of p that touches no table keeps the history when it fits p.
LEMMA QuietStep ==
    ASSUME HistoryInv, NEW p \in Procs, Alone(p), UNCHANGED tx,
           p \in Requests => RequestInv(p)',
           p \in Workers => WorkerInv(p)',
           WorkInv(p)',
           \A q \in Workers \ {p} : p \in Workers /\ pc[q] # "idle" /\ pc'[p] # "idle"
                                      => row[q].id # row'[p].id
    PROVE  HistoryInv'
<1>1. \A id \in TxIds : RowInv(id)'
  BY UnmovedRows DEF HistoryInv
<1>2. ASSUME NEW q \in Procs, q # p
      PROVE  /\ WorkInv(q)' /\ (q \in Requests => RequestInv(q)')
             /\ (q \in Workers => WorkerInv(q)')
  BY <1>2, UnmovedFits DEF HistoryInv, Alone
<1>3. ClaimsDistinct'
  BY DEF HistoryInv, ClaimsDistinct, Alone, Procs
<1> QED BY <1>1, <1>2, <1>3 DEF HistoryInv, Procs

\* Letting go needs nothing but that the process was not done.
LEMMA LetGoStep ==
    ASSUME HistoryInv, NEW p \in Procs, pc[p] # "done", Alone(p), LetGo(p), UNCHANGED tx
    PROVE  HistoryInv'
<1>1. p \in Requests => RequestInv(p)' /\ pc'[p] \in {"lookup", "reread", "done"}
  <2> SUFFICES ASSUME p \in Requests PROVE RequestInv(p)' /\ pc'[p] \in {"lookup", "reread", "done"}
    OBVIOUS
  <2>1. row'[p] = NewTx(p, row[p].op) /\ pc'[p] \in {"lookup", "reread", "done"}
    BY SetsAssumption DEF LetGo
  <2>2. tx'[p].status = "ABSENT"
    BY DEF HistoryInv, RequestInv
  <2> QED BY <2>1, <2>2, FreshRow DEF RequestInv
<1>2. p \in Workers => WorkerInv(p)' /\ pc'[p] = "idle"
  BY SetsAssumption DEF LetGo, WorkerInv
<1>3. WorkInv(p)'
  BY <1>1, <1>2 DEF WorkInv, Procs
<1> QED BY <1>1, <1>2, <1>3, QuietStep

\* The row in hand before the outcome is decided: not resolved, and for a worker
\* still waiting.
LEMMA RowInHand ==
    ASSUME TypeInv, LockInv, HistoryInv, NEW p \in Procs,
           pc[p] \in {"lock", "reference", "reversed"}
    PROVE  /\ row[p] \in TxRow /\ row[p].id \in TxIds /\ row[p].resolved = None
           /\ p \in Workers => /\ row[p] = tx[row[p].id]
                               /\ tx[row[p].id].status = "PENDING_REFERENCE"
                               /\ IsReversal(row[p].op.kind)
<1>1. row[p] \in TxRow /\ row[p].id \in TxIds
  BY DEF TypeInv, TypeOK, ProcessesOK, TxRow
<1>2. CASE p \in Requests
  <2>1. row[p] = NewTx(p, row[p].op)
    BY <1>2 DEF HistoryInv, RequestInv
  <2> QED BY <1>1, <1>2, <2>1, FreshRow, SetsAssumption
<1>3. CASE p \in Workers
  <2>1. row[p] = tx[row[p].id] /\ tx[row[p].id].status = "PENDING_REFERENCE"
    BY <1>3 DEF HistoryInv, WorkerInv
  <2>2. RowInv(row[p].id)
    BY <1>1 DEF HistoryInv
  <2> QED BY <1>1, <2>1, <2>2 DEF RowInv
<1> QED BY <1>2, <1>3 DEF Procs

\* A step under the lock that keeps the row's identity fits the worker and the request.
LEMMA KeepsClaim ==
    ASSUME TypeInv, HistoryInv, NEW p \in Procs, UNCHANGED tx, Alone(p),
           pc[p] \in {"lookup", "lock", "reference", "reversed", "write"},
           pc'[p] \in {"lock", "reference", "reversed", "write", "commit"},
           row'[p].id = row[p].id, row'[p].op = row[p].op,
           pc'[p] \in {"lock", "reference", "reversed"} =>
              row'[p] = row[p] /\ pc[p] \in {"lookup", "lock", "reference", "reversed"},
           WorkInv(p)'
    PROVE  HistoryInv'
<1>1. p \in Requests => RequestInv(p)'
  BY DEF HistoryInv, RequestInv
<1>2. p \in Workers => WorkerInv(p)'
  BY DEF HistoryInv, WorkerInv
<1>3. p \in Workers => pc[p] # "idle"
  OBVIOUS
<1>4. \A q \in Workers \ {p} : p \in Workers /\ pc[q] # "idle" => row[q].id # row'[p].id
  BY <1>3 DEF HistoryInv, ClaimsDistinct
<1> QED BY <1>1, <1>2, <1>4, QuietStep

\* A decision that moves nothing and resolves nothing: a rejection, a wait.
LEMMA DecidesNothing ==
    ASSUME TypeInv, LockInv, HistoryInv, NEW p \in Procs, Alone(p), UNCHANGED <<tx, seen>>,
           pc[p] \in {"reference", "reversed"}, NEW t, Decide(p, Decision(t, 0)),
           t.id = row[p].id, t.op = row[p].op, t.resolved = None,
           \/ t.status = "REJECTED"
           \/ t.status = "PENDING_REFERENCE" /\ (p \in Workers => t = RescheduleReference(row[p]))
    PROVE  HistoryInv'
<1>1. pc'[p] = "write" /\ row'[p] = t /\ delta'[p] = 0
  BY DEF Decide, Decision, Goto, TypeInv, TypeOK, ProcessesOK
<1>2. Acceptable(row[p].op) /\ IsReversal(row[p].op.kind)
  BY DEF HistoryInv, WorkInv
<1>3. p \in Workers => tx[row[p].id] = row[p]
  BY RowInHand
<1>4. Decided(p)'
  BY <1>1, <1>2, <1>3 DEF Decided
<1>5. WorkInv(p)'
  BY <1>1, <1>2, <1>4 DEF WorkInv
<1> QED BY <1>1, <1>5, KeepsClaim

\* What rejecting, parking and rescheduling leave unresolved.
LEMMA Unresolved ==
    ASSUME NEW t \in TxRow, t.resolved = None
    PROVE  /\ \A c : Reject(t, c).status = "REJECTED" /\ Reject(t, c).resolved = None
           /\ MarkPendingReference(t).status = "PENDING_REFERENCE"
           /\ MarkPendingReference(t).resolved = None
           /\ RescheduleReference(t).status = t.status /\ RescheduleReference(t).resolved = None
BY DEF Reject, MarkPendingReference, RescheduleReference, TxRow

\* FindByIDForUpdate, and the decision that follows from the balance alone.
LEMMA LockWalletHistory ==
    ASSUME TypeInv, LockInv, HistoryInv, NEW p \in Procs, LockWallet(p)
    PROVE  HistoryInv'
<1> DEFINE t == row[p]
           w == wallet[t.op.wallet]
           d == Movement(t, w)
<1>1. pc[p] = "lock" /\ Alone(p) /\ UNCHANGED tx
  BY StepsAlone DEF LockWallet, TypeInv, TypeOK, db
<1>2. t \in TxRow /\ w \in WalletRow /\ t.resolved = None /\ Acceptable(t.op)
      /\ (p \in Workers => IsReversal(t.op.kind))
  BY <1>1, RowInHand DEF TypeInv, TypeOK, TablesOK, TxRow, Ops, HistoryInv, WorkInv
<1>3. CASE \E k \in {"not_found", "invalid"} : Return(p, Refusal(k))
  BY <1>1, <1>3, WaysOutLetGo, LetGoStep DEF TypeInv, TypeOK
<1>4. CASE /\ IsReversal(t.op.kind) /\ Goto(p, "reference")
           /\ UNCHANGED <<row, found, delta, attempt, answer>>
  <2>1. pc'[p] = "reference" /\ row'[p] = t
    BY <1>4 DEF Goto, TypeInv, TypeOK, ProcessesOK
  <2>2. WorkInv(p)'
    BY <1>2, <1>4, <2>1 DEF WorkInv
  <2> QED BY <1>1, <2>1, <2>2, KeepsClaim
<1>5. CASE ~IsReversal(t.op.kind) /\ Decide(p, d) /\ seen' = [seen EXCEPT ![p] = w]
  <2>1. pc'[p] = "write" /\ row'[p] = d.row /\ delta'[p] = d.delta /\ seen'[p] = w
    BY <1>5 DEF Decide, Goto, TypeInv, TypeOK, ProcessesOK
  <2>2. d.row.id = t.id /\ d.row.op = t.op
    BY <1>2, MovementFits
  <2>3. /\ d.row.status \in {"PROCESSED", "REJECTED"} /\ d.row.resolved = None
        /\ IF d.row.status = "PROCESSED"
           THEN /\ d.delta = IF MovesMoney(t.op.kind)
                             THEN Signed(Direction(t.op.kind), t.op.amount) ELSE 0
                /\ d.row.balance = w.balance + d.delta
                /\ d.delta # 0 <=> MovesMoney(t.op.kind)
           ELSE d.delta = 0
    BY <1>2, MovementDecides
  <2> HIDE DEF d
  <2>4. Decided(p)'
    BY <1>5, <2>1, <2>2, <2>3 DEF Decided, DueMovement
  <2>5. WorkInv(p)'
    BY <1>2, <2>1, <2>2, <2>4 DEF WorkInv
  <2> QED BY <1>1, <2>1, <2>2, <2>5, KeepsClaim
<1> QED BY <1>3, <1>4, <1>5 DEF LockWallet

\* resolveReference: wait, reject, or go on with a reference that can be reversed.
LEMMA FindReferenceHistory ==
    ASSUME TypeInv, LockInv, HistoryInv, NEW p \in Procs, FindReference(p)
    PROVE  HistoryInv'
<1> DEFINE t == row[p]
<1>1. pc[p] = "reference" /\ Alone(p) /\ UNCHANGED <<tx, seen>>
  BY StepsAlone DEF FindReference, TypeInv, TypeOK, db
<1>2. t \in TxRow /\ t.resolved = None /\ Acceptable(t.op) /\ IsReversal(t.op.kind)
      /\ (p \in Workers => t.status = "PENDING_REFERENCE")
  BY <1>1, RowInHand DEF HistoryInv, WorkInv
<1>3. ASSUME NEW c \in FailureCodes, Decide(p, Decision(Reject(t, c), 0)) PROVE HistoryInv'
  BY <1>1, <1>2, <1>3, RowSteps, Unresolved, DecidesNothing
<1>4. ASSUME StillWaiting(p) PROVE HistoryInv'
  <2>1. CASE p \in Requests /\ Decide(p, Decision(MarkPendingReference(t), 0))
    BY <1>1, <1>2, <2>1, RowSteps, Unresolved, DecidesNothing, SetsAssumption
  <2>2. CASE p \in Workers /\ Decide(p, Decision(RescheduleReference(t), 0))
    BY <1>1, <1>2, <2>2, RowSteps, Unresolved, DecidesNothing
  <2>3. CASE Decide(p, Decision(Reject(t, "REFERENCE_NOT_FOUND"), 0))
    BY <1>3, <2>3 DEF FailureCodes
  <2> QED BY <1>4, <2>1, <2>2, <2>3 DEF StillWaiting
<1>5. ASSUME NEW id \in FindByBusinessID(t.op.provider, t.op.ref),
             ReferenceVerdict(t, tx[id]) = "USABLE", Goto(p, "reversed"),
             found' = [found EXCEPT ![p] = id], UNCHANGED <<row, delta>>
      PROVE  HistoryInv'
  <2>1. pc'[p] = "reversed" /\ row'[p] = t /\ found'[p] = id
    BY <1>5 DEF Goto, TypeInv, TypeOK, ProcessesOK
  <2>2. Reverses(t, id)
    BY <1>2, <1>5, UsableReverses
  <2>3. Reverses(row[p], found[p])'
    BY <1>1, <2>1, <2>2 DEF Reverses
  <2>4. WorkInv(p)'
    BY <1>2, <2>1, <2>3 DEF WorkInv
  <2> QED BY <1>1, <2>1, <2>4, KeepsClaim
<1> QED BY <1>3, <1>4, <1>5, VerdictKinds DEF FindReference

\* The reference's reversals are looked for, and the reversal is applied or rejected.
LEMMA FindReversalHistory ==
    ASSUME TypeInv, LockInv, HistoryInv, NEW p \in Procs, FindReversal(p)
    PROVE  HistoryInv'
<1> DEFINE t == row[p]
           j == found[p]
           d == ApplyReversal(t, seen[p], tx[j])
<1>1. pc[p] = "reversed" /\ Alone(p) /\ UNCHANGED <<tx, seen, found>>
  BY StepsAlone DEF FindReversal, TypeInv, TypeOK, db
<1>2. t \in TxRow /\ t.resolved = None /\ Acceptable(t.op) /\ IsReversal(t.op.kind)
      /\ Reverses(t, j) /\ seen[p] \in WalletRow
  BY <1>1, RowInHand DEF HistoryInv, WorkInv, TypeInv, TypeOK, ProcessesOK
<1>3. j \in TxIds /\ tx[j] \in TxRow /\ tx[j].id = j /\ j # None
  BY <1>2, SetsAssumption DEF Reverses, TypeInv, TypeOK, TablesOK, LockInv, RowsOwned, TxIds
<1>4. CASE Decide(p, Decision(Reject(t, "ALREADY_REVERSED"), 0))
  <2>1. "ALREADY_REVERSED" \in FailureCodes
    BY DEF FailureCodes
  <2> QED BY <1>1, <1>2, <1>4, <2>1, RowSteps, Unresolved, DecidesNothing
<1>5. CASE FindProcessedReversalOf(j) = {} /\ Decide(p, d)
  <2>1. pc'[p] = "write" /\ row'[p] = d.row /\ delta'[p] = d.delta /\ seen'[p] = seen[p]
    BY <1>1, <1>5 DEF Decide, Goto, TypeInv, TypeOK, ProcessesOK
  <2>2. d.row.id = t.id /\ d.row.op = t.op
    BY <1>2, <1>3, ReversalFits
  <2>3. /\ d.row.status \in {"PROCESSED", "REJECTED"}
        /\ IF d.row.status = "PROCESSED"
           THEN /\ d.row.resolved = j
                /\ d.delta = Signed(ReversalDirection(tx[j].op.kind), t.op.amount)
                /\ d.row.balance = seen[p].balance + d.delta
                /\ d.delta # 0
           ELSE d.delta = 0 /\ d.row.resolved = None
    BY <1>2, <1>3, ReversalDecides
  <2> HIDE DEF d
  <2>4. Reverses(row[p], found[p])'
    BY <1>1, <1>2, <2>1, <2>2 DEF Reverses
  <2>5. FindProcessedReversalOf(found[p])' = {}
    BY <1>1, <1>5 DEF FindProcessedReversalOf
  <2>6. MovesMoney(t.op.kind)
    BY <1>2 DEF MovesMoney, IsReversal
  <2>7. Decided(p)'
    <3>1. CASE d.row.status = "PROCESSED"
      <4>1. row'[p].resolved = found'[p] /\ row'[p].resolved # None /\ row'[p].op = t.op
        BY <1>1, <1>3, <2>1, <2>2, <2>3, <3>1
      <4>2. DueMovement(row[p])' = delta'[p]
        BY <1>1, <1>2, <2>1, <2>3, <3>1, <4>1 DEF DueMovement
      <4>3. Reverses(row[p], row[p].resolved)' /\ FindProcessedReversalOf(row[p].resolved)' = {}
        BY <2>4, <2>5, <4>1
      <4> QED BY <1>2, <2>1, <2>3, <2>6, <3>1, <4>1, <4>2, <4>3 DEF Decided
    <3>2. CASE d.row.status = "REJECTED"
      BY <2>1, <2>3, <3>2 DEF Decided
    <3> QED BY <2>3, <3>1, <3>2
  <2>8. WorkInv(p)'
    BY <1>2, <2>1, <2>2, <2>7 DEF WorkInv
  <2> QED BY <1>1, <2>1, <2>2, <2>8, KeepsClaim
<1> QED BY <1>4, <1>5 DEF FindReversal

-----------------------------------------------------------------------------
(* Steps that change committed rows.                                        *)

\* A step whose only changed row was not settled, and whose new row, if it undoes
\* something, undoes what no row did.
LEMMA SettledStay ==
    ASSUME NEW id \in TxIds, NEW t, tx \in [TxIds -> TxRow], tx' = [tx EXCEPT ![id] = t],
           tx[id].status # "PROCESSED"
    PROVE  /\ \A u, j : Reverses(u, j) => Reverses(u, j)' /\ tx'[j] = tx[j]
           /\ \A j : ~(t.status = "PROCESSED" /\ t.resolved = j) =>
                      FindProcessedReversalOf(j)' = FindProcessedReversalOf(j)
           /\ t.status = "PROCESSED" /\ FindProcessedReversalOf(t.resolved) = {} =>
                 \A j : j = t.resolved => FindProcessedReversalOf(j)' = {id}
<1>1. \A i \in TxIds : tx'[i] = IF i = id THEN t ELSE tx[i]
  OBVIOUS
<1>2. \A u, j : Reverses(u, j) => j \in TxIds /\ j # id
  BY DEF Reverses
<1>3. \A u, j : Reverses(u, j) => Reverses(u, j)' /\ tx'[j] = tx[j]
  BY <1>1, <1>2 DEF Reverses
<1>4. ASSUME NEW j, ~(t.status = "PROCESSED" /\ t.resolved = j)
      PROVE  FindProcessedReversalOf(j)' = FindProcessedReversalOf(j)
  BY <1>1, <1>4 DEF FindProcessedReversalOf
<1>5. ASSUME NEW j, j = t.resolved, t.status = "PROCESSED", FindProcessedReversalOf(j) = {}
      PROVE  FindProcessedReversalOf(j)' = {id}
  BY <1>1, <1>5 DEF FindProcessedReversalOf
<1> QED BY <1>3, <1>4, <1>5

\* What a process about to write or commit has in hand is its own: the row is new, or
\* it is the one it claimed, and nobody else is on it.
LEMMA RowIsMine ==
    ASSUME TypeInv, LockInv, HistoryInv, NEW p \in Procs, pc[p] \in {"write", "commit"}
    PROVE  /\ row[p].id \in TxIds /\ row[p].id \in Requests /\ row[p].id \notin Wallets
           /\ p \in Requests => row[p].id = p /\ tx[p].status = "ABSENT"
           /\ p \in Workers => /\ tx[row[p].id].status = "PENDING_REFERENCE"
                               /\ tx[row[p].id].op = row[p].op
           /\ \A q \in Procs \ {p} :
                 /\ q \in Requests /\ pc[q] # "done" => q # row[p].id
                 /\ q \in Workers /\ pc[q] # "idle" => row[q].id # row[p].id
<1>1. row[p].id \in TxIds /\ row[p].id \in Requests /\ row[p].id \notin Wallets
  BY SetsAssumption DEF LockInv, RowsOwned, TxIds
<1>2. p \in Requests => row[p].id = p /\ tx[p].status = "ABSENT"
  BY DEF HistoryInv, RequestInv
<1>3. p \in Workers => tx[row[p].id].status = "PENDING_REFERENCE" /\ tx[row[p].id].op = row[p].op
  BY DEF HistoryInv, WorkerInv
<1>4. ASSUME NEW q \in Procs, q # p
      PROVE  /\ q \in Requests /\ pc[q] # "done" => q # row[p].id
             /\ q \in Workers /\ pc[q] # "idle" => row[q].id # row[p].id
  <2>1. q \in Requests /\ pc[q] # "done" => tx[q].status = "ABSENT"
    BY DEF HistoryInv, RequestInv
  <2>2. q \in Workers /\ pc[q] # "idle" => tx[row[q].id].status = "PENDING_REFERENCE"
    BY DEF HistoryInv, WorkerInv
  <2>3. CASE p \in Requests
    BY <1>2, <1>4, <2>1, <2>2, <2>3
  <2>4. CASE p \in Workers
    BY <1>3, <1>4, <2>1, <2>2, <2>4 DEF HistoryInv, ClaimsDistinct
  <2> QED BY <2>3, <2>4 DEF Procs
<1> QED BY <1>1, <1>2, <1>3, <1>4

\* Two reversals of the same operation are never in hand at once: they would be on the
\* same wallet.
LEMMA OneReversalInHand ==
    ASSUME LockInv, HistoryInv, NEW p \in Procs, NEW q \in Procs, p # q,
           pc[p] \in {"write", "commit"}, pc[q] \in {"write", "commit"},
           row[p].resolved # None
    PROVE  row[p].resolved # row[q].resolved
<1> SUFFICES ASSUME row[p].resolved = row[q].resolved PROVE FALSE
  OBVIOUS
<1>1. Reverses(row[p], row[p].resolved) /\ Reverses(row[q], row[p].resolved)
  BY DEF HistoryInv, WorkInv, Decided
<1>2. row[p].op["wallet"] = row[q].op["wallet"]
  BY <1>1 DEF Reverses
<1>3. row[p].op.wallet # row[q].op.wallet
  BY DEF LockInv, WalletsHeld, HoldsWallet
<1> QED BY <1>2, <1>3

\* A commit keeps the history of every row.
LEMMA CommitRows ==
    ASSUME TypeInv, LockInv, HistoryInv, NEW p \in Procs, pc[p] = "commit", Persist(p),
           NEW i \in TxIds
    PROVE  RowInv(i)'
<1>0. PICK t : t = row[p]
  OBVIOUS
<1> DEFINE id == t.id
<1>1. /\ id \in TxIds /\ id \in Requests /\ id \notin Wallets /\ t \in TxRow
      /\ tx[id].status # "PROCESSED"
  BY <1>0, RowIsMine DEF TypeInv, TypeOK, ProcessesOK, Procs
<1>2. tx' = [tx EXCEPT ![id] = t] /\ tx \in [TxIds -> TxRow]
  BY <1>0 DEF Persist, TypeInv, TypeOK, TablesOK
<1>3. Acceptable(t.op) /\ Decided(p)
  BY <1>0 DEF HistoryInv, WorkInv
<1>4. \A u, j : Reverses(u, j) => Reverses(u, j)' /\ tx'[j] = tx[j]
  BY <1>1, <1>2, SettledStay
<1>5. /\ \A j : ~(t.status = "PROCESSED" /\ t.resolved = j) =>
                    FindProcessedReversalOf(j)' = FindProcessedReversalOf(j)
      /\ t.status = "PROCESSED" /\ FindProcessedReversalOf(t.resolved) = {} =>
            \A j : j = t.resolved => FindProcessedReversalOf(j)' = {id}
  BY <1>1, <1>2, SettledStay
<1>6. CASE i = id
  <2>1. tx'[i] = t
    BY <1>1, <1>2, <1>6
  <2>2. t.resolved # None => Reverses(t, t.resolved)' /\ FindProcessedReversalOf(t.resolved)' = {id}
    <3> SUFFICES ASSUME t.resolved # None
                 PROVE  Reverses(t, t.resolved)' /\ FindProcessedReversalOf(t.resolved)' = {id}
      OBVIOUS
    <3>1. t.status = "PROCESSED" /\ Reverses(t, t.resolved) /\ FindProcessedReversalOf(t.resolved) = {}
      BY <1>0, <1>3 DEF Decided
    <3> QED BY <1>4, <1>5, <3>1
  <2> QED BY <1>0, <1>1, <1>3, <1>6, <2>1, <2>2 DEF RowInv, Decided
<1>7. CASE i # id
  <2>1. tx'[i] = tx[i] /\ RowInv(i)
    BY <1>1, <1>2, <1>7 DEF HistoryInv
  <2>2. ASSUME tx[i].resolved # None
        PROVE  /\ Reverses(tx[i], tx[i].resolved)'
               /\ FindProcessedReversalOf(tx[i].resolved)' = {i}
    <3>1. Reverses(tx[i], tx[i].resolved) /\ FindProcessedReversalOf(tx[i].resolved) = {i}
      BY <2>1, <2>2 DEF RowInv
    <3>2. t.resolved # tx[i].resolved
      BY <1>0, <1>3, <2>2, <3>1 DEF Decided
    <3> QED BY <1>4, <1>5, <2>1, <3>1, <3>2
  <2> QED BY <2>1, <2>2 DEF RowInv, Stored
<1> QED BY <1>6, <1>7

\* A process that did not move still fits when a row that is not its own, and was not
\* settled, is committed next to it.
LEMMA BystanderFits ==
    ASSUME HistoryInv, NEW q \in Procs, NEW id \in TxIds, NEW t,
           tx \in [TxIds -> TxRow], tx' = [tx EXCEPT ![id] = t], tx[id].status # "PROCESSED",
           pc'[q] = pc[q], row'[q] = row[q], seen'[q] = seen[q], found'[q] = found[q],
           delta'[q] = delta[q], row[q].id \in TxIds,
           q \in Requests /\ pc[q] # "done" => q # id,
           q \in Workers /\ pc[q] # "idle" => row[q].id # id,
           pc[q] \in {"write", "commit"} /\ row[q].resolved # None =>
              ~(t.status = "PROCESSED" /\ t.resolved = row[q].resolved)
    PROVE  /\ q \in Requests => RequestInv(q)'
           /\ q \in Workers => WorkerInv(q)'
           /\ WorkInv(q)'
<1>0. \A i \in TxIds : i # id => tx'[i] = tx[i]
  OBVIOUS
<1>1. \A u, j : Reverses(u, j) => Reverses(u, j)' /\ tx'[j] = tx[j]
  BY SettledStay
<1>2. \A j : ~(t.status = "PROCESSED" /\ t.resolved = j) =>
                FindProcessedReversalOf(j)' = FindProcessedReversalOf(j)
  BY SettledStay
<1>3. q \in Requests => RequestInv(q)'
  BY <1>0 DEF HistoryInv, RequestInv, TxIds
<1>4. q \in Workers => WorkerInv(q)'
  BY <1>0 DEF HistoryInv, WorkerInv
<1>5. pc[q] \in {"write", "commit"} => Decided(q)'
  <2> SUFFICES ASSUME pc[q] \in {"write", "commit"} PROVE Decided(q)'
    OBVIOUS
  <2>1. Decided(q)
    BY DEF HistoryInv, WorkInv
  <2>2. row[q].resolved # None => /\ Reverses(row[q], row[q].resolved)'
                                  /\ FindProcessedReversalOf(row[q].resolved)' = {}
                                  /\ tx'[row[q].resolved] = tx[row[q].resolved]
    BY <1>1, <1>2, <2>1 DEF Decided
  <2>3. row[q].status = "PROCESSED" => DueMovement(row[q])' = DueMovement(row[q])
    BY <2>1, <2>2 DEF DueMovement, Decided
  <2>4. q \in Workers => tx'[row[q].id] = tx[row[q].id]
    BY <1>0
  <2> QED BY <2>1, <2>2, <2>3, <2>4 DEF Decided
<1>6. WorkInv(q)'
  BY <1>1, <1>5 DEF HistoryInv, WorkInv
<1> QED BY <1>3, <1>4, <1>6

\* A commit keeps the history.
LEMMA CommitHistory ==
    ASSUME TypeInv, LockInv, HistoryInv, NEW p \in Procs, pc[p] = "commit", Persist(p),
           Alone(p), LetGo(p), p \in Requests => pc'[p] = "done"
    PROVE  HistoryInv'
<1>0. PICK t : t = row[p]
  OBVIOUS
<1> DEFINE id == t.id
<1>1. id \in TxIds /\ tx[id].status # "PROCESSED" /\ tx \in [TxIds -> TxRow]
      /\ tx' = [tx EXCEPT ![id] = t] /\ \A q \in Procs : row[q].id \in TxIds
  BY <1>0, RowIsMine DEF Persist, TypeInv, TypeOK, TablesOK, ProcessesOK, TxRow, Procs
<1>2. \A i \in TxIds : RowInv(i)'
  BY CommitRows
<1>3. ASSUME NEW q \in Procs, q # p
      PROVE  /\ WorkInv(q)' /\ (q \in Requests => RequestInv(q)')
             /\ (q \in Workers => WorkerInv(q)')
  <2>1. /\ q \in Requests /\ pc[q] # "done" => q # id
        /\ q \in Workers /\ pc[q] # "idle" => row[q].id # id
    BY <1>0, <1>3, RowIsMine
  <2>2. pc[q] \in {"write", "commit"} /\ row[q].resolved # None => t.resolved # row[q].resolved
    BY <1>0, <1>3, OneReversalInHand
  <2>3. pc'[q] = pc[q] /\ row'[q] = row[q] /\ seen'[q] = seen[q] /\ found'[q] = found[q]
        /\ delta'[q] = delta[q]
    BY <1>3 DEF Alone
  <2> QED BY <1>1, <2>1, <2>2, <2>3, BystanderFits
<1>4. p \in Requests => RequestInv(p)' /\ pc'[p] = "done"
  BY SetsAssumption, FreshRow DEF LetGo, RequestInv
<1>5. p \in Workers => WorkerInv(p)' /\ pc'[p] = "idle"
  BY SetsAssumption DEF LetGo, WorkerInv
<1>6. WorkInv(p)'
  BY <1>4, <1>5 DEF WorkInv, Procs
<1>7. ClaimsDistinct'
  BY <1>5 DEF HistoryInv, ClaimsDistinct, Alone, Procs
<1> QED BY <1>2, <1>3, <1>4, <1>5, <1>6, <1>7 DEF HistoryInv, Procs

\* A wallet's opening is a settled row nobody has in hand, and undoes nothing.
LEMMA OpenWalletHistory ==
    ASSUME TypeInv, LockInv, LedgerExplainsBalance, HistoryInv, NEW o \in Openings, OpenWallet(o)
    PROVE  HistoryInv'
<1>0. PICK t : t = OpeningRow(o)
  OBVIOUS
<1> DEFINE w == o.wallet
<1>1. w \in Wallets /\ w \in TxIds /\ w \notin Requests /\ tx \in [TxIds -> TxRow]
  BY OpeningsAssumption, SetsAssumption DEF TxIds, TypeInv, TypeOK, TablesOK
<1>2. ~Stored(w)
  BY <1>1 DEF OpenWallet, LedgerExplainsBalance
<1>3. t.id = w /\ t.status = "PROCESSED" /\ t.resolved = None /\ t.op.kind = "OPENING"
      /\ t.op.wallet = w
  BY <1>0 DEF OpeningRow, NewTx, NoOp
<1>4. UNCHANGED <<pc, row, seen, found, delta>>
  BY DEF OpenWallet, locals
<1>5. CASE UNCHANGED tx
  <2>1. \A i \in TxIds : RowInv(i)'
    BY <1>5, UnmovedRows DEF HistoryInv
  <2>2. \A q \in Procs : /\ WorkInv(q)' /\ (q \in Requests => RequestInv(q)')
                         /\ (q \in Workers => WorkerInv(q)')
    BY <1>4, <1>5, UnmovedFits DEF HistoryInv
  <2> QED BY <1>4, <2>1, <2>2 DEF HistoryInv, ClaimsDistinct, Procs
<1>6. CASE tx' = [tx EXCEPT ![w] = t]
  <2>1. tx[w].status # "PROCESSED" /\ \A j : j # None => t.resolved # j
    BY <1>2, <1>3 DEF Stored
  <2>2. \A u, j : Reverses(u, j) => Reverses(u, j)' /\ tx'[j] = tx[j]
    BY <1>1, <1>6, <2>1, SettledStay
  <2>3. \A j : j # None => FindProcessedReversalOf(j)' = FindProcessedReversalOf(j)
    <3>1. \A j : ~(t.status = "PROCESSED" /\ t.resolved = j) =>
                    FindProcessedReversalOf(j)' = FindProcessedReversalOf(j)
      BY <1>1, <1>6, <2>1, SettledStay
    <3> QED BY <2>1, <3>1
  <2>4. ASSUME NEW i \in TxIds PROVE RowInv(i)'
    <3>1. CASE i = w
      BY <1>1, <1>3, <1>6, <3>1 DEF RowInv, IsReversal
    <3>2. CASE i # w
      <4>1. tx'[i] = tx[i] /\ RowInv(i)
        BY <1>1, <1>6, <3>2 DEF HistoryInv
      <4>2. tx[i].resolved # None => /\ Reverses(tx[i], tx[i].resolved)'
                                     /\ FindProcessedReversalOf(tx[i].resolved)' = {i}
        BY <2>2, <2>3, <4>1 DEF RowInv
      <4> QED BY <4>1, <4>2 DEF RowInv, Stored
    <3> QED BY <3>1, <3>2
  <2>5. ASSUME NEW q \in Procs
        PROVE  /\ WorkInv(q)' /\ (q \in Requests => RequestInv(q)')
               /\ (q \in Workers => WorkerInv(q)')
    <3>1. row[q].id \in TxIds /\ (q \in Workers /\ pc[q] # "idle" => row[q].id # w)
      BY <1>1 DEF TypeInv, TypeOK, ProcessesOK, TxRow, LockInv, RowsOwned
    <3> QED BY <1>1, <1>4, <1>6, <2>1, <3>1, BystanderFits
  <2> QED BY <1>4, <2>4, <2>5 DEF HistoryInv, ClaimsDistinct, Procs
<1> QED BY <1>0, <1>5, <1>6 DEF OpenWallet

\* A command is taken up, a parked reversal is claimed.
LEMMA TakeUpHistory ==
    ASSUME TypeInv, LockInv, HistoryInv, NEW p \in Procs,
           \/ p \in Requests /\ \E c \in Commands : Receive(p, c)
           \/ p \in Workers /\ \E id \in TxIds : Claim(p, id)
    PROVE  HistoryInv'
<1>0. Alone(p) /\ UNCHANGED tx
  BY StepsAlone DEF TypeInv, TypeOK, db
<1>1. ASSUME p \in Requests, NEW c \in Commands, Receive(p, c) PROVE HistoryInv'
  <2>1. pc[p] = "idle" /\ pc'[p] = "lookup" /\ row'[p] = NewTx(p, c)
    BY <1>1 DEF Receive, Goto, TypeInv, TypeOK, ProcessesOK
  <2>2. row'[p].id = p /\ row'[p].op = c
    BY <2>1, FreshRow
  <2>3. RequestInv(p)'
    BY <1>0, <1>1, <2>1, <2>2 DEF HistoryInv, RequestInv
  <2>4. WorkInv(p)' /\ p \notin Workers
    BY <1>1, <2>1, SetsAssumption DEF WorkInv
  <2> QED BY <1>0, <2>3, <2>4, QuietStep
<1>2. ASSUME p \in Workers, NEW id \in TxIds, Claim(p, id) PROVE HistoryInv'
  <2>1. /\ pc'[p] = "lock" /\ row'[p] = tx[id] /\ tx[id].id = id
        /\ tx[id].status = "PENDING_REFERENCE" /\ ~Claimed(id)
    BY <1>2 DEF Claim, Goto, TypeInv, TypeOK, ProcessesOK, LockInv, RowsOwned
  <2>2. id \in Requests /\ Stored(id)
    BY <2>1 DEF LockInv, RowsOwned, TxIds, Stored
  <2>3. Acceptable(tx[id].op)
    BY <2>2 DEF HistoryInv, RowInv
  <2>4. WorkerInv(p)'
    BY <1>0, <2>1 DEF WorkerInv
  <2>5. WorkInv(p)' /\ p \notin Requests
    BY <1>2, <2>1, <2>3, SetsAssumption DEF WorkInv
  <2>6. \A q \in Workers \ {p} : pc[q] # "idle" => row[q].id # row'[p].id
    BY <2>1 DEF Claimed
  <2> QED BY <1>0, <2>4, <2>5, <2>6, QuietStep
<1> QED BY <1>1, <1>2

\* FindByBusinessID: a replay, a refusal, or on to the wallet.
LEMMA LookupHistory ==
    ASSUME TypeInv, HistoryInv, NEW p \in Procs, p \in Requests, Lookup(p) \/ Reread(p)
    PROVE  HistoryInv'
<1>1. Alone(p) /\ UNCHANGED tx /\ pc[p] \in {"lookup", "reread"} /\ ProcessesOK
  BY StepsAlone DEF TypeInv, TypeOK, db, Lookup, Reread
<1>2. ASSUME NEW a, Return(p, a) PROVE HistoryInv'
  BY <1>1, <1>2, WaysOutLetGo, LetGoStep
<1>3. ASSUME pc[p] = "lookup", Acceptable(row[p].op), Goto(p, "lock"),
             UNCHANGED <<locals, attempt, answer>>
      PROVE  HistoryInv'
  <2>1. pc'[p] = "lock" /\ row'[p] = row[p]
    BY <1>1, <1>3 DEF Goto, ProcessesOK, locals
  <2>2. WorkInv(p)'
    BY <1>3, <2>1 DEF WorkInv
  <2> QED BY <1>1, <1>3, <2>1, <2>2, KeepsClaim
<1> QED BY <1>2, <1>3 DEF Lookup, Reread

\* The statements of Insert or Update succeed; the process moves to its commit.
LEMMA WriteHistory ==
    ASSUME TypeInv, HistoryInv, NEW p \in Procs, Write(p)
    PROVE  HistoryInv'
<1>1. Alone(p) /\ UNCHANGED <<tx, row, seen, found, delta>> /\ pc[p] = "write" /\ pc'[p] = "commit"
  BY StepsAlone DEF TypeInv, TypeOK, ProcessesOK, db, locals, Write, Goto
<1>2. Decided(p)
  BY <1>1 DEF HistoryInv, WorkInv
<1>3. (\A t, j : Reverses(t, j) => Reverses(t, j)')
      /\ \A j : FindProcessedReversalOf(j)' = FindProcessedReversalOf(j)
  BY <1>1 DEF Reverses, FindProcessedReversalOf
<1>4. Decided(p)'
  BY <1>1, <1>2, <1>3 DEF Decided, DueMovement
<1>5. WorkInv(p)'
  BY <1>1, <1>4 DEF HistoryInv, WorkInv
<1> QED BY <1>1, <1>5, KeepsClaim

\* A commit ends a request, acknowledged or not.
LEMMA CommitEnds ==
    ASSUME TypeInv, NEW p \in Procs, Commit(p) \/ CommitUnacknowledged(p)
    PROVE  /\ pc[p] = "commit" /\ Persist(p) /\ Alone(p) /\ LetGo(p)
           /\ p \in Requests => pc'[p] = "done"
<1>1. ProcessesOK
  BY DEF TypeInv, TypeOK
<1>2. (\E a : Return(p, a)) \/ EndWork(p)
  BY DEF Commit, CommitUnacknowledged, Fails
<1>3. p \in Requests => pc'[p] = "done"
  BY <1>1, <1>2, SetsAssumption DEF Return, EndWork, Goto, ProcessesOK
<1> QED BY <1>1, <1>3, WritesLetGo DEF Commit, CommitUnacknowledged

\* Every step keeps the history.
LEMMA HistoryStep ==
    TypeInv /\ LockInv /\ LedgerExplainsBalance /\ HistoryInv /\ [Next]_vars => HistoryInv'
<1> SUFFICES ASSUME TypeInv, LockInv, LedgerExplainsBalance, HistoryInv, [Next]_vars
             PROVE  HistoryInv'
  OBVIOUS
<1>0. ProcessesOK
  BY DEF TypeInv, TypeOK
<1>1. ASSUME NEW o \in Openings, OpenWallet(o) PROVE HistoryInv'
  BY <1>1, OpenWalletHistory
<1>2. ASSUME NEW p \in Procs,
             \/ p \in Requests /\ \E c \in Commands : Receive(p, c)
             \/ p \in Workers /\ \E id \in TxIds : Claim(p, id)
      PROVE  HistoryInv'
  BY <1>2, TakeUpHistory
<1>3. ASSUME NEW p \in Procs, p \in Requests, Lookup(p) \/ Reread(p) PROVE HistoryInv'
  BY <1>3, LookupHistory
<1>4. ASSUME NEW p \in Procs, LockWallet(p) PROVE HistoryInv'
  BY <1>4, LockWalletHistory
<1>5. ASSUME NEW p \in Procs, FindReference(p) PROVE HistoryInv'
  BY <1>5, FindReferenceHistory
<1>6. ASSUME NEW p \in Procs, FindReversal(p) PROVE HistoryInv'
  BY <1>6, FindReversalHistory
<1>7. ASSUME NEW p \in Procs, Write(p) PROVE HistoryInv'
  BY <1>7, WriteHistory
<1>8. ASSUME NEW p \in Procs, LoseRace(p) \/ Fault(p) PROVE HistoryInv'
  <2>1. pc[p] # "done" /\ UNCHANGED tx
    BY <1>8 DEF LoseRace, Fault, db
  <2> QED BY <1>0, <1>8, <2>1, WritesLetGo, LetGoStep
<1>9. ASSUME NEW p \in Procs, Commit(p) \/ CommitUnacknowledged(p) PROVE HistoryInv'
  BY <1>9, CommitEnds, CommitHistory
<1>10. ASSUME UNCHANGED vars PROVE HistoryInv'
  <2>1. UNCHANGED <<tx, pc, row, seen, found, delta>>
    BY <1>10 DEF vars, db, locals
  <2>2. \A i \in TxIds : RowInv(i)'
    BY <2>1, UnmovedRows DEF HistoryInv
  <2>3. \A q \in Procs : /\ WorkInv(q)' /\ (q \in Requests => RequestInv(q)')
                         /\ (q \in Workers => WorkerInv(q)')
    BY <2>1, UnmovedFits DEF HistoryInv
  <2> QED BY <2>1, <2>2, <2>3 DEF HistoryInv, ClaimsDistinct, Procs
<1> QED BY <1>1, <1>2, <1>3, <1>4, <1>5, <1>6, <1>7, <1>8, <1>9, <1>10, NextCases

\* Nothing is stored and nobody has started.
LEMMA InitHistory == Init => HistoryInv
<1> SUFFICES ASSUME Init PROVE HistoryInv
  OBVIOUS
<1>1. \A id \in TxIds : /\ tx[id].status = "ABSENT" /\ tx[id].resolved = None
                        /\ tx[id].op.kind = "OPENING"
  BY DEF Init, NoRow, NewTx, NoOp
<1>2. \A p \in Procs : pc[p] = "idle"
  BY DEF Init
<1>3. \A id \in TxIds : RowInv(id)
  BY <1>1 DEF RowInv, Stored
<1>4. \A p \in Requests : RequestInv(p)
  BY <1>1, <1>2 DEF RequestInv, Procs, TxIds
<1>5. \A p \in Workers : WorkerInv(p)
  BY <1>2 DEF WorkerInv, Procs
<1>6. \A p \in Procs : WorkInv(p)
  BY <1>2 DEF WorkInv
<1>7. ClaimsDistinct
  BY <1>2 DEF ClaimsDistinct, Procs
<1> QED BY <1>3, <1>4, <1>5, <1>6, <1>7 DEF HistoryInv

\* The five layers together.
CoreInv == TypeInv /\ LockInv /\ LedgerExplainsBalance /\ OneRowPerIdentity /\ HistoryInv

\* The inductive invariant of the financial core.
THEOREM CoreInvariant == Spec => []CoreInv
<1>1. Init => CoreInv
  BY InitTypes, InitLocks, InitLedger, InitIdentity, InitHistory DEF CoreInv
<1>2. CoreInv /\ [Next]_vars => CoreInv'
  BY TypeStep, LockStep, LedgerStep, IdentityStep, HistoryStep DEF CoreInv
<1> QED BY <1>1, <1>2, PTL DEF Spec
=============================================================================
