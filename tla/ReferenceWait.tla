---------------------------- MODULE ReferenceWait ----------------------------
(***************************************************************************)
(* How long a parked reversal waits: the worker's ticks and batches, the   *)
(* backoff and the deadline (ReferencePolicy, RunOnce, handleOne).  What   *)
(* one lookup decides and writes is the core's (module Wagering); here it  *)
(* finds its reference or not.  One worker, the worst case for the wait.   *)
(***************************************************************************)
EXTENDS Integers, FiniteSets, FiniteSetsExt, Functions

CONSTANTS
    Reversals,      \* parked reversals
    MaxLooks,       \* ReferencePolicy.MaxAttempts
    BaseBackoff, MaxBackoff,
    WaitTtl,        \* ReferencePolicy.TTL
    WaitBatch,      \* ReferencePolicy.BatchSize
    Interval,       \* ReferencePolicy.Interval
    MaxErrors       \* bound: lookups that end in an error

ASSUME WaitAssumption ==
    /\ MaxLooks \in Nat \ {0} /\ WaitBatch \in Nat \ {0} /\ Interval \in Nat \ {0}
    /\ BaseBackoff \in Nat \ {0} /\ MaxBackoff \in Nat /\ BaseBackoff <= MaxBackoff
    /\ WaitTtl \in Nat \ {0} /\ MaxErrors \in Nat /\ IsFiniteSet(Reversals)

VARIABLES
    wait,       \* per reversal: status, attempts, time to its next attempt, time waited
    arrived,    \* reversals whose reference is committed and usable
    tickIn,     \* time to the ticker's next tick
    handled,    \* rows handled in the batch; -1 between batches
    errors      \* errors so far

waitVars == <<wait, arrived, tickIn, handled, errors>>

Resting == [status |-> "received", attempts |-> 0, dueIn |-> 0, waited |-> 0]
Pending == {r \in Reversals : wait[r].status = "PENDING_REFERENCE"}

-----------------------------------------------------------------------------
(* ReferencePolicy.nextAttemptAt.                                           *)

Window(attempt) ==
    LET doubled == BaseBackoff * 2 ^ (IF attempt > 17 THEN 16 ELSE attempt - 1)
    IN  IF doubled > MaxBackoff THEN MaxBackoff ELSE doubled

\* Fault: the first half of the window is not waited.
NextAttemptInJitterOnly(attempt) == 0 .. Window(attempt) \div 2

\* Half the window and up to half more.
NextAttemptIn(attempt) ==
    LET half == Window(attempt) \div 2 IN half .. half + half

-----------------------------------------------------------------------------
\* SubmitTransaction.park: the reversal arrived before what it undoes.
Park(r) ==
    /\ wait[r].status = "received" /\ r \notin arrived
    /\ \E d \in NextAttemptIn(1) :
          wait' = [wait EXCEPT ![r] = [status |-> "PENDING_REFERENCE", attempts |-> 1,
                                       dueIn |-> d, waited |-> 0]]
    /\ UNCHANGED <<arrived, tickIn, handled, errors>>

\* The core commits the operation a waiting reversal names.
ReferenceArrives(r) ==
    /\ r \in Pending \ arrived
    /\ arrived' = arrived \cup {r}
    /\ UNCHANGED <<wait, tickIn, handled, errors>>

\* Time passes between batches: a batch is short against the interval.
Elapse ==
    /\ handled = -1 /\ tickIn > 0
    /\ tickIn' = tickIn - 1
    /\ wait' = [r \in Reversals |->
                   IF r \in Pending
                   THEN [wait[r] EXCEPT !.dueIn = @ - 1, !.waited = @ + 1] ELSE wait[r]]
    /\ UNCHANGED <<arrived, handled, errors>>

\* Run: the ticker fires and RunOnce begins.
TickFires ==
    /\ handled = -1 /\ tickIn = 0
    /\ tickIn' = Interval /\ handled' = 0
    /\ UNCHANGED <<wait, arrived, errors>>

-----------------------------------------------------------------------------
(* RunOnce and handleOne.                                                   *)

Due == {r \in Pending : wait[r].dueIn <= 0}

\* Fault: no ORDER BY reference_next_attempt_at.
ClaimableAny == Due

\* ClaimDueReferences: the rows that became due first.
ClaimableReferences == {r \in Due : \A q \in Due : wait[r].dueIn <= wait[q].dueIn}

Working == handled \in 0 .. WaitBatch - 1

Settled(status) == [Resting EXCEPT !.status = status]

\* Fault: the deadline is the only end.
WaitIsOverDeadline(r) == wait[r].waited >= WaitTtl

\* ReferenceDeadlinePassed, or the attempts are used up.
WaitIsOver(r) == wait[r].waited >= WaitTtl \/ wait[r].attempts >= MaxLooks

\* The reference is looked for before the wait is judged.
Resolve(r) ==
    /\ r \in arrived
    /\ wait' = [wait EXCEPT ![r] = Settled("PROCESSED")]

GiveUp(r) ==
    /\ r \notin arrived /\ WaitIsOver(r)
    /\ wait' = [wait EXCEPT ![r] = Settled("REJECTED")]

LookAgain(r) ==
    /\ r \notin arrived /\ ~WaitIsOver(r)
    /\ \E d \in NextAttemptIn(wait[r].attempts + 1) :
          wait' = [wait EXCEPT ![r].attempts = @ + 1, ![r].dueIn = d]

HandleOne ==
    /\ Working
    /\ \E r \in ClaimableReferences : Resolve(r) \/ GiveUp(r) \/ LookAgain(r)
    /\ handled' = handled + 1
    /\ UNCHANGED <<arrived, tickIn, errors>>

\* An error ends the batch; its row stays due as it was.
HandleFails ==
    /\ Working /\ Due # {}
    /\ errors < MaxErrors
    /\ errors' = errors + 1
    /\ handled' = -1
    /\ UNCHANGED <<wait, arrived, tickIn>>

\* Nothing else is due, or the batch is full.
BatchEnds ==
    /\ handled # -1
    /\ Due = {} \/ handled = WaitBatch
    /\ handled' = -1
    /\ UNCHANGED <<wait, arrived, tickIn, errors>>

-----------------------------------------------------------------------------
WaitInit ==
    /\ wait = [r \in Reversals |-> Resting]
    /\ arrived = {} /\ tickIn = Interval /\ handled = -1 /\ errors = 0

WaitNext ==
    \/ \E r \in Reversals : Park(r) \/ ReferenceArrives(r)
    \/ Elapse \/ TickFires \/ HandleOne \/ HandleFails \/ BatchEnds

WaitSpec == WaitInit /\ [][WaitNext]_waitVars

-----------------------------------------------------------------------------
\* A waiting row has made at least the lookup that parked it and no more than the
\* policy allows.
WaitTypeOK ==
    /\ \A r \in Reversals :
          /\ wait[r].status \in {"received", "PENDING_REFERENCE", "PROCESSED", "REJECTED"}
          /\ r \in Pending => wait[r].attempts \in 1 .. MaxLooks
    /\ arrived \subseteq Reversals
    /\ tickIn \in 0 .. Interval /\ handled \in -1 .. WaitBatch /\ errors \in 0 .. MaxErrors

\* The longest a row waits for its turn once it is due: for the next tick, for the
\* batches the other rows fill, and one tick for each error.
Queueing ==
    Interval * (1 + (Cardinality(Reversals) - 1) \div WaitBatch + MaxErrors)

\* A parked reversal is settled by its deadline, one backoff and its turn: the
\* next attempt may be set past the deadline, an error ends a batch with due rows in
\* it and the same row comes first again, but nothing makes it wait longer.
WaitIsBounded ==
    \A r \in Pending : wait[r].waited < WaitTtl + MaxBackoff + Queueing

\* The least that n attempts take, each after half its window.
ShortestWait(n) == SumFunctionOnSet([a \in 1 .. MaxLooks |-> Window(a) \div 2], 1 .. n)

\* A reversal is given up on only after its deadline, or after the shortest waits
\* that use up its attempts: the policy's promise that a late reference is waited for.
GivenUpAfterTheWait ==
    [][\A r \in Reversals :
          r \in Pending /\ wait'[r].status = "REJECTED"
              => wait[r].waited >= Min({WaitTtl, ShortestWait(MaxLooks)})]_waitVars
=============================================================================
