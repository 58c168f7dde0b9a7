-------------------------- MODULE OutboxPublisher --------------------------
(***************************************************************************)
(* Publishers draining outbox_events into the events queue                 *)
(* (Publisher.RunOnce over OutboxRepository.ClaimDue).  Events are their   *)
(* seq.  A batch is one transaction: the row locks of ClaimDue are the     *)
(* lease, what was marked or rescheduled in it shows only after Commit,    *)
(* and what reached the broker stays there whatever becomes of it.  Time   *)
(* is left open: a rescheduled event comes round when it does.             *)
(***************************************************************************)
EXTENDS Integers, Sequences, FiniteSets

CONSTANTS
    MaxEvents,      \* bound: events ever recorded
    Aggregate,      \* the aggregate each event is about
    Publishers,     \* publishers, one or more per instance of the service
    BatchSize,      \* PublisherPolicy.BatchSize
    MaxFailures     \* bound: refusals, timeouts and rollbacks

Events == 1 .. MaxEvents

ASSUME OutboxAssumption ==
    /\ MaxEvents \in Nat /\ BatchSize \in Nat \ {0} /\ MaxFailures \in Nat
    /\ DOMAIN Aggregate = Events

VARIABLES
    recorded,   \* rows of outbox_events
    published,  \* rows with published_at set
    attempts,   \* the attempts column
    later,      \* rows whose next_attempt_at is still ahead
    todo,       \* per publisher: claimed and not handled yet
    marked,     \* per publisher: MarkPublished in the open transaction
    moved,      \* per publisher: Reschedule in the open transaction
    queue,      \* what the broker has accepted, in order
    window,     \* ids the broker still deduplicates on
    erred,      \* events Publish has returned an error for
    failures    \* failures so far

table == <<recorded, published, attempts, later>>
lease == <<todo, marked, moved>>
broker == <<queue, window>>
outboxVars  == <<table, lease, broker, erred, failures>>

-----------------------------------------------------------------------------
Held(p) == todo[p] \cup marked[p] \cup moved[p]

Delivered == {queue[i] : i \in DOMAIN queue}

\* The event of a set that ORDER BY seq puts first.
First(es) == CHOOSE e \in es : \A f \in es : e <= f

\* A unit of work of the core commits with its events.  Facts of one aggregate
\* commit in seq order, under the wallet's lock; facts of two need not.
Record(e) ==
    /\ e \notin recorded
    /\ \A f \in Events : f < e /\ Aggregate[f] = Aggregate[e] => f \in recorded
    /\ recorded' = recorded \cup {e}
    /\ UNCHANGED <<published, attempts, later, lease, broker, erred, failures>>

\* Fault: a claim that does not skip the rows others have locked.
ClaimUnlocked(p) ==
    LET due == (recorded \ published) \ later
    IN  {e \in due : Cardinality({f \in due : f < e}) < BatchSize}

\* Fault: no ORDER BY seq.
ClaimLatest(p) ==
    LET due == ((recorded \ published) \ later) \ UNION {Held(q) : q \in Publishers}
    IN  {e \in due : Cardinality({f \in due : f > e}) < BatchSize}

\* Fault: an event that failed once is never claimed again.
ClaimFresh(p) ==
    LET due == ((recorded \ published) \ later) \ UNION {Held(q) : q \in Publishers}
    IN  {e \in due : attempts[e] = 0 /\ Cardinality({f \in due : f < e}) < BatchSize}

\* ClaimDue: unpublished, due, not locked by anyone, oldest first, up to the limit.
Claimable(p) ==
    LET due == ((recorded \ published) \ later) \ UNION {Held(q) : q \in Publishers}
    IN  {e \in due : Cardinality({f \in due : f < e}) < BatchSize}

ClaimDue(p) ==
    /\ Held(p) = {}
    /\ Claimable(p) # {}
    /\ todo' = [todo EXCEPT ![p] = Claimable(p)]
    /\ UNCHANGED <<table, marked, moved, broker, erred, failures>>

-----------------------------------------------------------------------------
(* publishOne, by what the broker answered.                                 *)

\* SendMessage on the FIFO queue: an id seen within the window is dropped.
Deliver(e) ==
    IF e \in window THEN UNCHANGED broker
    ELSE queue' = Append(queue, e) /\ window' = window \cup {e}

Handled(p, e) ==
    /\ todo[p] # {}
    /\ e = First(todo[p])
    /\ todo' = [todo EXCEPT ![p] = @ \ {e}]

\* The broker accepts and MarkPublished follows.
PublishAccepted(p) ==
    \E e \in todo[p] :
        /\ Handled(p, e)
        /\ Deliver(e)
        /\ marked' = [marked EXCEPT ![p] = @ \cup {e}]
        /\ UNCHANGED <<table, moved, erred, failures>>

Reschedule(p, e) ==
    /\ failures < MaxFailures
    /\ failures' = failures + 1
    /\ moved' = [moved EXCEPT ![p] = @ \cup {e}]
    /\ erred' = erred \cup {e}
    /\ UNCHANGED <<table, marked>>

\* Fault: the error of a refused publish is dropped.
PublishErrorIgnored(p) ==
    \E e \in todo[p] :
        /\ Handled(p, e)
        /\ failures < MaxFailures
        /\ failures' = failures + 1
        /\ marked' = [marked EXCEPT ![p] = @ \cup {e}]
        /\ UNCHANGED <<table, moved, broker, erred>>

\* The broker refuses or cannot be reached; the batch goes on.
PublishRefused(p) ==
    \E e \in todo[p] : Handled(p, e) /\ Reschedule(p, e) /\ UNCHANGED broker

\* The broker accepts and the answer does not make it within PublishTimeout.
PublishTimesOut(p) ==
    \E e \in todo[p] : Handled(p, e) /\ Reschedule(p, e) /\ Deliver(e)

-----------------------------------------------------------------------------
Release(p) ==
    /\ todo' = [todo EXCEPT ![p] = {}]
    /\ marked' = [marked EXCEPT ![p] = {}]
    /\ moved' = [moved EXCEPT ![p] = {}]

\* Fault: the batch commits without its MarkPublished.
CommitUnmarked(p) ==
    /\ Held(p) # {} /\ todo[p] = {}
    /\ later' = later \cup moved[p]
    /\ Release(p)
    /\ UNCHANGED <<recorded, published, attempts, broker, erred, failures>>

\* The batch is through.
Commit(p) ==
    /\ Held(p) # {} /\ todo[p] = {}
    /\ published' = published \cup marked[p]
    /\ attempts' = [e \in Events |-> IF e \in moved[p] THEN attempts[e] + 1 ELSE attempts[e]]
    /\ later' = later \cup moved[p]
    /\ Release(p)
    /\ UNCHANGED <<recorded, broker, erred, failures>>

\* A statement or the commit fails, or the publisher dies: PostgreSQL lets go of
\* the rows as they were.  A transient failure claims again at once, any other at
\* the next tick: ClaimDue either way.
Rollback(p) ==
    /\ Held(p) # {}
    /\ failures < MaxFailures
    /\ failures' = failures + 1
    /\ Release(p)
    /\ UNCHANGED <<table, broker, erred>>

\* nextAttemptAt passes.
ComeRound(e) ==
    /\ e \in later
    /\ later' = later \ {e}
    /\ UNCHANGED <<recorded, published, attempts, lease, broker, erred, failures>>

\* The broker's deduplication window ends.
WindowEnds(e) ==
    /\ e \in window
    /\ window' = window \ {e}
    /\ UNCHANGED <<table, lease, queue, erred, failures>>

-----------------------------------------------------------------------------
OutboxInit ==
    /\ recorded = {} /\ published = {} /\ later = {}
    /\ attempts = [e \in Events |-> 0]
    /\ todo = [p \in Publishers |-> {}]
    /\ marked = [p \in Publishers |-> {}]
    /\ moved = [p \in Publishers |-> {}]
    /\ queue = << >> /\ window = {}
    /\ erred = {} /\ failures = 0

Work(p) ==
    \/ ClaimDue(p) \/ PublishAccepted(p) \/ PublishRefused(p) \/ PublishTimesOut(p)
    \/ Commit(p)

\* Everything recorded has gone out: the ticker finds nothing due.
Drained == published = Events /\ UNCHANGED outboxVars

OutboxNext ==
    \/ \E e \in Events : Record(e) \/ ComeRound(e) \/ WindowEnds(e)
    \/ \E p \in Publishers : Work(p) \/ Rollback(p)
    \/ Drained

OutboxSpec == OutboxInit /\ [][OutboxNext]_outboxVars

\* The ticker keeps firing and a backoff ends; facts, failures and the broker's
\* window are not fair.
OutboxFairness ==
    /\ \A p \in Publishers : WF_outboxVars(Work(p))
    /\ \A e \in Events : WF_outboxVars(ComeRound(e))

-----------------------------------------------------------------------------
\* Tables, leases and queue hold events; an unpublished row is leased to at most one
\* publisher.
OutboxTypeOK ==
    /\ published \subseteq recorded /\ later \subseteq recorded /\ recorded \subseteq Events
    /\ attempts \in [Events -> Nat]
    /\ \A p \in Publishers :
          /\ Held(p) \subseteq recorded \ published
          /\ \A q \in Publishers \ {p} : Held(p) \cap Held(q) = {}
    /\ queue \in Seq(Events) /\ window \subseteq Events
    /\ erred \subseteq Events /\ failures \in 0 .. MaxFailures

\* At least once: an event is marked published only if the broker has it, however
\* batches, rollbacks and timeouts interleave (publishOne marks after Publish).
MarkedWasDelivered == published \subseteq Delivered

\* An event is delivered more often than once only after a rollback or a timeout of
\* its publish, never because two publishers picked it up: the row lock is the lease.
DuplicatesHaveACause ==
    \A e \in Events : Cardinality({i \in DOMAIN queue : queue[i] = e}) <= 1 + failures

InTurn ==
    \A e, f \in Events, p \in Publishers :
        e < f /\ Aggregate[e] = Aggregate[f] /\ e \notin Delivered \cup erred =>
            /\ f \in Held(p)' \ Held(p)
                  => e \in Held(p)' \/ \E q \in Publishers \ {p} : e \in Held(q)
            /\ f \in Delivered' \ Delivered /\ f \in todo[p] => e \notin Held(p)

\* An event gets ahead of an earlier one of its aggregate only if the publish of the
\* earlier one has failed, or another publisher has it when this one claims: one
\* publisher's batches, and what is in them, keep to seq.
OvertakingHasACause == [][InTurn]_outboxVars

\* Events of one aggregate go out in the order the facts happened (the comment on
\* outbox_events.seq): none is delivered before an earlier one of its aggregate.
AggregateOrder ==
    \A e, f \in Events :
        e < f /\ Aggregate[e] = Aggregate[f] /\ f \in Delivered => e \in Delivered

\* Every recorded event goes out and is marked: a refusal delays it, a crash repeats
\* it, nothing loses it.
EveryEventGoesOut == \A e \in Events : e \in recorded ~> e \in published
=============================================================================
