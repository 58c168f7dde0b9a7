---------------------------- MODULE OutboxProofs ----------------------------
(***************************************************************************)
(* Proofs about OutboxPublisher for any number of publishers, events,      *)
(* batch sizes and failures: who holds what (LeaseInv), that what is       *)
(* marked has reached the broker (DeliveryInv), how often an event can     *)
(* have reached it (CopiesInv), and in which order (OrderInv).             *)
(***************************************************************************)
EXTENDS OutboxPublisher, FiniteSetTheorems, WellFoundedInduction, TLAPS

-----------------------------------------------------------------------------
(* Leases.                                                                  *)

\* What a publisher has in its transaction is in one of three sets.
LeaseInv ==
    /\ OutboxTypeOK
    /\ todo \in [Publishers -> SUBSET Events]
    /\ marked \in [Publishers -> SUBSET Events]
    /\ moved \in [Publishers -> SUBSET Events]
    /\ \A p \in Publishers :
          todo[p] \cap marked[p] = {} /\ todo[p] \cap moved[p] = {} /\ marked[p] \cap moved[p] = {}

\* Nothing is recorded, claimed or sent at the start.
LEMMA LeaseInit == OutboxInit => LeaseInv
<1> SUFFICES ASSUME OutboxInit
             PROVE  LeaseInv
  OBVIOUS
<1>1. queue \in Seq(Events)
  BY DEF OutboxInit
<1> QED
  BY <1>1, OutboxAssumption DEF OutboxInit, LeaseInv, OutboxTypeOK, Held

\* What the broker takes are events.
LEMMA DeliverType ==
    ASSUME NEW e \in Events, Deliver(e), queue \in Seq(Events), window \subseteq Events
    PROVE  queue' \in Seq(Events) /\ window' \subseteq Events
BY DEF Deliver, broker

\* One event leaves todo for another set of the same lease.
LEMMA LeaseMoves ==
    ASSUME LeaseInv, NEW p \in Publishers, NEW e \in todo[p],
           todo' = [todo EXCEPT ![p] = @ \ {e}],
           \/ marked' = [marked EXCEPT ![p] = @ \cup {e}] /\ UNCHANGED moved
           \/ moved' = [moved EXCEPT ![p] = @ \cup {e}] /\ UNCHANGED marked
    PROVE  /\ todo' \in [Publishers -> SUBSET Events]
           /\ marked' \in [Publishers -> SUBSET Events]
           /\ moved' \in [Publishers -> SUBSET Events]
           /\ \A q \in Publishers :
                 /\ Held(q)' = Held(q)
                 /\ todo'[q] \cap marked'[q] = {} /\ todo'[q] \cap moved'[q] = {}
                 /\ marked'[q] \cap moved'[q] = {}
<1>1. e \in Events
  BY DEF LeaseInv
<1>2. /\ todo' \in [Publishers -> SUBSET Events]
      /\ marked' \in [Publishers -> SUBSET Events]
      /\ moved' \in [Publishers -> SUBSET Events]
  BY <1>1 DEF LeaseInv
<1>3. ASSUME NEW q \in Publishers
      PROVE  /\ Held(q)' = Held(q)
             /\ todo'[q] \cap marked'[q] = {} /\ todo'[q] \cap moved'[q] = {}
             /\ marked'[q] \cap moved'[q] = {}
  <2>1. CASE q = p
    BY <2>1 DEF LeaseInv, Held
  <2>2. CASE q # p
    BY <2>2 DEF LeaseInv, Held
  <2> QED
    BY <2>1, <2>2
<1> QED
  BY <1>2, <1>3

\* A publisher that lets go holds nothing, and nobody else is touched.
LEMMA LeaseReleased ==
    ASSUME LeaseInv, NEW p \in Publishers, Release(p)
    PROVE  /\ todo' \in [Publishers -> SUBSET Events]
           /\ marked' \in [Publishers -> SUBSET Events]
           /\ moved' \in [Publishers -> SUBSET Events]
           /\ Held(p)' = {}
           /\ \A q \in Publishers :
                 /\ q # p => Held(q)' = Held(q)
                 /\ todo'[q] \cap marked'[q] = {} /\ todo'[q] \cap moved'[q] = {}
                 /\ marked'[q] \cap moved'[q] = {}
BY DEF LeaseInv, Release, Held

\* Every step keeps the leases apart and within the unpublished rows.
LEMMA LeaseStep == LeaseInv /\ [OutboxNext]_outboxVars => LeaseInv'
<1> SUFFICES ASSUME LeaseInv, [OutboxNext]_outboxVars
             PROVE  LeaseInv'
  OBVIOUS
<1>0. OutboxTypeOK
  BY DEF LeaseInv
<1>1. ASSUME NEW e \in Events, Record(e)
      PROVE  LeaseInv'
  BY <1>1 DEF LeaseInv, OutboxTypeOK, Record, Held, lease, broker
<1>2. ASSUME NEW e \in Events, ComeRound(e)
      PROVE  LeaseInv'
  BY <1>2 DEF LeaseInv, OutboxTypeOK, ComeRound, Held, lease, broker
<1>3. ASSUME NEW e \in Events, WindowEnds(e)
      PROVE  LeaseInv'
  BY <1>3 DEF LeaseInv, OutboxTypeOK, WindowEnds, Held, table, lease
<1>4. ASSUME NEW p \in Publishers, ClaimDue(p)
      PROVE  LeaseInv'
  <2> DEFINE new == Claimable(p)
  <2>1. /\ new \subseteq recorded \ published
        /\ \A q \in Publishers : new \cap Held(q) = {}
        /\ new \subseteq Events
    BY <1>0 DEF Claimable, OutboxTypeOK
  <2>2. todo[p] = {} /\ marked[p] = {} /\ moved[p] = {}
    BY <1>4 DEF ClaimDue, Held
  <2>3. /\ todo' = [todo EXCEPT ![p] = new]
        /\ UNCHANGED <<table, marked, moved, broker, erred, failures>>
    BY <1>4 DEF ClaimDue
  <2> HIDE DEF new
  <2>4. /\ todo' \in [Publishers -> SUBSET Events]
        /\ Held(p)' = new
        /\ \A q \in Publishers : q # p => Held(q)' = Held(q) /\ todo'[q] = todo[q]
        /\ todo'[p] = new
    BY <2>1, <2>2, <2>3 DEF LeaseInv, Held
  <2>5. \A q \in Publishers :
           /\ Held(q)' \subseteq recorded \ published
           /\ \A r \in Publishers \ {q} : Held(q)' \cap Held(r)' = {}
    BY <1>0, <2>1, <2>4 DEF OutboxTypeOK
  <2>6. OutboxTypeOK'
    BY <1>0, <2>3, <2>5 DEF OutboxTypeOK, table, broker
  <2> QED
    BY <2>2, <2>3, <2>4, <2>6 DEF LeaseInv
<1>5. ASSUME NEW p \in Publishers,
             PublishAccepted(p) \/ PublishRefused(p) \/ PublishTimesOut(p)
      PROVE  LeaseInv'
  <2>1. PICK e \in todo[p] :
           /\ todo' = [todo EXCEPT ![p] = @ \ {e}]
           /\ UNCHANGED table
           /\ Deliver(e) \/ UNCHANGED broker
           /\ \/ /\ marked' = [marked EXCEPT ![p] = @ \cup {e}]
                 /\ UNCHANGED <<moved, erred, failures>>
              \/ /\ moved' = [moved EXCEPT ![p] = @ \cup {e}]
                 /\ UNCHANGED marked
                 /\ erred' = erred \cup {e}
                 /\ failures < MaxFailures /\ failures' = failures + 1
    BY <1>5 DEF PublishAccepted, PublishRefused, PublishTimesOut, Handled, Reschedule
  <2>2. e \in Events
    BY DEF LeaseInv
  <2>3. queue' \in Seq(Events) /\ window' \subseteq Events
    BY <1>0, <2>1, <2>2, DeliverType DEF OutboxTypeOK, broker
  <2>4. /\ todo' \in [Publishers -> SUBSET Events]
        /\ marked' \in [Publishers -> SUBSET Events]
        /\ moved' \in [Publishers -> SUBSET Events]
        /\ \A q \in Publishers :
              /\ Held(q)' = Held(q)
              /\ todo'[q] \cap marked'[q] = {} /\ todo'[q] \cap moved'[q] = {}
              /\ marked'[q] \cap moved'[q] = {}
    BY <2>1, LeaseMoves
  <2>5. erred' \subseteq Events /\ failures' \in 0 .. MaxFailures
    BY <1>0, <2>1, <2>2, OutboxAssumption DEF OutboxTypeOK
  <2>6. OutboxTypeOK'
    BY <1>0, <2>1, <2>3, <2>4, <2>5 DEF OutboxTypeOK, table
  <2> QED
    BY <2>4, <2>6 DEF LeaseInv
<1>6. ASSUME NEW p \in Publishers, Commit(p)
      PROVE  LeaseInv'
  <2>1. /\ Release(p)
        /\ published' = published \cup marked[p]
        /\ attempts' = [e \in Events |-> IF e \in moved[p] THEN attempts[e] + 1 ELSE attempts[e]]
        /\ later' = later \cup moved[p]
        /\ UNCHANGED <<recorded, broker, erred, failures>>
    BY <1>6 DEF Commit
  <2>2. /\ todo' \in [Publishers -> SUBSET Events]
        /\ marked' \in [Publishers -> SUBSET Events]
        /\ moved' \in [Publishers -> SUBSET Events]
        /\ Held(p)' = {}
        /\ \A q \in Publishers :
              /\ q # p => Held(q)' = Held(q)
              /\ todo'[q] \cap marked'[q] = {} /\ todo'[q] \cap moved'[q] = {}
              /\ marked'[q] \cap moved'[q] = {}
    BY <2>1, LeaseReleased
  <2>3. marked[p] \subseteq Held(p) /\ moved[p] \subseteq Held(p)
    BY DEF Held
  <2>4. published' \subseteq recorded' /\ later' \subseteq recorded'
    BY <1>0, <2>1, <2>3 DEF OutboxTypeOK
  <2>5. attempts' \in [Events -> Nat]
    BY <1>0, <2>1 DEF OutboxTypeOK
  <2>6. \A q \in Publishers :
           /\ Held(q)' \subseteq recorded' \ published'
           /\ \A r \in Publishers \ {q} : Held(q)' \cap Held(r)' = {}
    BY <1>0, <2>1, <2>2, <2>3 DEF OutboxTypeOK
  <2>7. OutboxTypeOK'
    BY <1>0, <2>1, <2>4, <2>5, <2>6 DEF OutboxTypeOK, broker
  <2> QED
    BY <2>2, <2>7 DEF LeaseInv
<1>7. ASSUME NEW p \in Publishers, Rollback(p)
      PROVE  LeaseInv'
  <2>1. /\ Release(p)
        /\ failures < MaxFailures /\ failures' = failures + 1
        /\ UNCHANGED <<table, broker, erred>>
    BY <1>7 DEF Rollback
  <2>2. /\ todo' \in [Publishers -> SUBSET Events]
        /\ marked' \in [Publishers -> SUBSET Events]
        /\ moved' \in [Publishers -> SUBSET Events]
        /\ Held(p)' = {}
        /\ \A q \in Publishers :
              /\ q # p => Held(q)' = Held(q)
              /\ todo'[q] \cap marked'[q] = {} /\ todo'[q] \cap moved'[q] = {}
              /\ marked'[q] \cap moved'[q] = {}
    BY <2>1, LeaseReleased
  <2>3. \A q \in Publishers :
           /\ Held(q)' \subseteq recorded \ published
           /\ \A r \in Publishers \ {q} : Held(q)' \cap Held(r)' = {}
    BY <1>0, <2>2 DEF OutboxTypeOK
  <2>4. failures' \in 0 .. MaxFailures
    BY <1>0, <2>1, OutboxAssumption DEF OutboxTypeOK
  <2>5. OutboxTypeOK'
    BY <1>0, <2>1, <2>3, <2>4 DEF OutboxTypeOK, table, broker
  <2> QED
    BY <2>2, <2>5 DEF LeaseInv
<1>8. CASE UNCHANGED outboxVars
  BY <1>8 DEF outboxVars, table, lease, broker, LeaseInv, OutboxTypeOK, Held
<1> QED
  BY <1>1, <1>2, <1>3, <1>4, <1>5, <1>6, <1>7, <1>8 DEF OutboxNext, Work, Drained

\* The tables and leases of the outbox keep their types, and an unpublished row is
\* leased to at most one publisher, for any number of publishers and failures: the
\* row lock of ClaimDue is the lease.
THEOREM OutboxTypeCorrect == OutboxSpec => []OutboxTypeOK
<1>1. LeaseInv => OutboxTypeOK
  BY DEF LeaseInv
<1> QED
  BY <1>1, LeaseInit, LeaseStep, PTL DEF OutboxSpec
-----------------------------------------------------------------------------
(* Deliveries.                                                              *)

\* The broker has what it deduplicates on, what a batch has marked and what is
\* published.
DeliveryInv ==
    /\ LeaseInv
    /\ window \subseteq Delivered
    /\ published \subseteq Delivered
    /\ \A p \in Publishers : marked[p] \subseteq Delivered

\* A send adds its event, new or not, and the broker forgets nothing.
LEMMA DeliverAdds ==
    ASSUME NEW e \in Events, Deliver(e), queue \in Seq(Events), window \subseteq Delivered
    PROVE  Delivered' = Delivered \cup {e} /\ window' \subseteq Delivered'
<1>1. CASE e \in window
  BY <1>1 DEF Deliver, broker, Delivered
<1>2. CASE e \notin window
  <2>1. queue' = Append(queue, e) /\ window' = window \cup {e}
    BY <1>2 DEF Deliver
  <2>2. DOMAIN queue' = DOMAIN queue \cup {Len(queue) + 1}
    BY <2>1
  <2>3. queue'[Len(queue) + 1] = e /\ \A i \in DOMAIN queue : queue'[i] = queue[i]
    BY <2>1
  <2>4. Delivered' = Delivered \cup {e}
    BY <2>2, <2>3 DEF Delivered
  <2> QED
    BY <2>1, <2>4
<1> QED
  BY <1>1, <1>2

\* Every step marks only what has been delivered.
LEMMA DeliveryStep == DeliveryInv /\ [OutboxNext]_outboxVars => DeliveryInv'
<1> SUFFICES ASSUME DeliveryInv, [OutboxNext]_outboxVars
             PROVE  DeliveryInv'
  OBVIOUS
<1>0. LeaseInv' /\ LeaseInv
  BY LeaseStep DEF DeliveryInv
<1>1. ASSUME UNCHANGED <<published, marked, broker>>
      PROVE  DeliveryInv'
  BY <1>0, <1>1 DEF DeliveryInv, broker, Delivered
<1>2. ASSUME NEW e \in Events, WindowEnds(e)
      PROVE  DeliveryInv'
  BY <1>0, <1>2 DEF DeliveryInv, WindowEnds, table, lease, Delivered
<1>3. ASSUME NEW p \in Publishers, PublishAccepted(p)
      PROVE  DeliveryInv'
  <2>1. PICK e \in todo[p] :
           /\ Deliver(e)
           /\ marked' = [marked EXCEPT ![p] = @ \cup {e}]
           /\ UNCHANGED table
    BY <1>3 DEF PublishAccepted
  <2>2. e \in Events /\ queue \in Seq(Events)
    BY <1>0 DEF LeaseInv, OutboxTypeOK
  <2>3. Delivered' = Delivered \cup {e} /\ window' \subseteq Delivered'
    BY <2>1, <2>2, DeliverAdds DEF DeliveryInv
  <2>4. \A q \in Publishers : marked'[q] \subseteq marked[q] \cup {e}
    BY <1>0, <2>1 DEF LeaseInv
  <2> QED
    BY <1>0, <2>1, <2>3, <2>4 DEF DeliveryInv, table
<1>4. ASSUME NEW p \in Publishers, PublishTimesOut(p)
      PROVE  DeliveryInv'
  <2>1. PICK e \in todo[p] : Deliver(e) /\ UNCHANGED <<table, marked>>
    BY <1>4 DEF PublishTimesOut, Reschedule
  <2>2. e \in Events /\ queue \in Seq(Events)
    BY <1>0 DEF LeaseInv, OutboxTypeOK
  <2>3. Delivered' = Delivered \cup {e} /\ window' \subseteq Delivered'
    BY <2>1, <2>2, DeliverAdds DEF DeliveryInv
  <2> QED
    BY <1>0, <2>1, <2>3 DEF DeliveryInv, table
<1>5. ASSUME NEW p \in Publishers, PublishRefused(p)
      PROVE  DeliveryInv'
  BY <1>1, <1>5 DEF PublishRefused, Reschedule, table
<1>6. ASSUME NEW p \in Publishers, Commit(p) \/ Rollback(p)
      PROVE  DeliveryInv'
  <2>1. /\ marked' = [marked EXCEPT ![p] = {}]
        /\ published' \subseteq published \cup marked[p]
        /\ UNCHANGED broker
    BY <1>6 DEF Commit, Rollback, Release, table
  <2>2. \A q \in Publishers : marked'[q] \subseteq marked[q]
    BY <1>0, <2>1 DEF LeaseInv
  <2> QED
    BY <1>0, <2>1, <2>2 DEF DeliveryInv, broker, Delivered
<1>7. ASSUME NEW p \in Publishers, ClaimDue(p)
      PROVE  DeliveryInv'
  BY <1>1, <1>7 DEF ClaimDue, table
<1>8. ASSUME NEW e \in Events, Record(e) \/ ComeRound(e)
      PROVE  DeliveryInv'
  BY <1>1, <1>8 DEF Record, ComeRound, lease
<1>9. CASE UNCHANGED outboxVars
  BY <1>1, <1>9 DEF outboxVars, table, lease
<1> QED
  BY <1>2, <1>3, <1>4, <1>5, <1>6, <1>7, <1>8, <1>9 DEF OutboxNext, Work, Drained

\* At least once: publishOne marks after Publish and the mark is committed with the
\* batch, so whatever is published has been accepted by the broker, for any number of
\* publishers, timeouts and rollbacks.
THEOREM PublishedWasDelivered == OutboxSpec => []MarkedWasDelivered
<1>1. OutboxInit => DeliveryInv
  BY LeaseInit DEF OutboxInit, DeliveryInv
<1>2. DeliveryInv => MarkedWasDelivered
  BY DEF DeliveryInv, MarkedWasDelivered
<1> QED
  BY <1>1, <1>2, DeliveryStep, PTL DEF OutboxSpec

-----------------------------------------------------------------------------
(* Duplicates.                                                              *)

Copies(e) == Cardinality({i \in DOMAIN queue : queue[i] = e})

\* The last send of the event is spoken for: no failure is needed to explain it.
Accounted(e) == e \in published \/ \E p \in Publishers : e \in marked[p]

\* A copy beyond the one that is marked cost a failure.
CopiesInv ==
    /\ LeaseInv
    /\ \A e \in Events :
          /\ Copies(e) \in Nat
          /\ Copies(e) <= failures + 1
          /\ ~Accounted(e) => Copies(e) <= failures

\* A send adds at most one copy, and only of its event.
LEMMA DeliverCopies ==
    ASSUME NEW e \in Events, Deliver(e), queue \in Seq(Events), NEW f \in Events,
           Copies(f) \in Nat
    PROVE  /\ Copies(f)' \in Nat
           /\ Copies(f)' <= Copies(f) + 1
           /\ f # e => Copies(f)' = Copies(f)
<1> DEFINE at(s) == {i \in DOMAIN s : s[i] = f}
<1>1. CASE e \in window
  BY <1>1 DEF Deliver, broker, Copies
<1>2. CASE e \notin window
  <2>1. queue' = Append(queue, e)
    BY <1>2 DEF Deliver
  <2>2. /\ DOMAIN queue' = DOMAIN queue \cup {Len(queue) + 1}
        /\ queue'[Len(queue) + 1] = e
        /\ \A i \in DOMAIN queue : queue'[i] = queue[i]
        /\ Len(queue) + 1 \notin DOMAIN queue
    BY <2>1
  <2>3. IsFiniteSet(at(queue))
    <3>1. DOMAIN queue = 1 .. Len(queue) /\ Len(queue) \in Nat
      OBVIOUS
    <3>2. IsFiniteSet(1 .. Len(queue))
      BY <3>1, FS_Interval
    <3>3. at(queue) \subseteq 1 .. Len(queue)
      BY <3>1
    <3> QED
      BY <3>2, <3>3, FS_Subset
  <2>4. CASE f = e
    <3>1. at(queue') = at(queue) \cup {Len(queue) + 1} /\ Len(queue) + 1 \notin at(queue)
      BY <2>2, <2>4
    <3>2. Cardinality(at(queue')) = Cardinality(at(queue)) + 1
      BY <2>3, <3>1, FS_AddElement
    <3>3. Copies(f)' = Cardinality(at(queue')) /\ Copies(f) = Cardinality(at(queue))
      BY DEF Copies
    <3> QED
      BY <2>4, <3>2, <3>3
  <2>5. CASE f # e
    <3>1. at(queue') = at(queue)
      BY <2>2, <2>5
    <3>2. Copies(f)' = Cardinality(at(queue')) /\ Copies(f) = Cardinality(at(queue))
      BY DEF Copies
    <3>3. Copies(f)' = Copies(f)
      BY <3>1, <3>2
    <3> QED
      BY <3>3
  <2> QED
    BY <2>4, <2>5
<1> QED
  BY <1>1, <1>2

\* Every step that sends again, or loses a mark, has cost a failure.
LEMMA CopiesStep == CopiesInv /\ [OutboxNext]_outboxVars => CopiesInv'
<1> SUFFICES ASSUME CopiesInv, [OutboxNext]_outboxVars
             PROVE  CopiesInv'
  OBVIOUS
<1>0. LeaseInv' /\ LeaseInv
  BY LeaseStep DEF CopiesInv
<1>t. failures \in Nat /\ queue \in Seq(Events)
  BY <1>0, OutboxAssumption DEF LeaseInv, OutboxTypeOK
<1>1. ASSUME UNCHANGED <<published, marked, queue, failures>>
      PROVE  CopiesInv'
  BY <1>0, <1>1 DEF CopiesInv, Copies, Accounted
<1>2. ASSUME NEW p \in Publishers, PublishAccepted(p)
      PROVE  CopiesInv'
  <2>1. PICK e \in todo[p] :
           /\ Deliver(e)
           /\ marked' = [marked EXCEPT ![p] = @ \cup {e}]
           /\ UNCHANGED <<table, failures>>
    BY <1>2 DEF PublishAccepted
  <2>2. e \in Events
    BY <1>0 DEF LeaseInv
  <2>3. ~Accounted(e)
    <3>1. e \in Held(p)
      BY DEF Held
    <3>2. e \notin published
      BY <1>0, <3>1 DEF LeaseInv, OutboxTypeOK
    <3>3. ASSUME NEW q \in Publishers
          PROVE  e \notin marked[q]
      <4>1. CASE q = p
        BY <1>0, <4>1 DEF LeaseInv
      <4>2. CASE q # p
        <5>1. Held(p) \cap Held(q) = {}
          BY <1>0, <4>2 DEF LeaseInv, OutboxTypeOK
        <5> QED
          BY <3>1, <5>1 DEF Held
      <4> QED
        BY <4>1, <4>2
    <3> QED
      BY <3>2, <3>3 DEF Accounted
  <2>4. Accounted(e)'
    BY <1>0, <2>1 DEF Accounted, LeaseInv
  <2>5. ASSUME NEW f \in Events, Accounted(f)
        PROVE  Accounted(f)'
    BY <1>0, <2>1, <2>5 DEF Accounted, LeaseInv, table
  <2>6. ASSUME NEW f \in Events
        PROVE  /\ Copies(f)' \in Nat
               /\ Copies(f)' <= failures' + 1
               /\ ~Accounted(f)' => Copies(f)' <= failures'
    <3>1. /\ Copies(f) \in Nat /\ Copies(f) <= failures + 1
          /\ ~Accounted(f) => Copies(f) <= failures
      BY DEF CopiesInv
    <3>2. /\ Copies(f)' \in Nat /\ Copies(f)' <= Copies(f) + 1
          /\ f # e => Copies(f)' = Copies(f)
      BY <1>t, <2>1, <2>2, <3>1, DeliverCopies
    <3>3. failures' = failures
      BY <2>1
    <3>4. CASE f = e
      <4>1. Copies(f) <= failures
        BY <2>3, <3>1, <3>4
      <4> QED
        BY <1>t, <2>4, <3>1, <3>2, <3>3, <3>4, <4>1
    <3>5. CASE f # e
      <4>1. Copies(f)' = Copies(f)
        BY <3>2, <3>5
      <4> QED
        BY <2>5, <3>1, <3>3, <4>1
    <3> QED
      BY <3>4, <3>5
  <2> QED
    BY <1>0, <2>6 DEF CopiesInv
<1>3. ASSUME NEW p \in Publishers, PublishTimesOut(p)
      PROVE  CopiesInv'
  <2>1. PICK e \in todo[p] :
           Deliver(e) /\ UNCHANGED <<table, marked>> /\ failures' = failures + 1
    BY <1>3 DEF PublishTimesOut, Reschedule
  <2>2. e \in Events
    BY <1>0 DEF LeaseInv
  <2>3. ASSUME NEW f \in Events
        PROVE  /\ Copies(f)' \in Nat
               /\ Copies(f)' <= failures' + 1
               /\ ~Accounted(f)' => Copies(f)' <= failures'
    <3>1. /\ Copies(f) \in Nat /\ Copies(f) <= failures + 1
          /\ ~Accounted(f) => Copies(f) <= failures
      BY DEF CopiesInv
    <3>2. Copies(f)' \in Nat /\ Copies(f)' <= Copies(f) + 1
      BY <1>t, <2>1, <2>2, <3>1, DeliverCopies
    <3>3. Accounted(f)' = Accounted(f)
      BY <2>1 DEF Accounted, table
    <3>4. Copies(f)' <= failures' + 1
      BY <1>t, <2>1, <3>1, <3>2
    <3>5. Copies(f) <= failures => Copies(f)' <= failures'
      BY <1>t, <2>1, <3>1, <3>2
    <3> QED
      BY <3>1, <3>2, <3>3, <3>4, <3>5
  <2> QED
    BY <1>0, <2>3 DEF CopiesInv
<1>4. ASSUME NEW p \in Publishers, PublishRefused(p) \/ Rollback(p)
      PROVE  CopiesInv'
  <2>1. UNCHANGED <<published, queue>> /\ failures' = failures + 1
    BY <1>4 DEF PublishRefused, Reschedule, Rollback, table, broker
  <2>2. \A f \in Events : Copies(f)' = Copies(f)
    BY <2>1 DEF Copies
  <2>3. \A f \in Events : Copies(f)' \in Nat /\ Copies(f)' <= failures'
    BY <1>t, <2>1, <2>2 DEF CopiesInv
  <2>4. failures' \in Nat
    BY <1>t, <2>1
  <2> QED
    BY <1>0, <2>3, <2>4 DEF CopiesInv
<1>5. ASSUME NEW p \in Publishers, Commit(p)
      PROVE  CopiesInv'
  <2>1. /\ marked' = [marked EXCEPT ![p] = {}]
        /\ published' = published \cup marked[p]
        /\ UNCHANGED <<queue, failures>>
    BY <1>5 DEF Commit, Release, broker
  <2>2. ASSUME NEW f \in Events, Accounted(f)
        PROVE  Accounted(f)'
    BY <1>0, <2>1, <2>2 DEF Accounted, LeaseInv
  <2>3. \A f \in Events : Copies(f)' = Copies(f)
    BY <2>1 DEF Copies
  <2> QED
    BY <1>0, <2>1, <2>2, <2>3 DEF CopiesInv
<1>6. ASSUME NEW p \in Publishers, ClaimDue(p)
      PROVE  CopiesInv'
  BY <1>1, <1>6 DEF ClaimDue, table, broker
<1>7. ASSUME NEW e \in Events, Record(e) \/ ComeRound(e) \/ WindowEnds(e)
      PROVE  CopiesInv'
  BY <1>1, <1>7 DEF Record, ComeRound, WindowEnds, table, lease, broker
<1>8. CASE UNCHANGED outboxVars
  BY <1>1, <1>8 DEF outboxVars, table, lease, broker
<1> QED
  BY <1>2, <1>3, <1>4, <1>5, <1>6, <1>7, <1>8 DEF OutboxNext, Work, Drained

\* An event reaches the broker once and once more for each failure at most, for any
\* number of publishers: two of them never send the same row, because ClaimDue skips
\* the rows the other has locked.
THEOREM DuplicatesAreFailures == OutboxSpec => []DuplicatesHaveACause
<1>1. OutboxInit => CopiesInv
  <2> SUFFICES ASSUME OutboxInit
               PROVE  CopiesInv
    OBVIOUS
  <2>1. \A e \in Events : {i \in DOMAIN queue : queue[i] = e} = {}
    BY DEF OutboxInit
  <2>2. \A e \in Events : Copies(e) = 0
    BY <2>1, FS_EmptySet DEF Copies
  <2> QED
    BY <2>2, LeaseInit DEF OutboxInit, CopiesInv
<1>2. CopiesInv => DuplicatesHaveACause
  <2> SUFFICES ASSUME CopiesInv, NEW e \in Events
               PROVE  Copies(e) <= 1 + failures
    BY DEF DuplicatesHaveACause, Copies
  <2>1. Copies(e) \in Nat /\ Copies(e) <= failures + 1 /\ failures \in Nat
    BY OutboxAssumption DEF CopiesInv, LeaseInv, OutboxTypeOK
  <2> QED
    BY <2>1
<1> QED
  BY <1>1, <1>2, CopiesStep, PTL DEF OutboxSpec

-----------------------------------------------------------------------------
(* Order.                                                                   *)

\* Among natural numbers there is a smallest.
LEMMA LeastEvent ==
    ASSUME NEW T \in SUBSET Nat, T # {}
    PROVE  \E x \in T : \A y \in T : x <= y
<1> DEFINE R == OpToRel(<, Nat)
<1>1. \E x \in T : \A y \in T : ~(<<y, x>> \in R)
  BY NatLessThanWellFounded, WFMin, Zenon
<1>2. \A x, y \in Nat : x < y => <<x, y>> \in R
  BY Zenon DEF OpToRel
<1>3. PICK x \in T : \A y \in T : ~(y < x)
  BY <1>1, <1>2, Zenon
<1> QED BY <1>3

\* What a batch handles next is the event that was recorded first.
LEMMA FirstIsFirst ==
    ASSUME NEW es \in SUBSET Events, es # {}
    PROVE  First(es) \in es /\ \A f \in es : First(es) <= f
<1>1. es \in SUBSET Nat
  BY OutboxAssumption DEF Events
<1>2. \E e \in es : \A f \in es : e <= f
  BY <1>1, LeastEvent
<1> QED BY <1>2 DEF First

\* Facts of one aggregate are recorded in order, and what is put off has had its error.
OrderInv ==
    /\ DeliveryInv
    /\ \A e, f \in Events : f \in recorded /\ e < f /\ Aggregate[e] = Aggregate[f] => e \in recorded
    /\ later \subseteq erred
    /\ \A p \in Publishers : moved[p] \subseteq erred

\* Every step records in order, and puts off only after an error.
LEMMA OrderStep == OrderInv /\ [OutboxNext]_outboxVars => OrderInv'
<1> SUFFICES ASSUME OrderInv, [OutboxNext]_outboxVars
             PROVE  OrderInv'
  OBVIOUS
<1>0. DeliveryInv' /\ LeaseInv
  BY DeliveryStep DEF OrderInv, DeliveryInv
<1>1. ASSUME UNCHANGED <<recorded, moved, erred>>, later' \subseteq later
      PROVE  OrderInv'
  BY <1>0, <1>1 DEF OrderInv
<1>2. ASSUME NEW e \in Events, Record(e)
      PROVE  OrderInv'
  <2>1. /\ \A f \in Events : f < e /\ Aggregate[f] = Aggregate[e] => f \in recorded
        /\ recorded' = recorded \cup {e} /\ UNCHANGED <<later, moved, erred>>
    BY <1>2 DEF Record, lease
  <2> QED BY <1>0, <2>1 DEF OrderInv
<1>3. ASSUME NEW p \in Publishers, PublishRefused(p) \/ PublishTimesOut(p)
      PROVE  OrderInv'
  <2>1. PICK e \in todo[p] : /\ moved' = [moved EXCEPT ![p] = @ \cup {e}]
                             /\ erred' = erred \cup {e} /\ UNCHANGED <<recorded, later>>
    BY <1>3 DEF PublishRefused, PublishTimesOut, Reschedule, table
  <2>2. \A q \in Publishers : moved'[q] \subseteq moved[q] \cup {e}
    BY <1>0, <2>1 DEF LeaseInv
  <2> QED BY <1>0, <2>1, <2>2 DEF OrderInv
<1>4. ASSUME NEW p \in Publishers, Commit(p) \/ Rollback(p)
      PROVE  OrderInv'
  <2>1. /\ moved' = [moved EXCEPT ![p] = {}] /\ later' \subseteq later \cup moved[p]
        /\ UNCHANGED <<recorded, erred>>
    BY <1>4 DEF Commit, Rollback, Release, table
  <2>2. \A q \in Publishers : moved'[q] \subseteq moved[q]
    BY <1>0, <2>1 DEF LeaseInv
  <2> QED BY <1>0, <2>1, <2>2 DEF OrderInv
<1>5. ASSUME NEW p \in Publishers, ClaimDue(p) \/ PublishAccepted(p)
      PROVE  OrderInv'
  BY <1>1, <1>5 DEF ClaimDue, PublishAccepted, table
<1>6. ASSUME NEW e \in Events, ComeRound(e) \/ WindowEnds(e)
      PROVE  OrderInv'
  BY <1>1, <1>6 DEF ComeRound, WindowEnds, table, lease
<1>7. CASE UNCHANGED outboxVars
  BY <1>1, <1>7 DEF outboxVars, table, lease
<1> QED
  BY <1>2, <1>3, <1>4, <1>5, <1>6, <1>7 DEF OutboxNext, Work, Drained

\* ORDER BY seq LIMIT: whoever is claimed, everything due before it is claimed too.
LEMMA ClaimsFromTheFront ==
    ASSUME LeaseInv, NEW p \in Publishers, NEW f \in Claimable(p), NEW e \in Events, e < f,
           e \in recorded \ published, e \notin later, \A q \in Publishers : e \notin Held(q)
    PROVE  e \in Claimable(p)
<1> DEFINE due == ((recorded \ published) \ later) \ UNION {Held(q) : q \in Publishers}
           Before(x) == {g \in due : g < x}
<1>1. e \in due /\ f \in due /\ Cardinality(Before(f)) < BatchSize
  BY DEF Claimable
<1>2. due \subseteq Events
  BY DEF LeaseInv, OutboxTypeOK
<1>3. IsFiniteSet(Events) /\ Events \subseteq Nat
  BY OutboxAssumption, FS_Interval DEF Events
<1>4. IsFiniteSet(Before(f)) /\ Before(e) \subseteq Before(f)
  <2>1. Before(f) \subseteq Events
    BY <1>2
  <2>2. ASSUME NEW g \in due, g < e PROVE g < f
    <3>1. g \in Nat /\ e \in Nat /\ f \in Nat
      BY <1>1, <1>2, <1>3
    <3> QED BY <2>2, <3>1
  <2>3. IsFiniteSet(Before(f))
    BY <1>3, <2>1, FS_Subset
  <2> QED BY <2>2, <2>3
<1>5. IsFiniteSet(Before(e)) /\ Cardinality(Before(e)) <= Cardinality(Before(f))
  BY <1>4, FS_Subset
<1>6. Cardinality(Before(e)) \in Nat /\ Cardinality(Before(f)) \in Nat
  BY <1>4, <1>5, FS_CardinalityType
<1>7. Cardinality(Before(e)) < BatchSize
  BY <1>1, <1>5, <1>6, OutboxAssumption
<1> QED BY <1>1, <1>7 DEF Claimable

\* A claim gets hold of an event no sooner than of an earlier one that is due.
LEMMA ClaimInTurn ==
    ASSUME OrderInv, NEW p \in Publishers, NEW e \in Events, NEW f \in Events, e < f,
           Aggregate[e] = Aggregate[f], e \notin Delivered \cup erred,
           ClaimDue(p), f \in Held(p)'
    PROVE  e \in Held(p)' \/ \E q \in Publishers \ {p} : e \in Held(q)
<1>0. LeaseInv /\ todo \in [Publishers -> SUBSET Events]
  BY DEF OrderInv, DeliveryInv, LeaseInv
<1>1. /\ Held(p) = {} /\ todo' = [todo EXCEPT ![p] = Claimable(p)] /\ UNCHANGED <<marked, moved>>
  BY DEF ClaimDue
<1>2. Held(p)' = Claimable(p)
  BY <1>0, <1>1 DEF Held
<1>3. f \in recorded
  BY <1>0, <1>2 DEF Claimable
<1>4. e \in recorded \ published /\ e \notin later
  BY <1>3 DEF OrderInv, DeliveryInv
<1>5. CASE \E q \in Publishers : e \in Held(q)
  BY <1>1, <1>5
<1>6. CASE \A q \in Publishers : e \notin Held(q)
  <2>1. e \in Claimable(p)
    BY <1>0, <1>2, <1>4, <1>6, ClaimsFromTheFront
  <2> QED BY <1>2, <2>1
<1> QED BY <1>5, <1>6

\* Within a batch the broker gets the events by seq.
LEMMA DeliveredInTurn ==
    ASSUME OrderInv, NEW p \in Publishers, NEW e \in Events, NEW f \in Events, e < f,
           e \notin Delivered \cup erred,
           NEW q \in Publishers, NEW g \in todo[q], Handled(q, g), Deliver(g),
           f \in Delivered' \ Delivered, f \in todo[p]
    PROVE  e \notin Held(p)
<1>0. /\ LeaseInv /\ OutboxTypeOK /\ DeliveryInv
      /\ todo[q] \in SUBSET Events /\ queue \in Seq(Events) /\ window \subseteq Delivered
  BY DEF OrderInv, DeliveryInv, LeaseInv, OutboxTypeOK
<1>1. g = f
  <2>1. Delivered' = Delivered \cup {g}
    BY <1>0, DeliverAdds
  <2> QED BY <2>1
<1>2. p = q
  BY <1>0, <1>1 DEF OutboxTypeOK, Held
<1>3. g = First(todo[q]) /\ todo[q] # {}
  BY DEF Handled
<1>4. \A x \in todo[q] : g <= x
  BY <1>0, <1>3, FirstIsFirst
<1>5. e \notin todo[p]
  <2>1. e \in Nat /\ f \in Nat
    BY OutboxAssumption DEF Events
  <2> QED BY <1>1, <1>2, <1>4, <2>1
<1>6. e \notin marked[p] /\ e \notin moved[p]
  BY DEF OrderInv, DeliveryInv
<1> QED BY <1>5, <1>6 DEF Held

\* What a step gets hold of, and what it delivers.
LEMMA StepInTurn == OrderInv /\ [OutboxNext]_outboxVars => [InTurn]_outboxVars
<1> SUFFICES ASSUME OrderInv, OutboxNext
             PROVE  InTurn
  OBVIOUS
<1>0. LeaseInv
  BY DEF OrderInv, DeliveryInv
<1>1. ASSUME UNCHANGED <<lease, queue>>
      PROVE  InTurn
  BY <1>1 DEF InTurn, Held, Delivered, lease
<1>2. ASSUME NEW q \in Publishers, ClaimDue(q)
      PROVE  InTurn
  <2>1. Delivered' = Delivered
    BY <1>2 DEF ClaimDue, broker, Delivered
  <2>2. \A p \in Publishers : p # q => Held(p)' = Held(p)
    BY <1>0, <1>2 DEF ClaimDue, LeaseInv, Held
  <2>3. ASSUME NEW e \in Events, NEW f \in Events, NEW p \in Publishers, e < f,
               Aggregate[e] = Aggregate[f], e \notin Delivered \cup erred, f \in Held(p)' \ Held(p)
        PROVE  e \in Held(p)' \/ \E r \in Publishers \ {p} : e \in Held(r)
    <3>1. p = q
      BY <2>2, <2>3
    <3>2. ClaimDue(p)
      BY <1>2, <3>1
    <3> QED BY <2>3, <3>2, ClaimInTurn
  <2> QED BY <2>1, <2>3 DEF InTurn
<1>3. ASSUME NEW q \in Publishers, PublishAccepted(q) \/ PublishTimesOut(q)
      PROVE  InTurn
  <2>1. PICK g \in todo[q] : /\ Handled(q, g) /\ Deliver(g)
                             /\ \/ marked' = [marked EXCEPT ![q] = @ \cup {g}] /\ UNCHANGED moved
                                \/ moved' = [moved EXCEPT ![q] = @ \cup {g}] /\ UNCHANGED marked
    BY <1>3 DEF PublishAccepted, PublishTimesOut, Reschedule
  <2>2. todo' = [todo EXCEPT ![q] = @ \ {g}]
    BY <2>1 DEF Handled
  <2>3. \A p \in Publishers : Held(p)' = Held(p)
    BY <1>0, <2>1, <2>2, LeaseMoves
  <2>4. ASSUME NEW e \in Events, NEW f \in Events, NEW p \in Publishers, e < f,
               e \notin Delivered \cup erred, f \in Delivered' \ Delivered, f \in todo[p]
        PROVE  e \notin Held(p)
    BY <2>1, <2>4, DeliveredInTurn
  <2> QED BY <2>3, <2>4 DEF InTurn
<1>4. ASSUME NEW q \in Publishers, PublishRefused(q)
      PROVE  InTurn
  <2>1. PICK g \in todo[q] : /\ Handled(q, g) /\ UNCHANGED <<broker, marked>>
                             /\ moved' = [moved EXCEPT ![q] = @ \cup {g}]
    BY <1>4 DEF PublishRefused, Reschedule
  <2>2. todo' = [todo EXCEPT ![q] = @ \ {g}] /\ Delivered' = Delivered
    BY <2>1 DEF Handled, broker, Delivered
  <2>3. \A p \in Publishers : Held(p)' = Held(p)
    BY <1>0, <2>1, <2>2, LeaseMoves
  <2> QED BY <2>2, <2>3 DEF InTurn
<1>5. ASSUME NEW q \in Publishers, Commit(q) \/ Rollback(q)
      PROVE  InTurn
  <2>1. Release(q) /\ Delivered' = Delivered
    BY <1>5 DEF Commit, Rollback, broker, Delivered
  <2>2. \A p \in Publishers : Held(p)' \subseteq Held(p)
    BY <1>0, <2>1, LeaseReleased
  <2> QED BY <2>1, <2>2 DEF InTurn
<1>6. ASSUME NEW e \in Events, Record(e) \/ ComeRound(e) \/ WindowEnds(e)
      PROVE  InTurn
  BY <1>1, <1>6 DEF Record, ComeRound, WindowEnds, broker
<1>7. CASE Drained
  BY <1>1, <1>7 DEF Drained, outboxVars, broker
<1> QED
  BY <1>2, <1>3, <1>4, <1>5, <1>6, <1>7 DEF OutboxNext, Work

\* An event gets ahead of an earlier one of its aggregate only after an error of the earlier
\* one, or when another publisher holds that: for any number of publishers, each batch is
\* claimed from the front (ClaimDue's ORDER BY seq) and sent in order (RunOnce).
THEOREM OvertakingAlwaysHasACause == OutboxSpec => OvertakingHasACause
<1>1. OutboxInit => OrderInv
  BY LeaseInit DEF OutboxInit, DeliveryInv, OrderInv
<1> QED
  BY <1>1, OrderStep, StepInTurn, PTL DEF OutboxSpec, OvertakingHasACause
=============================================================================
