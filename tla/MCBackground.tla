---------------------------- MODULE MCBackground ----------------------------
(* The work behind the requests, for TLC: the outbox publisher, the wait of a   *)
(* parked reversal and the life of an instance.  The three share no state, so a *)
(* behaviour is one of any one of them, with the others at rest.                *)
EXTENDS OutboxPublisher, ReferenceWait, Lifecycle

VARIABLE part

\* Two events of one wallet around an event of another.
Interleaved == <<"w1", "w2", "w1">>

Init ==
    /\ part \in {"outbox", "wait", "lifecycle"}
    /\ OutboxInit /\ WaitInit /\ LifeInit

Outbox == part = "outbox" /\ OutboxNext /\ UNCHANGED <<waitVars, lifeVars>>
Wait   == part = "wait" /\ WaitNext /\ UNCHANGED <<outboxVars, lifeVars>>
Life   == part = "lifecycle" /\ LifeNext /\ UNCHANGED <<outboxVars, waitVars>>

Next == (Outbox \/ Wait \/ Life) /\ part' = part

vars == <<part, outboxVars, waitVars, lifeVars>>

\* A part at rest enables nothing that is fair.
Spec == Init /\ [][Next]_vars /\ OutboxFairness

\* The types of the wait and of the instance: attempts within the policy, messages
\* only in a busy consumer's hand.
BackgroundTypeOK == WaitTypeOK /\ LifeTypeOK
=============================================================================
