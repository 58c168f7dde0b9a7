------------------------------ MODULE MCEdges ------------------------------
(* What surrounds the core, for TLC: the signing keys, who may see what, the    *)
(* reads beside the movements, the arithmetic of money and the outbox.  The     *)
(* five share no state, so a behaviour is one of any one of them, with the      *)
(* others at rest.                                                              *)
EXTENDS KeySet, Isolation, Reads, MoneyArithmetic, OutboxPublisher

VARIABLE part

\* A wallet opened with money and one opened at zero.
TwoBooks == [w1 |-> 1, w2 |-> 0]

\* Two events of one wallet around an event of another.
Interleaved == <<"w1", "w2", "w1">>

Init ==
    /\ part \in {"keys", "isolation", "reads", "money", "outbox"}
    /\ KeyInit /\ IsolationInit /\ ReadsInit /\ MoneyInit /\ OutboxInit

Keys ==
    part = "keys" /\ KeyNext /\ UNCHANGED <<ops, readsVars, moneyVars, outboxVars>>
Access ==
    part = "isolation" /\ IsolationNext /\ UNCHANGED <<keyVars, readsVars, moneyVars, outboxVars>>
Reading ==
    part = "reads" /\ ReadsNext /\ UNCHANGED <<keyVars, ops, moneyVars, outboxVars>>
Money ==
    part = "money" /\ MoneyNext /\ UNCHANGED <<keyVars, ops, readsVars, outboxVars>>
Outbox ==
    part = "outbox" /\ OutboxNext /\ UNCHANGED <<keyVars, ops, readsVars, moneyVars>>

Next == (Keys \/ Access \/ Reading \/ Money \/ Outbox) /\ part' = part

vars == <<part, keyVars, ops, readsVars, moneyVars, outboxVars>>

Spec == Init /\ [][Next]_vars

\* The types of the parts that have one: leases, the mutex's queue and the sequence
\* included.
EdgesTypeOK == OutboxTypeOK /\ KeyTypeOK /\ ReadsTypeOK
=============================================================================
