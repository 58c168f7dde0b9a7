------------------------------ MODULE MCOutbox ------------------------------
(* Instances of the outbox publisher for TLC. *)
EXTENDS OutboxPublisher

\* Two events of one wallet around an event of another.
Interleaved == <<"w1", "w2", "w1">>
=============================================================================
