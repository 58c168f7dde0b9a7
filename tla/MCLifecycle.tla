---------------------------- MODULE MCLifecycle ----------------------------
(* One instance told to stop, for TLC. *)
EXTENDS Lifecycle
=============================================================================
