-------------------------- MODULE MCCircuitBreaker --------------------------
(* The TLC run of CircuitBreaker: its constants are all given in the .cfg. *)
EXTENDS CircuitBreaker
=============================================================================
