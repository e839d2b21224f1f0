-------------------------- MODULE MCCircuitBreaker --------------------------
(***************************************************************************)
(* A small instance of CircuitBreaker for TLC.                             *)
(***************************************************************************)
EXTENDS CircuitBreaker

CONSTANTS p1, p2, p3

ThreeCallers == {p1, p2, p3}
=============================================================================
