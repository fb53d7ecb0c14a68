--------------------------- MODULE MCCircuitBreakers ---------------------------
(* CircuitBreakers, for TLC. *)
EXTENDS CircuitBreakers, TLC

Symmetry == Permutations(Instruments)
=============================================================================
