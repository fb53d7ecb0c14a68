----------------------------- MODULE MCStatistics -----------------------------
(* Statistics, and with it OrderFlow, for TLC. *)
EXTENDS Statistics, TLC

Symmetry == Permutations(Users)
=============================================================================
