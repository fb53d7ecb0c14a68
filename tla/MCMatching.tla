------------------------------ MODULE MCMatching ------------------------------
(* MatchingEngine and its refinement, for TLC. *)
EXTENDS MatchingRefinement, TLC

Symmetry == Permutations(OrderIds) \cup Permutations(Users)
=============================================================================
