---------------------------- MODULE MCEngineThread ----------------------------
(* EngineThread, and the refinement of its matching engine, for TLC. *)
EXTENDS EngineThread, MatchingRefinement, TLC

Symmetry == Permutations(Users) \cup Permutations(OrderIds)
=============================================================================
