----------------------------- MODULE MCOrderBook -----------------------------
(* OrderBook and its refinement, for TLC. *)
EXTENDS OrderBookRefinement, TLC

Symmetry == Permutations(OrderIds) \cup Permutations(Users)
=============================================================================
