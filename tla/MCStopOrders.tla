----------------------------- MODULE MCStopOrders -----------------------------
(* StopOrders, for TLC. *)
EXTENDS StopOrders

Symmetry == Permutations(Users) \cup Permutations(StopIds)
=============================================================================
