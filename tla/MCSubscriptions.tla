--------------------------- MODULE MCSubscriptions ---------------------------
(* Subscriptions, for TLC. *)
EXTENDS Subscriptions, TLC

Symmetry == Permutations(Sockets) \cup Permutations(Users) \cup Permutations(Publishers)
=============================================================================
