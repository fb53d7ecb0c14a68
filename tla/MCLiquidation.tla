----------------------------- MODULE MCLiquidation -----------------------------
(* Liquidation, for TLC. *)
EXTENDS Liquidation, TLC

Symmetry == Permutations(Users)
=============================================================================
