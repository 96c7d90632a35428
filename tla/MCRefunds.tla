------------------------------ MODULE MCRefunds ------------------------------
(***************************************************************************)
(* Instances of Refunds for TLC: a payment of two units.                   *)
(***************************************************************************)
EXTENDS Refunds, TLC

CONSTANTS k1, k2, h1, h2

RefundSymmetry == Permutations(Handlers) \cup Permutations(Keys)
=============================================================================
