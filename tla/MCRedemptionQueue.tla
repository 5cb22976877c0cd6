------------------------- MODULE MCRedemptionQueue -------------------------
(***************************************************************************)
(* Instances of RedemptionQueue for TLC: a few shares per LP, so that a    *)
(* pro-rata split rarely divides, and prices that leave a remainder too.   *)
(***************************************************************************)
EXTENDS RedemptionQueue, TLC

CONSTANTS lp1, lp2, lp3

LPSymmetry == Permutations(LPs)
=============================================================================
