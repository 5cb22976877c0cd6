--------------------------- MODULE MCClaimManager ---------------------------
(***************************************************************************)
(* Instances of ClaimManager for TLC.  The dispute window is one or two    *)
(* blocks, a score is either below or above every threshold, and one       *)
(* portfolio covers the largest claim.                                     *)
(***************************************************************************)
EXTENDS ClaimManager, TLC

CONSTANTS k1, k2, f1, c1

OneTerm == {[coverageLimit |-> 2, inceptionTime |-> 1, expiryTime |-> 3]}

ClaimSymmetry == Permutations(Claims)
=============================================================================
