-------------------------- MODULE MCInsuranceVault --------------------------
(***************************************************************************)
(* Instances of InsuranceVault for TLC.  Fees are one tenth of the free    *)
(* assets per year and a year is one block, the largest fee the            *)
(* constructor accepts, so that fees reach one unit within a run.          *)
(***************************************************************************)
EXTENDS InsuranceVault, TLC

CONSTANTS lp1, lp2, f1, f2, p1, p2, c1

YearOne == {[coverageLimit |-> 10, inceptionTime |-> 1, expiryTime |-> 3]}

LPSymmetry     == Permutations(LPs)
PolicySymmetry == Permutations(Policies)
=============================================================================
