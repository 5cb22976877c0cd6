---------------------------- MODULE MCLendingMarket ----------------------------
(***************************************************************************)
(* Instances of LendingMarket for TLC.  Amounts are a few units of the     *)
(* loan token, so that every conversion rounds, and VIRTUAL_SHARES is small *)
(* for the same reason, but in lending_last_repay, which has the code's own *)
(* million.  A share of the vault is worth 2 or 1/2.                       *)
(***************************************************************************)
EXTENDS LendingMarket, TLC

CONSTANTS lender, b1, b2

BorrowerSymmetry == Permutations({b1, b2})

Dear  == [nav |-> 4, supply |-> 2]
Cheap == [nav |-> 1, supply |-> 2]
AnyPrice == {Dear, Cheap}

Ltv(lltv, liq, incentive) == [lltvBps |-> lltv, liqLtvBps |-> liq, liqIncentiveBps |-> incentive]
LooseOnly == {Ltv(7, 8, 5)}
LooseOrTight == {Ltv(7, 8, 5), Ltv(4, 5, 5)}
Uncapped == [supply |-> 0, borrow |-> 0]
NoCaps   == {Uncapped}
=============================================================================
