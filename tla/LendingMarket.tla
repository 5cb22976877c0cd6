----------------------------- MODULE LendingMarket -----------------------------
(***************************************************************************)
(* LendingMarket.sol: lenders supply USDC for supply shares, borrowers post *)
(* vault shares and borrow against their value, interest accrues on both   *)
(* books, liquidators take the collateral of unhealthy positions, and what *)
(* that collateral does not cover is written off the suppliers' book.      *)
(*                                                                         *)
(* Every conversion between assets and shares rounds.  The oracle is the   *)
(* environment: any of Prices, or a feed that is paused or stale.  The     *)
(* compliance gate of supply, borrow, collateral and liquidation may be    *)
(* open or shut for an account at any time; it is the caller's absence.    *)
(***************************************************************************)
EXTENDS BlockClock, FiniteSets

CONSTANTS Accounts, feeRecipient,
          Lenders, Borrowers,  \* the accounts that use either side; any may use both
          Amounts,             \* the amounts of a call
          MaxSupplied,         \* bound: supplied assets a supply may reach
          MaxShares,           \* bound: shares of a book a supply or a loan may reach
          MaxCollateral,       \* bound: collateral shares a deposit may reach
          Prices,              \* attestations: NAV of the vault and its shares
          RiskParams, Caps, ProtocolFees,   \* what governance may set
          baseRate, slope, WAD,             \* interest per block, in WAD
          MAX_BPS, VIRTUAL_SHARES, VIRTUAL_ASSETS,
          None

Price == [nav : Nat, supply : Nat \ {0}]
Risk  == {r \in [lltvBps : Nat, liqLtvBps : Nat, liqIncentiveBps : Nat] :
            r.lltvBps <= r.liqLtvBps /\ r.liqLtvBps < MAX_BPS /\ r.liqIncentiveBps <= MAX_BPS}
Cap   == [supply : Nat, borrow : Nat]      \* 0 is no cap

ASSUME MarketAssumption ==
    /\ IsFiniteSet(Accounts) /\ feeRecipient \in Accounts
    /\ Lenders \subseteq Accounts /\ Borrowers \subseteq Accounts
    /\ Amounts \subseteq Nat \ {0}
    /\ MaxSupplied \in Nat /\ MaxShares \in Nat /\ MaxCollateral \in Nat
    /\ Prices \subseteq Price /\ None \notin Price
    /\ MAX_BPS \in Nat \ {0} /\ VIRTUAL_SHARES \in Nat \ {0} /\ VIRTUAL_ASSETS \in Nat \ {0}
    /\ RiskParams \subseteq Risk /\ Caps \subseteq Cap /\ ProtocolFees \subseteq 0..MAX_BPS
    /\ baseRate \in Nat /\ slope \in Nat /\ WAD \in Nat \ {0}

VARIABLES
    totalSupplyAssets, totalSupplyShares, supplyShares,   \* supply book
    totalBorrowAssets, totalBorrowShares, borrowShares,   \* borrow book
    collateralOf, totalCollateral,
    lastAccrued,
    paused,
    risk, caps, protocolFeeBps,
    cash,                \* the market's balance of the loan token
    price                \* what the oracle attests, None when it reverts

supplyBook == <<totalSupplyAssets, totalSupplyShares, supplyShares>>
borrowBook == <<totalBorrowAssets, totalBorrowShares, borrowShares>>
collateral == <<collateralOf, totalCollateral>>
config     == <<paused, risk, caps, protocolFeeBps>>
vars == <<blockTime, supplyBook, borrowBook, collateral, lastAccrued, config, cash, price>>

LendingTypeOK ==
    /\ blockTime \in BlockTimes /\ lastAccrued \in 1..blockTime
    /\ totalSupplyAssets \in Nat /\ totalSupplyShares \in Nat
    /\ supplyShares \in [Accounts -> Nat]
    /\ totalBorrowAssets \in Nat /\ totalBorrowShares \in Nat
    /\ borrowShares \in [Accounts -> Nat]
    /\ collateralOf \in [Accounts -> Nat] /\ totalCollateral \in Nat
    /\ paused \in BOOLEAN /\ risk \in Risk /\ caps \in Cap /\ protocolFeeBps \in 0..MAX_BPS
    /\ cash \in Nat
    /\ price \in Price \cup {None}

Init ==
    /\ FirstBlock
    /\ totalSupplyAssets = 0 /\ totalSupplyShares = 0
    /\ supplyShares = [a \in Accounts |-> 0]
    /\ totalBorrowAssets = 0 /\ totalBorrowShares = 0
    /\ borrowShares = [a \in Accounts |-> 0]
    /\ collateralOf = [a \in Accounts |-> 0] /\ totalCollateral = 0
    /\ lastAccrued = blockTime
    /\ paused = FALSE
    /\ risk \in RiskParams /\ caps \in Caps /\ protocolFeeBps \in ProtocolFees
    /\ cash = 0
    /\ price \in Prices

-----------------------------------------------------------------------------
(* Shares and assets *)

MulDiv(x, y, z)   == (x * y) \div z
MulDivUp(x, y, z) == (x * y + z - 1) \div z

\* _accrue(): the interest of the blocks since the last call, owed by the
\* borrowers to the lenders, and the shares that carry the protocol's part of it.
Interest ==
    IF totalBorrowAssets = 0 \/ totalSupplyAssets = 0 THEN 0
    ELSE LET util == MulDiv(totalBorrowAssets, WAD, totalSupplyAssets)
             rate == baseRate + MulDiv(slope, util, WAD)
         IN  MulDiv(totalBorrowAssets, rate * (blockTime - lastAccrued), WAD)

SupplyAssets == totalSupplyAssets + Interest
BorrowAssets == totalBorrowAssets + Interest

FeeShares ==
    LET feeAssets == MulDiv(Interest, protocolFeeBps, MAX_BPS)
    IN  MulDiv(feeAssets, totalSupplyShares + VIRTUAL_SHARES, SupplyAssets - feeAssets + VIRTUAL_ASSETS)

SharesSupplied  == totalSupplyShares + FeeShares
SharesOf == [supplyShares EXCEPT ![feeRecipient] = @ + FeeShares]

\* What assets and supply shares exchange for after accrual.
ToSupplyShares(assets)    == MulDiv(assets, SharesSupplied + VIRTUAL_SHARES, SupplyAssets + VIRTUAL_ASSETS)
ToSupplySharesUp(assets)  == MulDivUp(assets, SharesSupplied + VIRTUAL_SHARES, SupplyAssets + VIRTUAL_ASSETS)

ToBorrowShares(assets)   == MulDiv(assets, totalBorrowShares + VIRTUAL_SHARES, BorrowAssets + VIRTUAL_ASSETS)
ToBorrowSharesUp(assets) == MulDivUp(assets, totalBorrowShares + VIRTUAL_SHARES, BorrowAssets + VIRTUAL_ASSETS)

\* _borrowAssets(): the debt of some borrow shares on a given book, rounded up.
DebtOn(shares, totalAssets, totalShares) ==
    IF shares = 0 THEN 0
    ELSE MulDivUp(shares, totalAssets + VIRTUAL_ASSETS, totalShares + VIRTUAL_SHARES)

Debt(b) == DebtOn(borrowShares[b], BorrowAssets, totalBorrowShares)

\* priceCollateralUSDC(): rounded down; a call that needs it reverts without it.
Value(shares) == MulDiv(shares, price.nav, price.supply)

\* _isHealthy()
WithinLtv(debt, shares, ltvBps) ==
    debt = 0 \/ (price # None /\ debt <= MulDiv(Value(shares), ltvBps, MAX_BPS))

-----------------------------------------------------------------------------
(* The books after an accrual, for calls that do nothing else to them *)

AccrueSupply ==
    /\ totalSupplyAssets' = SupplyAssets
    /\ totalSupplyShares' = SharesSupplied
    /\ supplyShares' = SharesOf

AccrueBorrow ==
    /\ totalBorrowAssets' = BorrowAssets
    /\ UNCHANGED <<totalBorrowShares, borrowShares>>

Accrue ==
    /\ lastAccrued' = blockTime
    /\ AccrueSupply /\ AccrueBorrow
    /\ UNCHANGED <<blockTime, collateral, config, cash, price>>

-----------------------------------------------------------------------------
(* Lenders *)

Supply(a, assets) ==
    LET shares == ToSupplyShares(assets) IN
    /\ ~paused
    /\ caps.supply # 0 => SupplyAssets + assets <= caps.supply
    /\ SupplyAssets + assets <= MaxSupplied /\ SharesSupplied + shares <= MaxShares
    /\ totalSupplyAssets' = SupplyAssets + assets
    /\ totalSupplyShares' = SharesSupplied + shares
    /\ supplyShares' = [SharesOf EXCEPT ![a] = @ + shares]
    /\ cash' = cash + assets
    /\ lastAccrued' = blockTime
    /\ AccrueBorrow
    /\ UNCHANGED <<blockTime, collateral, config, price>>

WithdrawFor(a, assets, shares) ==
    /\ shares <= SharesOf[a] /\ shares <= SharesSupplied
    /\ assets <= SupplyAssets - BorrowAssets
    /\ totalSupplyAssets' = SupplyAssets - assets
    /\ totalSupplyShares' = SharesSupplied - shares
    /\ supplyShares' = [SharesOf EXCEPT ![a] = @ - shares]
    /\ cash' = cash - assets
    /\ lastAccrued' = blockTime
    /\ AccrueBorrow
    /\ UNCHANGED <<blockTime, collateral, config, price>>

\* Mutant: the shares burnt are rounded down.
WithdrawRoundedDown(a, assets) == WithdrawFor(a, assets, ToSupplyShares(assets))

Withdraw(a, assets) == WithdrawFor(a, assets, ToSupplySharesUp(assets))

-----------------------------------------------------------------------------
(* Borrowers *)

\* The one call on a position that does not accrue.
DepositCollateral(b, shares) ==
    /\ ~paused
    /\ collateralOf[b] + shares <= MaxCollateral
    /\ collateralOf' = [collateralOf EXCEPT ![b] = @ + shares]
    /\ totalCollateral' = totalCollateral + shares
    /\ UNCHANGED <<blockTime, supplyBook, borrowBook, lastAccrued, config, cash, price>>

WithdrawCollateral(b, shares) ==
    /\ shares <= collateralOf[b] /\ shares <= totalCollateral
    /\ WithinLtv(Debt(b), collateralOf[b] - shares, risk.lltvBps)
    /\ collateralOf' = [collateralOf EXCEPT ![b] = @ - shares]
    /\ totalCollateral' = totalCollateral - shares
    /\ lastAccrued' = blockTime
    /\ AccrueSupply /\ AccrueBorrow
    /\ UNCHANGED <<blockTime, config, cash, price>>

\* Mutant: the liquidity is not checked.
BorrowUnfunded(b, assets) ==
    LET shares == ToBorrowSharesUp(assets)
        debt   == DebtOn(borrowShares[b] + shares, BorrowAssets + assets, totalBorrowShares + shares)
    IN
    /\ ~paused
    /\ totalBorrowShares + shares <= MaxShares
    /\ WithinLtv(debt, collateralOf[b], risk.lltvBps)
    /\ totalBorrowAssets' = BorrowAssets + assets
    /\ totalBorrowShares' = totalBorrowShares + shares
    /\ borrowShares' = [borrowShares EXCEPT ![b] = @ + shares]
    /\ cash' = cash - assets
    /\ lastAccrued' = blockTime
    /\ AccrueSupply
    /\ UNCHANGED <<blockTime, collateral, config, price>>

Borrow(b, assets) ==
    LET shares == ToBorrowSharesUp(assets)
        debt   == DebtOn(borrowShares[b] + shares, BorrowAssets + assets, totalBorrowShares + shares)
    IN
    /\ ~paused
    /\ caps.borrow # 0 => BorrowAssets + assets <= caps.borrow
    /\ BorrowAssets + assets <= SupplyAssets
    /\ totalBorrowShares + shares <= MaxShares
    /\ WithinLtv(debt, collateralOf[b], risk.lltvBps)
    /\ totalBorrowAssets' = BorrowAssets + assets
    /\ totalBorrowShares' = totalBorrowShares + shares
    /\ borrowShares' = [borrowShares EXCEPT ![b] = @ + shares]
    /\ cash' = cash - assets
    /\ lastAccrued' = blockTime
    /\ AccrueSupply
    /\ UNCHANGED <<blockTime, collateral, config, price>>

\* The subtractions from the borrow book are checked: they revert on underflow.
CanSettle(b, shares, assets) ==
    /\ shares <= borrowShares[b] /\ shares <= totalBorrowShares
    /\ assets <= BorrowAssets

\* A repayment of the whole debt, or more, burns all the shares.
Repay(b, assets) ==
    LET full   == assets >= Debt(b)
        pay    == IF full THEN Debt(b) ELSE assets
        shares == IF full THEN borrowShares[b] ELSE ToBorrowShares(assets)
    IN
    /\ Debt(b) # 0
    /\ CanSettle(b, shares, pay)
    /\ totalBorrowAssets' = BorrowAssets - pay
    /\ totalBorrowShares' = totalBorrowShares - shares
    /\ borrowShares' = [borrowShares EXCEPT ![b] = @ - shares]
    /\ cash' = cash + pay
    /\ lastAccrued' = blockTime
    /\ AccrueSupply
    /\ UNCHANGED <<blockTime, collateral, config, price>>

-----------------------------------------------------------------------------
(* Liquidation *)

\* What a liquidator that offers `assets' repays and seizes: at the incentive's
\* discount, and at most the whole collateral for what that backs.
Terms(b, assets) ==
    LET offered == IF assets > Debt(b) THEN Debt(b) ELSE assets
        worth   == Value(collateralOf[b])
        wanted  == MulDiv(collateralOf[b],
                          MulDiv(offered, MAX_BPS + risk.liqIncentiveBps, MAX_BPS), worth)
        backed  == MulDiv(worth, MAX_BPS, MAX_BPS + risk.liqIncentiveBps)
    IN  IF wanted > collateralOf[b]
        THEN [seized |-> collateralOf[b], repaid |-> IF backed > Debt(b) THEN Debt(b) ELSE backed]
        ELSE [seized |-> wanted, repaid |-> offered]

SettledShares(b, repaid) ==
    IF repaid = Debt(b) THEN borrowShares[b] ELSE ToBorrowShares(repaid)

\* The debt that stays when the collateral is gone: borrow shares, and what they owe.
ResidualShares(b, repaid, seized) ==
    IF seized = collateralOf[b] THEN borrowShares[b] - SettledShares(b, repaid) ELSE 0

BadDebt(b, repaid, seized) ==
    DebtOn(ResidualShares(b, repaid, seized), BorrowAssets - repaid,
           totalBorrowShares - SettledShares(b, repaid))

\* Mutants: the bad debt stays on the suppliers' book; or on the borrower's.
WriteOffBorrowers(b, repaid, seized) ==
    LET settled  == SettledShares(b, repaid)
        residual == ResidualShares(b, repaid, seized)
        badDebt  == BadDebt(b, repaid, seized)
    IN
    /\ CanSettle(b, settled, repaid)
    /\ CanSettle(b, settled + residual, repaid + badDebt)
    /\ totalBorrowAssets' = BorrowAssets - repaid - badDebt
    /\ totalBorrowShares' = totalBorrowShares - settled - residual
    /\ borrowShares' = [borrowShares EXCEPT ![b] = @ - settled - residual]
    /\ totalSupplyAssets' = SupplyAssets

WriteOffNothing(b, repaid, seized) ==
    LET settled == SettledShares(b, repaid) IN
    /\ CanSettle(b, settled, repaid)
    /\ totalBorrowAssets' = BorrowAssets - repaid
    /\ totalBorrowShares' = totalBorrowShares - settled
    /\ borrowShares' = [borrowShares EXCEPT ![b] = @ - settled]
    /\ totalSupplyAssets' = SupplyAssets

\* Both books after bad debt is written off them.
WriteOff(b, repaid, seized) ==
    LET settled  == SettledShares(b, repaid)
        residual == ResidualShares(b, repaid, seized)
        badDebt  == BadDebt(b, repaid, seized)
    IN
    /\ CanSettle(b, settled, repaid)
    /\ CanSettle(b, settled + residual, repaid + badDebt)
    /\ totalBorrowAssets' = BorrowAssets - repaid - badDebt
    /\ totalBorrowShares' = totalBorrowShares - settled - residual
    /\ borrowShares' = [borrowShares EXCEPT ![b] = @ - settled - residual]
    /\ totalSupplyAssets' = IF SupplyAssets > badDebt THEN SupplyAssets - badDebt ELSE 0

\* The division by the collateral's value reverts when that is zero.
Liquidate(b, assets) ==
    LET terms == Terms(b, assets) IN
    /\ price # None
    /\ ~WithinLtv(Debt(b), collateralOf[b], risk.liqLtvBps)
    /\ Value(collateralOf[b]) # 0
    /\ terms.seized <= totalCollateral
    /\ WriteOff(b, terms.repaid, terms.seized)
    /\ totalSupplyShares' = SharesSupplied /\ supplyShares' = SharesOf
    /\ collateralOf' = [collateralOf EXCEPT ![b] = @ - terms.seized]
    /\ totalCollateral' = totalCollateral - terms.seized
    /\ cash' = cash + terms.repaid
    /\ lastAccrued' = blockTime
    /\ UNCHANGED <<blockTime, config, price>>

-----------------------------------------------------------------------------
(* Governance, the Sentinel, the oracle and time *)

SetPaused(value) ==
    /\ paused' = value
    /\ UNCHANGED <<blockTime, supplyBook, borrowBook, collateral, lastAccrued,
                   risk, caps, protocolFeeBps, cash, price>>

\* Pending interest is not settled by these two.
SetRiskParams(params) ==
    /\ risk' = params
    /\ UNCHANGED <<blockTime, supplyBook, borrowBook, collateral, lastAccrued,
                   paused, caps, protocolFeeBps, cash, price>>

SetCaps(newCaps) ==
    /\ caps' = newCaps
    /\ UNCHANGED <<blockTime, supplyBook, borrowBook, collateral, lastAccrued,
                   paused, risk, protocolFeeBps, cash, price>>

SetProtocolFee(bps) ==
    /\ protocolFeeBps' = bps
    /\ lastAccrued' = blockTime
    /\ AccrueSupply /\ AccrueBorrow
    /\ UNCHANGED <<blockTime, collateral, paused, risk, caps, cash, price>>

PriceMoves(new) ==
    /\ price' = new
    /\ UNCHANGED <<blockTime, supplyBook, borrowBook, collateral, lastAccrued, config, cash>>

TimePasses ==
    /\ Tick
    /\ UNCHANGED <<supplyBook, borrowBook, collateral, lastAccrued, config, cash, price>>

LenderStep(a, amount) == Supply(a, amount) \/ Withdraw(a, amount)

BorrowerStep(b, amount) ==
    \/ DepositCollateral(b, amount) \/ WithdrawCollateral(b, amount)
    \/ Borrow(b, amount) \/ Repay(b, amount)
    \/ Liquidate(b, amount)

Next ==
    \/ \E a \in Lenders, amount \in Amounts : LenderStep(a, amount)
    \/ \E b \in Borrowers, amount \in Amounts : BorrowerStep(b, amount)
    \/ Accrue
    \/ \E value \in BOOLEAN : SetPaused(value)
    \/ \E params \in RiskParams : SetRiskParams(params)
    \/ \E newCaps \in Caps : SetCaps(newCaps)
    \/ \E bps \in ProtocolFees : SetProtocolFee(bps)
    \/ \E new \in Prices \cup {None} : PriceMoves(new)
    \/ TimePasses

Spec == Init /\ [][Next]_vars

-----------------------------------------------------------------------------
(* Properties *)

\* The liquidity withdraw() and borrow() check on the books is the USDC the market
\* holds, through interest nobody has paid, fees that move no cash and losses written
\* off both books at once: whoever is let through is paid.
CashIsUnlent == cash = totalSupplyAssets - totalBorrowAssets

\* No account is left with a debt and nothing behind it: whoever takes the last
\* collateral, and however the parts round, the debt is repaid or written off.
NoNakedDebt == \A b \in Accounts : borrowShares[b] > 0 => collateralOf[b] > 0

\* Lenders lose to bad debt only: the price of a supply share, interest and fees
\* included, falls in no other step, whoever enters, leaves, borrows or repays.
\* A step writes off when it ends a debt without collateral for less than it was.
WritesOff ==
    \E b \in Accounts :
        borrowShares[b] > 0 /\ borrowShares'[b] = 0 /\ collateralOf'[b] = 0 /\ cash' - cash < Debt(b)

SharePriceFalls ==
    (totalSupplyAssets' + VIRTUAL_ASSETS) * (totalSupplyShares + VIRTUAL_SHARES)
      < (totalSupplyAssets + VIRTUAL_ASSETS) * (totalSupplyShares' + VIRTUAL_SHARES)

OnlyBadDebtCostsLenders == [][SharePriceFalls => WritesOff]_vars

(* What the repository says and the code does not do *)

\* "Pass type(uint256).max to repay in full" (LendingMarket.sol:422): the full repayment
\* of a debt, which is rounded up, is never more than what is left of all debts.
DebtsCanBeRepaid == \A b \in Accounts : Debt(b) # 0 => CanSettle(b, borrowShares[b], Debt(b))

\* "If collateral is exhausted while debt remains, the residual is socialized to
\* suppliers" (LendingMarket.sol:448): a position past its threshold, with a price at
\* hand, can be liquidated.
BadDebtCanBeRealized ==
    \A b \in Accounts :
        price # None /\ ~WithinLtv(Debt(b), collateralOf[b], risk.liqLtvBps)
            => \E assets \in Amounts : ENABLED Liquidate(b, assets)
=============================================================================
