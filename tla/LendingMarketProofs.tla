-------------------------- MODULE LendingMarketProofs --------------------------
(***************************************************************************)
(* Proofs about LendingMarket: its books are typed, the cash it holds is   *)
(* what is supplied and not lent, and no debt stands without collateral.   *)
(***************************************************************************)
EXTENDS LendingMarket, TLAPS

USE DEF supplyBook, borrowBook, collateral, config

LEMMA QuotientIsNat ==
    ASSUME NEW a \in Nat, NEW b \in Nat \ {0}
    PROVE  a \div b \in Nat
OBVIOUS

LEMMA ProductIsNat ==
    ASSUME NEW a \in Nat, NEW b \in Nat
    PROVE  a * b \in Nat
OBVIOUS

LEMMA MulDivIsNat ==
    ASSUME NEW x \in Nat, NEW y \in Nat, NEW z \in Nat \ {0}
    PROVE  MulDiv(x, y, z) \in Nat /\ MulDivUp(x, y, z) \in Nat
<1>1. x * y \in Nat
  BY ProductIsNat
<1>2. x * y + z - 1 \in Nat
  BY <1>1
<1> QED
  BY <1>1, <1>2, QuotientIsNat DEF MulDiv, MulDivUp

LEMMA ProductIsMonotone ==
    ASSUME NEW x \in Nat, NEW y \in Nat, NEW z \in Nat, y <= z
    PROVE  x * y <= x * z
<1>1. z = y + (z - y) /\ z - y \in Nat
  OBVIOUS
<1>2. x * (y + (z - y)) = x * y + x * (z - y)
  OBVIOUS
<1> QED
  BY <1>1, <1>2, ProductIsNat

\* A part of a whole is at most the whole.
LEMMA PartIsAtMost ==
    ASSUME NEW x \in Nat, NEW y \in Nat, NEW z \in Nat \ {0}, y <= z
    PROVE  MulDiv(x, y, z) <= x
<1> DEFINE p == x * y
           q == p \div z
<1>1. p \in Nat /\ p <= x * z
  BY ProductIsNat, ProductIsMonotone
<1>2. q \in Nat /\ z * q <= p
  <2> HIDE DEF p
  <2> QED BY <1>1
<1> HIDE DEF p, q
<1>3. SUFFICES ASSUME x < q PROVE FALSE
  BY <1>2 DEF MulDiv, p, q
<1>4. z * (x + 1) <= z * q
  BY <1>2, <1>3, ProductIsMonotone
<1>5. z * (x + 1) = x * z + z
  OBVIOUS
<1>6. z * q \in Nat /\ x * z \in Nat
  BY <1>2, ProductIsNat
<1> QED
  BY <1>1, <1>2, <1>4, <1>5, <1>6

LEMMA NothingOfNothing ==
    ASSUME NEW y \in Nat, NEW z \in Nat \ {0}
    PROVE  MulDiv(0, y, z) = 0
<1>1. 0 * y = 0
  OBVIOUS
<1>2. 0 \div z = 0
  OBVIOUS
<1> QED
  BY <1>1, <1>2 DEF MulDiv

\* Rounded up, a debt that is there is never nothing.
LEMMA RoundedUpIsSome ==
    ASSUME NEW x \in Nat \ {0}, NEW y \in Nat \ {0}, NEW z \in Nat \ {0}
    PROVE  MulDivUp(x, y, z) > 0
<1>1. x * y \in Nat \ {0}
  OBVIOUS
<1>2. \A n \in Nat \ {0} : (n + z - 1) \div z > 0
  OBVIOUS
<1> QED
  BY <1>1, <1>2 DEF MulDivUp

-----------------------------------------------------------------------------
(* The state after an accrual is typed *)

LEMMA InterestIsNat ==
    ASSUME LendingTypeOK
    PROVE  Interest \in Nat
<1> DEFINE util == MulDiv(totalBorrowAssets, WAD, totalSupplyAssets)
           rate == baseRate + MulDiv(slope, util, WAD)
<1>1. blockTime - lastAccrued \in Nat
  BY DEF LendingTypeOK, BlockTimes
<1>2. CASE totalBorrowAssets = 0 \/ totalSupplyAssets = 0
  BY <1>2 DEF Interest
<1>3. CASE ~(totalBorrowAssets = 0 \/ totalSupplyAssets = 0)
  <2>1. util \in Nat
    BY <1>3, MulDivIsNat, MarketAssumption DEF LendingTypeOK
  <2>2. rate \in Nat
    <3> HIDE DEF util
    <3>1. MulDiv(slope, util, WAD) \in Nat
      BY <2>1, MulDivIsNat, MarketAssumption
    <3> QED
      BY <3>1, MarketAssumption
  <2>3. rate * (blockTime - lastAccrued) \in Nat
    BY <1>1, <2>2, ProductIsNat
  <2>4. MulDiv(totalBorrowAssets, rate * (blockTime - lastAccrued), WAD) \in Nat
    BY <2>3, MulDivIsNat, MarketAssumption DEF LendingTypeOK
  <2> QED
    BY <1>3, <2>4 DEF Interest
<1> QED
  BY <1>2, <1>3

LEMMA FeeSharesAreNat ==
    ASSUME LendingTypeOK
    PROVE  FeeShares \in Nat
<1> DEFINE feeAssets == MulDiv(Interest, protocolFeeBps, MAX_BPS)
<1>1. feeAssets \in Nat /\ feeAssets <= Interest
  BY InterestIsNat, MulDivIsNat, PartIsAtMost, MarketAssumption DEF LendingTypeOK
<1>2. SupplyAssets - feeAssets + VIRTUAL_ASSETS \in Nat \ {0}
  BY <1>1, InterestIsNat, MarketAssumption DEF LendingTypeOK, SupplyAssets
<1>3. totalSupplyShares + VIRTUAL_SHARES \in Nat
  BY MarketAssumption DEF LendingTypeOK
<1>4. MulDiv(feeAssets, totalSupplyShares + VIRTUAL_SHARES,
             SupplyAssets - feeAssets + VIRTUAL_ASSETS) \in Nat
  BY <1>1, <1>2, <1>3, MulDivIsNat
<1> QED
  BY <1>4 DEF FeeShares

LEMMA AccruedBooks ==
    ASSUME LendingTypeOK
    PROVE  /\ SupplyAssets \in Nat /\ BorrowAssets \in Nat
           /\ SupplyAssets - BorrowAssets = totalSupplyAssets - totalBorrowAssets
           /\ SharesSupplied \in Nat
           /\ SharesOf \in [Accounts -> Nat]
<1>1. Interest \in Nat /\ FeeShares \in Nat
  BY InterestIsNat, FeeSharesAreNat
<1>2. feeRecipient \in Accounts
  BY MarketAssumption
<1> QED
  BY <1>1, <1>2 DEF LendingTypeOK, SupplyAssets, BorrowAssets, SharesSupplied, SharesOf

LEMMA RatesAreNat ==
    ASSUME LendingTypeOK, NEW assets \in Nat
    PROVE  /\ ToSupplyShares(assets) \in Nat /\ ToSupplySharesUp(assets) \in Nat
           /\ ToBorrowShares(assets) \in Nat /\ ToBorrowSharesUp(assets) \in Nat
<1>1. /\ SharesSupplied + VIRTUAL_SHARES \in Nat
      /\ SupplyAssets + VIRTUAL_ASSETS \in Nat \ {0}
      /\ totalBorrowShares + VIRTUAL_SHARES \in Nat
      /\ BorrowAssets + VIRTUAL_ASSETS \in Nat \ {0}
  BY AccruedBooks, MarketAssumption DEF LendingTypeOK
<1> QED
  BY <1>1, MulDivIsNat DEF ToSupplyShares, ToSupplySharesUp, ToBorrowShares, ToBorrowSharesUp

LEMMA DebtOnIsNat ==
    ASSUME NEW shares \in Nat, NEW assets \in Nat, NEW total \in Nat
    PROVE  /\ DebtOn(shares, assets, total) \in Nat
           /\ shares > 0 => DebtOn(shares, assets, total) > 0
<1>1. assets + VIRTUAL_ASSETS \in Nat \ {0} /\ total + VIRTUAL_SHARES \in Nat \ {0}
  BY MarketAssumption
<1>2. CASE shares = 0
  BY <1>2 DEF DebtOn
<1>3. CASE shares # 0
  <2>1. DebtOn(shares, assets, total) = MulDivUp(shares, assets + VIRTUAL_ASSETS, total + VIRTUAL_SHARES)
    BY <1>3 DEF DebtOn
  <2>2. MulDivUp(shares, assets + VIRTUAL_ASSETS, total + VIRTUAL_SHARES) \in Nat
    BY <1>1, MulDivIsNat
  <2>3. MulDivUp(shares, assets + VIRTUAL_ASSETS, total + VIRTUAL_SHARES) > 0
    BY <1>1, <1>3, RoundedUpIsSome
  <2> QED
    BY <2>1, <2>2, <2>3
<1> QED
  BY <1>2, <1>3

LEMMA DebtIsNat ==
    ASSUME LendingTypeOK, NEW b \in Accounts
    PROVE  /\ Debt(b) \in Nat
           /\ borrowShares[b] > 0 => Debt(b) > 0
<1>1. borrowShares[b] \in Nat /\ BorrowAssets \in Nat /\ totalBorrowShares \in Nat
  BY AccruedBooks DEF LendingTypeOK
<1> QED
  BY <1>1, DebtOnIsNat DEF Debt

\* Without collateral only a position without debt is healthy, at any price.
LEMMA HealthNeedsCollateral ==
    ASSUME LendingTypeOK, NEW debt \in Nat, debt > 0,
           NEW ltvBps \in Nat, WithinLtv(debt, 0, ltvBps)
    PROVE  FALSE
<1>1. price \in Price
  BY DEF LendingTypeOK, WithinLtv
<1>2. Value(0) = 0
  BY <1>1, NothingOfNothing DEF Value, Price
<1>3. MulDiv(0, ltvBps, MAX_BPS) = 0
  BY NothingOfNothing, MarketAssumption
<1> QED
  BY <1>2, <1>3 DEF WithinLtv

-----------------------------------------------------------------------------
(***************************************************************************)
(* The inductive invariant.  The cash is in it for the types' sake: a      *)
(* withdrawal or a loan is checked against the books, and only the cash    *)
(* equation makes that a check against the balance it is paid from.        *)
(***************************************************************************)
MarketInv == LendingTypeOK /\ CashIsUnlent /\ NoNakedDebt

LEMMA MarketInit == Init => MarketInv
<1> SUFFICES ASSUME Init PROVE MarketInv
  OBVIOUS
<1>1. LendingTypeOK
  <2>1. blockTime \in BlockTimes /\ lastAccrued \in 1..blockTime
    BY MaxBlockTimeAssumption DEF Init, FirstBlock, BlockTimes
  <2>2. /\ risk \in Risk /\ caps \in Cap /\ protocolFeeBps \in 0..MAX_BPS
        /\ price \in Price \cup {None} /\ paused \in BOOLEAN
    BY MarketAssumption DEF Init
  <2> QED
    BY <2>1, <2>2 DEF Init, LendingTypeOK
<1> QED
  BY <1>1 DEF Init, MarketInv, CashIsUnlent, NoNakedDebt

\* What the calls of the accounts leave alone.
Settled == lastAccrued' = blockTime /\ UNCHANGED <<blockTime, config, price>>

LEMMA SettledTypes ==
    ASSUME LendingTypeOK, Settled
    PROVE  /\ blockTime' \in BlockTimes /\ lastAccrued' \in 1..blockTime'
           /\ paused' \in BOOLEAN /\ risk' \in Risk /\ caps' \in Cap /\ protocolFeeBps' \in 0..MAX_BPS
           /\ price' \in Price \cup {None}
BY DEF LendingTypeOK, Settled, BlockTimes

\* An accrual moves both books by the same interest, and no cash.
LEMMA AccruedSupply ==
    ASSUME LendingTypeOK, AccrueSupply
    PROVE  /\ totalSupplyAssets' = SupplyAssets /\ totalSupplyAssets' \in Nat
           /\ totalSupplyShares' \in Nat /\ supplyShares' \in [Accounts -> Nat]
BY AccruedBooks DEF AccrueSupply

LEMMA AccruedBorrow ==
    ASSUME LendingTypeOK, AccrueBorrow
    PROVE  /\ totalBorrowAssets' = BorrowAssets /\ totalBorrowAssets' \in Nat
           /\ totalBorrowShares' \in Nat /\ borrowShares' = borrowShares
           /\ borrowShares' \in [Accounts -> Nat]
BY AccruedBooks DEF AccrueBorrow, LendingTypeOK

LEMMA AccrueKeeps ==
    ASSUME MarketInv, lastAccrued' = blockTime, AccrueSupply, AccrueBorrow,
           UNCHANGED <<blockTime, collateral, paused, cash, price>>,
           risk' \in Risk, caps' \in Cap, protocolFeeBps' \in 0..MAX_BPS
    PROVE  MarketInv'
<1>1. LendingTypeOK'
  BY AccruedSupply, AccruedBorrow DEF MarketInv, LendingTypeOK, BlockTimes
<1>2. CashIsUnlent'
  BY AccruedSupply, AccruedBorrow, AccruedBooks DEF MarketInv, CashIsUnlent
<1>3. NoNakedDebt'
  BY AccruedBorrow DEF MarketInv, NoNakedDebt
<1> QED
  BY <1>1, <1>2, <1>3 DEF MarketInv

LEMMA SupplyKeeps ==
    ASSUME MarketInv, NEW a \in Accounts, NEW assets \in Nat, Supply(a, assets)
    PROVE  MarketInv'
<1> DEFINE shares == ToSupplyShares(assets)
<1>1. LendingTypeOK /\ Settled
  BY DEF MarketInv, Supply, Settled
<1>2. shares \in Nat
  BY <1>1, RatesAreNat
<1>3. /\ totalSupplyAssets' = SupplyAssets + assets
      /\ totalSupplyShares' = SharesSupplied + shares
      /\ supplyShares' = [SharesOf EXCEPT ![a] = @ + shares]
      /\ cash' = cash + assets
      /\ AccrueBorrow
      /\ UNCHANGED collateral
  BY DEF Supply
<1>4. LendingTypeOK'
  <2> HIDE DEF shares
  <2>1. supplyShares' \in [Accounts -> Nat]
    BY <1>1, <1>2, <1>3, AccruedBooks
  <2>2. totalSupplyAssets' \in Nat /\ totalSupplyShares' \in Nat /\ cash' \in Nat
    BY <1>1, <1>2, <1>3, AccruedBooks DEF LendingTypeOK
  <2>3. collateralOf' \in [Accounts -> Nat] /\ totalCollateral' \in Nat
    BY <1>1, <1>3 DEF LendingTypeOK
  <2> QED
    BY <1>1, <1>3, <2>1, <2>2, <2>3, SettledTypes, AccruedBorrow DEF LendingTypeOK
<1>5. CashIsUnlent'
  BY <1>1, <1>3, AccruedBooks, AccruedBorrow DEF MarketInv, CashIsUnlent, LendingTypeOK
<1>6. NoNakedDebt'
  BY <1>1, <1>3, AccruedBorrow DEF MarketInv, NoNakedDebt
<1> QED
  BY <1>4, <1>5, <1>6 DEF MarketInv

LEMMA WithdrawKeeps ==
    ASSUME MarketInv, NEW a \in Accounts, NEW assets \in Nat, Withdraw(a, assets)
    PROVE  MarketInv'
<1> DEFINE shares == ToSupplySharesUp(assets)
<1>1. LendingTypeOK /\ Settled
  BY DEF MarketInv, Withdraw, WithdrawFor, Settled
<1>2. shares \in Nat
  BY <1>1, RatesAreNat
<1>3. /\ shares <= SharesOf[a] /\ shares <= SharesSupplied
      /\ assets <= SupplyAssets - BorrowAssets
      /\ totalSupplyAssets' = SupplyAssets - assets
      /\ totalSupplyShares' = SharesSupplied - shares
      /\ supplyShares' = [SharesOf EXCEPT ![a] = @ - shares]
      /\ cash' = cash - assets
      /\ AccrueBorrow
      /\ UNCHANGED collateral
  BY DEF Withdraw, WithdrawFor
<1>4. cash = SupplyAssets - BorrowAssets
  BY <1>1, AccruedBooks DEF MarketInv, CashIsUnlent
<1>5. LendingTypeOK'
  <2> HIDE DEF shares
  <2>1. supplyShares' \in [Accounts -> Nat]
    BY <1>1, <1>2, <1>3, AccruedBooks
  <2>2. totalSupplyAssets' \in Nat /\ totalSupplyShares' \in Nat /\ cash' \in Nat
    BY <1>1, <1>2, <1>3, <1>4, AccruedBooks DEF LendingTypeOK
  <2>3. collateralOf' \in [Accounts -> Nat] /\ totalCollateral' \in Nat
    BY <1>1, <1>3 DEF LendingTypeOK
  <2> QED
    BY <1>1, <1>3, <2>1, <2>2, <2>3, SettledTypes, AccruedBorrow DEF LendingTypeOK
<1>6. CashIsUnlent'
  BY <1>1, <1>3, <1>4, AccruedBooks, AccruedBorrow DEF CashIsUnlent
<1>7. NoNakedDebt'
  BY <1>1, <1>3, AccruedBorrow DEF MarketInv, NoNakedDebt
<1> QED
  BY <1>5, <1>6, <1>7 DEF MarketInv

LEMMA DepositCollateralKeeps ==
    ASSUME MarketInv, NEW b \in Accounts, NEW shares \in Nat, DepositCollateral(b, shares)
    PROVE  MarketInv'
<1>1. /\ collateralOf' = [collateralOf EXCEPT ![b] = @ + shares]
      /\ totalCollateral' = totalCollateral + shares
      /\ UNCHANGED <<blockTime, supplyBook, borrowBook, lastAccrued, config, cash, price>>
  BY DEF DepositCollateral
<1>2. LendingTypeOK'
  BY <1>1 DEF MarketInv, LendingTypeOK, BlockTimes
<1>3. CashIsUnlent'
  BY <1>1 DEF MarketInv, CashIsUnlent
<1>4. NoNakedDebt'
  BY <1>1 DEF MarketInv, NoNakedDebt, LendingTypeOK
<1> QED
  BY <1>2, <1>3, <1>4 DEF MarketInv

LEMMA WithdrawCollateralKeeps ==
    ASSUME MarketInv, NEW b \in Accounts, NEW shares \in Nat, WithdrawCollateral(b, shares)
    PROVE  MarketInv'
<1>1. LendingTypeOK /\ Settled
  BY DEF MarketInv, WithdrawCollateral, Settled
<1>2. /\ shares <= collateralOf[b] /\ shares <= totalCollateral
      /\ WithinLtv(Debt(b), collateralOf[b] - shares, risk.lltvBps)
      /\ collateralOf' = [collateralOf EXCEPT ![b] = @ - shares]
      /\ totalCollateral' = totalCollateral - shares
      /\ AccrueSupply /\ AccrueBorrow
      /\ UNCHANGED cash
  BY DEF WithdrawCollateral
<1>3. collateralOf' \in [Accounts -> Nat] /\ totalCollateral' \in Nat
  BY <1>1, <1>2 DEF LendingTypeOK
<1>4. LendingTypeOK'
  BY <1>1, <1>2, <1>3, SettledTypes, AccruedSupply, AccruedBorrow DEF LendingTypeOK
<1>5. CashIsUnlent'
  BY <1>1, <1>2, AccruedSupply, AccruedBorrow, AccruedBooks DEF MarketInv, CashIsUnlent
<1>6. ASSUME borrowShares[b] > 0 PROVE collateralOf'[b] > 0
  <2>1. Debt(b) \in Nat /\ Debt(b) > 0
    BY <1>1, <1>6, DebtIsNat
  <2>2. risk.lltvBps \in Nat
    BY <1>1 DEF LendingTypeOK, Risk
  <2>3. collateralOf[b] - shares # 0
    BY <1>1, <1>2, <2>1, <2>2, HealthNeedsCollateral
  <2> QED
    BY <1>1, <1>2, <2>3 DEF LendingTypeOK
<1>7. NoNakedDebt'
  BY <1>1, <1>2, <1>6, AccruedBorrow DEF MarketInv, NoNakedDebt, LendingTypeOK
<1> QED
  BY <1>4, <1>5, <1>7 DEF MarketInv

LEMMA BorrowKeeps ==
    ASSUME MarketInv, NEW b \in Accounts, NEW assets \in Nat, Borrow(b, assets)
    PROVE  MarketInv'
<1> DEFINE shares == ToBorrowSharesUp(assets)
           debt   == DebtOn(borrowShares[b] + shares, BorrowAssets + assets, totalBorrowShares + shares)
<1>1. LendingTypeOK /\ Settled
  BY DEF MarketInv, Borrow, Settled
<1>2. shares \in Nat
  BY <1>1, RatesAreNat
<1>3. /\ BorrowAssets + assets <= SupplyAssets
      /\ WithinLtv(debt, collateralOf[b], risk.lltvBps)
      /\ totalBorrowAssets' = BorrowAssets + assets
      /\ totalBorrowShares' = totalBorrowShares + shares
      /\ borrowShares' = [borrowShares EXCEPT ![b] = @ + shares]
      /\ cash' = cash - assets
      /\ AccrueSupply
      /\ UNCHANGED collateral
  BY DEF Borrow
<1>4. debt \in Nat /\ (borrowShares[b] + shares > 0 => debt > 0)
  <2>1. /\ borrowShares[b] + shares \in Nat /\ BorrowAssets + assets \in Nat
        /\ totalBorrowShares + shares \in Nat
    <3> HIDE DEF shares
    <3> QED BY <1>1, <1>2, AccruedBooks DEF LendingTypeOK
  <2> QED
    BY <2>1, DebtOnIsNat
<1> HIDE DEF shares, debt
<1>5. cash = SupplyAssets - BorrowAssets
  BY <1>1, AccruedBooks DEF MarketInv, CashIsUnlent
<1>6. LendingTypeOK'
  <2>1. borrowShares' \in [Accounts -> Nat] /\ totalBorrowShares' \in Nat
    BY <1>1, <1>2, <1>3 DEF LendingTypeOK
  <2>2. totalBorrowAssets' \in Nat /\ cash' \in Nat
    BY <1>1, <1>3, <1>5, AccruedBooks
  <2>3. collateralOf' \in [Accounts -> Nat] /\ totalCollateral' \in Nat
    BY <1>1, <1>3 DEF LendingTypeOK
  <2> QED
    BY <1>1, <1>3, <2>1, <2>2, <2>3, SettledTypes, AccruedSupply DEF LendingTypeOK
<1>7. CashIsUnlent'
  BY <1>1, <1>3, <1>5, AccruedBooks, AccruedSupply DEF CashIsUnlent
<1>8. ASSUME borrowShares'[b] > 0 PROVE collateralOf[b] > 0
  <2>1. debt > 0
    BY <1>1, <1>2, <1>3, <1>4, <1>8 DEF LendingTypeOK
  <2>2. risk.lltvBps \in Nat
    BY <1>1 DEF LendingTypeOK, Risk
  <2>3. collateralOf[b] # 0
    BY <1>1, <1>3, <1>4, <2>1, <2>2, HealthNeedsCollateral
  <2> QED
    BY <1>1, <2>3 DEF LendingTypeOK
<1>9. NoNakedDebt'
  BY <1>1, <1>3, <1>8 DEF MarketInv, NoNakedDebt, LendingTypeOK
<1> QED
  BY <1>6, <1>7, <1>9 DEF MarketInv

\* What is paid and burnt is at most what is owed: checked by the subtractions.
LEMMA RepayKeeps ==
    ASSUME MarketInv, NEW b \in Accounts, NEW assets \in Nat, Repay(b, assets)
    PROVE  MarketInv'
<1> DEFINE full   == assets >= Debt(b)
           pay    == IF full THEN Debt(b) ELSE assets
           shares == IF full THEN borrowShares[b] ELSE ToBorrowShares(assets)
<1>1. LendingTypeOK /\ Settled
  BY DEF MarketInv, Repay, Settled
<1>2. pay \in Nat /\ shares \in Nat
  BY <1>1, DebtIsNat, RatesAreNat DEF LendingTypeOK
<1>3. /\ shares <= borrowShares[b] /\ shares <= totalBorrowShares /\ pay <= BorrowAssets
      /\ totalBorrowAssets' = BorrowAssets - pay
      /\ totalBorrowShares' = totalBorrowShares - shares
      /\ borrowShares' = [borrowShares EXCEPT ![b] = @ - shares]
      /\ cash' = cash + pay
      /\ AccrueSupply
      /\ UNCHANGED collateral
  BY DEF Repay, CanSettle
<1> HIDE DEF pay, shares, full
<1>4. LendingTypeOK'
  <2>1. borrowShares' \in [Accounts -> Nat] /\ totalBorrowShares' \in Nat
    BY <1>1, <1>2, <1>3 DEF LendingTypeOK
  <2>2. totalBorrowAssets' \in Nat /\ cash' \in Nat
    BY <1>1, <1>2, <1>3, AccruedBooks DEF LendingTypeOK
  <2>3. collateralOf' \in [Accounts -> Nat] /\ totalCollateral' \in Nat
    BY <1>1, <1>3 DEF LendingTypeOK
  <2> QED
    BY <1>1, <1>3, <2>1, <2>2, <2>3, SettledTypes, AccruedSupply DEF LendingTypeOK
<1>5. CashIsUnlent'
  BY <1>1, <1>2, <1>3, AccruedBooks, AccruedSupply DEF MarketInv, CashIsUnlent, LendingTypeOK
<1>6. NoNakedDebt'
  BY <1>1, <1>2, <1>3 DEF MarketInv, NoNakedDebt, LendingTypeOK
<1> QED
  BY <1>4, <1>5, <1>6 DEF MarketInv

-----------------------------------------------------------------------------
(* Liquidation *)

LEMMA TermsAreWithin ==
    ASSUME LendingTypeOK, NEW b \in Accounts, NEW assets \in Nat,
           price # None, Value(collateralOf[b]) # 0
    PROVE  /\ Terms(b, assets).repaid \in Nat
           /\ Terms(b, assets).seized \in Nat
           /\ Terms(b, assets).seized <= collateralOf[b]
           /\ Terms(b, assets).repaid <= Debt(b)
<1> DEFINE offered == IF assets > Debt(b) THEN Debt(b) ELSE assets
           worth   == Value(collateralOf[b])
           reward  == MulDiv(offered, MAX_BPS + risk.liqIncentiveBps, MAX_BPS)
           wanted  == MulDiv(collateralOf[b], reward, worth)
           backed  == MulDiv(worth, MAX_BPS, MAX_BPS + risk.liqIncentiveBps)
<1>1. collateralOf[b] \in Nat /\ Debt(b) \in Nat
  BY DebtIsNat DEF LendingTypeOK
<1>2. worth \in Nat \ {0}
  <2>1. price \in Price
    BY DEF LendingTypeOK
  <2>2. Value(collateralOf[b]) \in Nat
    BY <1>1, <2>1, MulDivIsNat DEF Value, Price
  <2> QED
    BY <2>2
<1>3. MAX_BPS \in Nat \ {0} /\ MAX_BPS + risk.liqIncentiveBps \in Nat \ {0}
  BY MarketAssumption DEF LendingTypeOK, Risk
<1>4. offered \in Nat /\ offered <= Debt(b)
  BY <1>1
<1> HIDE DEF offered, worth
<1>5. reward \in Nat
  BY <1>3, <1>4, MulDivIsNat
<1>6. backed \in Nat
  BY <1>2, <1>3, MulDivIsNat
<1> HIDE DEF reward, backed
<1>7. wanted \in Nat
  BY <1>1, <1>2, <1>5, MulDivIsNat
<1> HIDE DEF wanted
<1>8. Terms(b, assets) =
        IF wanted > collateralOf[b]
        THEN [seized |-> collateralOf[b], repaid |-> IF backed > Debt(b) THEN Debt(b) ELSE backed]
        ELSE [seized |-> wanted, repaid |-> offered]
  BY DEF Terms, wanted, backed, reward, worth, offered
<1>9. CASE wanted > collateralOf[b]
  BY <1>1, <1>6, <1>8, <1>9
<1>10. CASE ~(wanted > collateralOf[b])
  BY <1>1, <1>4, <1>7, <1>8, <1>10
<1> QED
  BY <1>9, <1>10

\* Both books fall by the bad debt, and the borrower keeps no share of a debt
\* that has lost its collateral.
LEMMA WriteOffBalances ==
    ASSUME LendingTypeOK, CashIsUnlent, NEW b \in Accounts,
           NEW repaid \in Nat, NEW seized \in Nat, WriteOff(b, repaid, seized)
    PROVE  /\ totalBorrowAssets' \in Nat /\ totalSupplyAssets' \in Nat
           /\ totalBorrowShares' \in Nat /\ borrowShares' \in [Accounts -> Nat]
           /\ totalSupplyAssets' - totalBorrowAssets' = cash + repaid
           /\ \A a \in Accounts : borrowShares'[a] > 0 => borrowShares[a] > 0
           /\ seized = collateralOf[b] => borrowShares'[b] = 0
<1> DEFINE settled  == SettledShares(b, repaid)
           residual == ResidualShares(b, repaid, seized)
           badDebt  == BadDebt(b, repaid, seized)
<1>1. /\ borrowShares \in [Accounts -> Nat] /\ totalBorrowShares \in Nat /\ cash \in Nat
      /\ SupplyAssets \in Nat /\ BorrowAssets \in Nat
      /\ cash = SupplyAssets - BorrowAssets
  BY AccruedBooks DEF LendingTypeOK, CashIsUnlent
<1>2. /\ settled <= borrowShares[b] /\ settled <= totalBorrowShares
      /\ repaid <= BorrowAssets
      /\ settled + residual <= borrowShares[b]
      /\ settled + residual <= totalBorrowShares
      /\ repaid + badDebt <= BorrowAssets
      /\ totalBorrowAssets' = BorrowAssets - repaid - badDebt
      /\ totalBorrowShares' = totalBorrowShares - settled - residual
      /\ borrowShares' = [borrowShares EXCEPT ![b] = @ - settled - residual]
      /\ totalSupplyAssets' = IF SupplyAssets > badDebt THEN SupplyAssets - badDebt ELSE 0
  BY DEF WriteOff, CanSettle
<1>3. settled \in Nat
  BY <1>1, RatesAreNat DEF SettledShares
<1> HIDE DEF settled
<1>4. residual \in Nat /\ (seized = collateralOf[b] => residual = borrowShares[b] - settled)
  BY <1>1, <1>2, <1>3 DEF ResidualShares, settled
<1> HIDE DEF residual
<1>5. badDebt \in Nat
  <2>1. BorrowAssets - repaid \in Nat /\ totalBorrowShares - settled \in Nat
    BY <1>1, <1>2, <1>3
  <2>2. DebtOn(residual, BorrowAssets - repaid, totalBorrowShares - settled) \in Nat
    BY <1>4, <2>1, DebtOnIsNat
  <2> QED
    BY <2>2 DEF BadDebt, residual, settled
<1> HIDE DEF badDebt
<1>6. badDebt <= SupplyAssets
  BY <1>1, <1>2, <1>5
<1>7. totalBorrowAssets' \in Nat /\ totalSupplyAssets' = SupplyAssets - badDebt
  BY <1>1, <1>2, <1>5, <1>6
<1>8. borrowShares' \in [Accounts -> Nat] /\ totalBorrowShares' \in Nat
  BY <1>1, <1>2, <1>3, <1>4
<1>9. \A a \in Accounts : borrowShares'[a] > 0 => borrowShares[a] > 0
  BY <1>1, <1>2, <1>3, <1>4
<1>10. seized = collateralOf[b] => borrowShares'[b] = 0
  BY <1>1, <1>2, <1>3, <1>4
<1> QED
  BY <1>1, <1>2, <1>5, <1>6, <1>7, <1>8, <1>9, <1>10

LEMMA LiquidateKeeps ==
    ASSUME MarketInv, NEW b \in Accounts, NEW assets \in Nat, Liquidate(b, assets)
    PROVE  MarketInv'
<1> DEFINE repaid == Terms(b, assets).repaid
           seized == Terms(b, assets).seized
<1>1. LendingTypeOK /\ CashIsUnlent /\ Settled
  BY DEF MarketInv, Liquidate, Settled
<1>2. repaid \in Nat /\ seized \in Nat /\ seized <= collateralOf[b]
  BY <1>1, TermsAreWithin DEF Liquidate
<1>3. /\ seized <= totalCollateral
      /\ WriteOff(b, repaid, seized)
      /\ totalSupplyShares' = SharesSupplied /\ supplyShares' = SharesOf
      /\ collateralOf' = [collateralOf EXCEPT ![b] = @ - seized]
      /\ totalCollateral' = totalCollateral - seized
      /\ cash' = cash + repaid
  BY DEF Liquidate
<1> HIDE DEF repaid, seized
<1>4. /\ totalBorrowAssets' \in Nat /\ totalSupplyAssets' \in Nat
      /\ totalBorrowShares' \in Nat /\ borrowShares' \in [Accounts -> Nat]
      /\ totalSupplyAssets' - totalBorrowAssets' = cash + repaid
      /\ \A a \in Accounts : borrowShares'[a] > 0 => borrowShares[a] > 0
      /\ seized = collateralOf[b] => borrowShares'[b] = 0
  BY <1>1, <1>2, <1>3, WriteOffBalances
<1>5. LendingTypeOK'
  <2>1. collateralOf' \in [Accounts -> Nat] /\ totalCollateral' \in Nat /\ cash' \in Nat
    BY <1>1, <1>2, <1>3 DEF LendingTypeOK
  <2> QED
    BY <1>1, <1>3, <1>4, <2>1, SettledTypes, AccruedBooks DEF LendingTypeOK
<1>6. CashIsUnlent'
  BY <1>3, <1>4 DEF CashIsUnlent
<1>7. NoNakedDebt'
  <2>1. ASSUME NEW a \in Accounts, borrowShares'[a] > 0 PROVE collateralOf'[a] > 0
    <3>1. collateralOf[a] > 0
      BY <1>4, <2>1 DEF MarketInv, NoNakedDebt
    <3>2. CASE a # b
      BY <1>1, <1>3, <3>1, <3>2 DEF LendingTypeOK
    <3>3. CASE a = b
      BY <1>1, <1>2, <1>3, <1>4, <2>1, <3>3 DEF LendingTypeOK
    <3> QED
      BY <3>2, <3>3
  <2> QED
    BY <2>1 DEF NoNakedDebt
<1> QED
  BY <1>5, <1>6, <1>7 DEF MarketInv

-----------------------------------------------------------------------------
(* Every step, and the theorems *)

LEMMA AccountStepKeeps ==
    ASSUME MarketInv, NEW a \in Accounts, NEW amount \in Nat,
           LenderStep(a, amount) \/ BorrowerStep(a, amount)
    PROVE  MarketInv'
BY SupplyKeeps, WithdrawKeeps, DepositCollateralKeeps, WithdrawCollateralKeeps,
   BorrowKeeps, RepayKeeps, LiquidateKeeps DEF LenderStep, BorrowerStep

\* A step that moves neither the books nor the positions.
LEMMA OutsideKeeps ==
    ASSUME MarketInv,
           UNCHANGED <<supplyBook, borrowBook, collateral, lastAccrued, cash>>,
           blockTime' \in BlockTimes, blockTime <= blockTime',
           paused' \in BOOLEAN, risk' \in Risk, caps' \in Cap, protocolFeeBps' \in 0..MAX_BPS,
           price' \in Price \cup {None}
    PROVE  MarketInv'
<1>1. lastAccrued' \in 1..blockTime'
  BY DEF MarketInv, LendingTypeOK, BlockTimes
<1>2. LendingTypeOK'
  BY <1>1 DEF MarketInv, LendingTypeOK
<1>3. CashIsUnlent' /\ NoNakedDebt'
  BY DEF MarketInv, CashIsUnlent, NoNakedDebt
<1> QED
  BY <1>2, <1>3 DEF MarketInv

LEMMA StepKeepsInv == MarketInv /\ [Next]_vars => MarketInv'
<1> SUFFICES ASSUME MarketInv, [Next]_vars PROVE MarketInv'
  OBVIOUS
<1>1. /\ blockTime \in BlockTimes /\ blockTime <= blockTime
      /\ paused \in BOOLEAN /\ risk \in Risk /\ caps \in Cap /\ protocolFeeBps \in 0..MAX_BPS
      /\ price \in Price \cup {None}
  BY DEF MarketInv, LendingTypeOK, BlockTimes
<1>2. CASE \E a \in Lenders, amount \in Amounts : LenderStep(a, amount)
  BY <1>2, AccountStepKeeps, MarketAssumption
<1>3. CASE \E b \in Borrowers, amount \in Amounts : BorrowerStep(b, amount)
  BY <1>3, AccountStepKeeps, MarketAssumption
<1>4. CASE Accrue
  BY <1>1, <1>4, AccrueKeeps DEF Accrue
<1>5. CASE \E value \in BOOLEAN : SetPaused(value)
  BY <1>1, <1>5, OutsideKeeps DEF SetPaused
<1>6. CASE \E params \in RiskParams : SetRiskParams(params)
  BY <1>1, <1>6, OutsideKeeps, MarketAssumption DEF SetRiskParams
<1>7. CASE \E newCaps \in Caps : SetCaps(newCaps)
  BY <1>1, <1>7, OutsideKeeps, MarketAssumption DEF SetCaps
<1>8. CASE \E bps \in ProtocolFees : SetProtocolFee(bps)
  BY <1>1, <1>8, AccrueKeeps, MarketAssumption DEF SetProtocolFee
<1>9. CASE \E new \in Prices \cup {None} : PriceMoves(new)
  BY <1>1, <1>9, OutsideKeeps, MarketAssumption DEF PriceMoves
<1>10. CASE TimePasses
  <2>1. blockTime' \in BlockTimes /\ blockTime <= blockTime'
    BY <1>1, <1>10, MaxBlockTimeAssumption DEF TimePasses, Tick, BlockTimes
  <2> QED
    BY <1>1, <1>10, <2>1, OutsideKeeps DEF TimePasses
<1>11. CASE UNCHANGED vars
  BY <1>1, <1>11, OutsideKeeps DEF vars
<1> QED
  BY <1>2, <1>3, <1>4, <1>5, <1>6, <1>7, <1>8, <1>9, <1>10, <1>11 DEF Next

LEMMA MarketInvHolds == Spec => []MarketInv
BY MarketInit, StepKeepsInv, PTL DEF Spec

\* Every amount stays an unsigned number: no checked subtraction the guards let
\* through takes more than there is, whatever the rounding did before.
THEOREM LendingTypesHold == Spec => []LendingTypeOK
<1>1. MarketInv => LendingTypeOK
  BY DEF MarketInv
<1> QED
  BY <1>1, MarketInvHolds, PTL

\* The market holds the USDC that is supplied and not lent, through interest, fee
\* shares, repayments rounded up and losses written off.
THEOREM LendersCashIsThere == Spec => []CashIsUnlent
<1>1. MarketInv => CashIsUnlent
  BY DEF MarketInv
<1> QED
  BY <1>1, MarketInvHolds, PTL

\* No debt outlives its collateral: not by a withdrawal, a loan that rounds to
\* nothing or a seizure.
THEOREM DebtsKeepCollateral == Spec => []NoNakedDebt
<1>1. MarketInv => NoNakedDebt
  BY DEF MarketInv
<1> QED
  BY <1>1, MarketInvHolds, PTL

-----------------------------------------------------------------------------
(***************************************************************************)
(* The price of a supply share, as a fraction t / s of assets to shares,   *)
(* each with its virtual part.  Prices are compared by their products.     *)
(***************************************************************************)

NoLower(t, s, t2, s2) == t * s2 <= t2 * s

LEMMA ProductCancels ==
    ASSUME NEW a \in Nat, NEW b \in Nat, NEW d \in Nat \ {0}, a * d <= b * d
    PROVE  a <= b
<1>1. (b + 1) * d = b * d + d /\ b * d \in Nat
  BY ProductIsNat, SMT
<1>2. ASSUME b + 1 <= a PROVE FALSE
  <2>1. d * (b + 1) <= d * a
    BY <1>2, ProductIsMonotone
  <2>2. d * (b + 1) = (b + 1) * d /\ d * a = a * d
    BY SMT
  <2> QED BY <1>1, <2>1, <2>2
<1> QED BY <1>2

LEMMA PricesChain ==
    ASSUME NEW t \in Nat, NEW s \in Nat, NEW t2 \in Nat, NEW s2 \in Nat \ {0},
           NEW t3 \in Nat, NEW s3 \in Nat,
           NoLower(t, s, t2, s2), NoLower(t2, s2, t3, s3)
    PROVE  NoLower(t, s, t3, s3)
<1>1. t * s2 \in Nat /\ t2 * s \in Nat /\ t2 * s3 \in Nat /\ t3 * s2 \in Nat
      /\ t * s3 \in Nat /\ t3 * s \in Nat
  BY ProductIsNat
<1>2. s3 * (t * s2) <= s3 * (t2 * s)
  BY <1>1, ProductIsMonotone DEF NoLower
<1>3. s * (t2 * s3) <= s * (t3 * s2)
  BY <1>1, ProductIsMonotone DEF NoLower
<1>4. /\ s3 * (t * s2) = (t * s3) * s2
      /\ s3 * (t2 * s) = s * (t2 * s3)
      /\ s * (t3 * s2) = (t3 * s) * s2
  BY SMT
<1>5. (t * s3) * s2 <= (t3 * s) * s2
  <2> DEFINE p == (t * s3) * s2
             q == s * (t2 * s3)
             r == (t3 * s) * s2
  <2>1. p \in Nat /\ q \in Nat /\ r \in Nat
    BY <1>1, ProductIsNat
  <2>2. p <= q /\ q <= r
    BY <1>2, <1>3, <1>4
  <2> HIDE DEF p, q, r
  <2>3. p <= r
    BY <2>1, <2>2
  <2> QED BY <2>3 DEF p, r
<1> QED BY <1>1, <1>5, ProductCancels DEF NoLower

LEMMA QuotientBounds ==
    ASSUME NEW n \in Nat, NEW d \in Nat \ {0}
    PROVE  /\ n \div d \in Nat
           /\ (n \div d) * d <= n
           /\ n < (n \div d) * d + d
BY SMT

LEMMA MulDivBounds ==
    ASSUME NEW x \in Nat, NEW y \in Nat, NEW z \in Nat \ {0}
    PROVE  MulDiv(x, y, z) \in Nat /\ MulDiv(x, y, z) * z <= x * y
<1> DEFINE n == x * y
<1>1. n \in Nat
  BY ProductIsNat
<1> HIDE DEF n
<1>2. n \div z \in Nat /\ (n \div z) * z <= n
  BY <1>1, QuotientBounds
<1> QED BY <1>2 DEF n, MulDiv

LEMMA MulDivUpBounds ==
    ASSUME NEW x \in Nat, NEW y \in Nat, NEW z \in Nat \ {0}
    PROVE  MulDivUp(x, y, z) \in Nat /\ x * y <= MulDivUp(x, y, z) * z
<1> DEFINE n == x * y
           m == n + z - 1
           q == m \div z
<1>1. n \in Nat
  BY ProductIsNat
<1> HIDE DEF n
<1>2. m \in Nat
  BY <1>1
<1> HIDE DEF m
<1>3. q \in Nat /\ m < q * z + z
  BY <1>2, QuotientBounds
<1> HIDE DEF q
<1>4. q * z \in Nat
  BY <1>3, ProductIsNat
<1>5. n <= q * z
  BY <1>1, <1>3, <1>4 DEF m
<1> QED BY <1>3, <1>5 DEF q, m, n, MulDivUp

\* Shares issued at the price, rounded down, do not lower it.
LEMMA IssueIsFair ==
    ASSUME NEW t \in Nat, NEW s \in Nat, NEW x \in Nat, NEW y \in Nat, y * t <= x * s
    PROVE  NoLower(t, s, t + x, s + y)
<1>1. t * (s + y) = t * s + y * t
  BY SMT
<1>2. (t + x) * s = t * s + x * s
  BY SMT
<1>3. t * s \in Nat /\ y * t \in Nat /\ x * s \in Nat
  BY ProductIsNat
<1> QED BY <1>1, <1>2, <1>3 DEF NoLower

\* Nor does the burning of shares at the price, rounded up.
LEMMA BurnIsFair ==
    ASSUME NEW t \in Nat, NEW s \in Nat, NEW x \in Nat, NEW y \in Nat,
           x * s <= y * t, x <= t, y <= s
    PROVE  NoLower(t, s, t - x, s - y)
<1>1. t * (s - y) + y * t = t * s
  BY SMT
<1>2. (t - x) * s + x * s = t * s
  BY SMT
<1>3. t * s \in Nat /\ y * t \in Nat /\ x * s \in Nat
  BY ProductIsNat
<1>4. t * (s - y) \in Int /\ (t - x) * s \in Int
  BY SMT
<1> QED BY <1>1, <1>2, <1>3, <1>4 DEF NoLower

\* Interest is the lenders', and the fee shares are issued against a part of it.
LEMMA InterestIsFair ==
    ASSUME NEW t \in Nat, NEW s \in Nat, NEW i \in Nat, NEW fee \in Nat, NEW f \in Nat,
           fee <= i, f * (t + i - fee) <= fee * s
    PROVE  NoLower(t, s, t + i, s + f)
<1> DEFINE k == i - fee
<1>1. k \in Nat /\ i = fee + k
  OBVIOUS
<1> HIDE DEF k
<1>2. t + i - fee = t + k
  BY <1>1
<1>3. f * (t + k) = f * t + f * k /\ f * t \in Nat /\ f * k \in Nat /\ fee * s \in Nat
  BY <1>1, SMT
<1>4. f * t <= fee * s
  BY <1>2, <1>3
<1>5. s * fee <= s * i
  BY ProductIsMonotone
<1>6. s * fee = fee * s /\ s * i = i * s /\ i * s \in Nat
  BY SMT
<1>7. f * t <= i * s
  BY <1>3, <1>4, <1>5, <1>6
<1> QED BY <1>7, IssueIsFair

-----------------------------------------------------------------------------
(* Lenders lose to bad debt only *)

\* A fraction of the book: what it has and what is issued against it.
Assets(a) == a + VIRTUAL_ASSETS
Shares(n) == n + VIRTUAL_SHARES

LEMMA VirtualParts ==
    ASSUME NEW n \in Nat
    PROVE  Assets(n) \in Nat \ {0} /\ Shares(n) \in Nat \ {0}
BY MarketAssumption DEF Assets, Shares

AccruedPrice(t, s) == NoLower(Assets(totalSupplyAssets), Shares(totalSupplyShares), t, s)

LEMMA AccrualIsFair ==
    ASSUME LendingTypeOK
    PROVE  AccruedPrice(Assets(SupplyAssets), Shares(SharesSupplied))
<1> DEFINE t == Assets(totalSupplyAssets)
           s == Shares(totalSupplyShares)
           fee == MulDiv(Interest, protocolFeeBps, MAX_BPS)
<1>1. t \in Nat \ {0} /\ s \in Nat \ {0}
  BY VirtualParts DEF LendingTypeOK
<1>2. Interest \in Nat /\ fee \in Nat /\ fee <= Interest
  BY InterestIsNat, MulDivIsNat, PartIsAtMost, MarketAssumption DEF LendingTypeOK
<1>3. /\ Assets(SupplyAssets) = t + Interest
      /\ Shares(SharesSupplied) = s + FeeShares
  BY <1>2, FeeSharesAreNat, MarketAssumption
     DEF Assets, Shares, SupplyAssets, SharesSupplied, LendingTypeOK
<1>4. FeeShares = MulDiv(fee, s, SupplyAssets - fee + VIRTUAL_ASSETS)
  BY DEF FeeShares, Shares
<1>5. SupplyAssets - fee + VIRTUAL_ASSETS = t + Interest - fee
  BY <1>2, MarketAssumption DEF Assets, SupplyAssets, LendingTypeOK
<1> HIDE DEF t, s, fee
<1>6. t + Interest - fee \in Nat \ {0}
  BY <1>1, <1>2
<1>7. FeeShares \in Nat /\ FeeShares * (t + Interest - fee) <= fee * s
  BY <1>1, <1>2, <1>4, <1>5, <1>6, MulDivBounds
<1>8. NoLower(t, s, t + Interest, s + FeeShares)
  BY <1>1, <1>2, <1>7, InterestIsFair
<1> QED BY <1>3, <1>8 DEF AccruedPrice, t, s

\* Whatever is fair to the accrued book is fair to the book before.
LEMMA FairAfterAccrual ==
    ASSUME LendingTypeOK, NEW t \in Nat, NEW s \in Nat,
           NoLower(Assets(SupplyAssets), Shares(SharesSupplied), t, s)
    PROVE  AccruedPrice(t, s)
<1>1. /\ Assets(SupplyAssets) \in Nat /\ Shares(SharesSupplied) \in Nat \ {0}
      /\ Assets(totalSupplyAssets) \in Nat /\ Shares(totalSupplyShares) \in Nat
  BY VirtualParts, AccruedBooks DEF LendingTypeOK
<1>2. AccruedPrice(Assets(SupplyAssets), Shares(SharesSupplied))
  BY AccrualIsFair
<1> QED BY <1>1, <1>2, PricesChain DEF AccruedPrice

PriceHolds == AccruedPrice(Assets(totalSupplyAssets'), Shares(totalSupplyShares'))

LEMMA HoldingPrice ==
    ASSUME LendingTypeOK, LendingTypeOK', PriceHolds
    PROVE  ~SharePriceFalls
<1> DEFINE p == Assets(totalSupplyAssets) * Shares(totalSupplyShares')
           q == Assets(totalSupplyAssets') * Shares(totalSupplyShares)
<1>1. p \in Nat /\ q \in Nat
  BY VirtualParts, ProductIsNat DEF LendingTypeOK
<1>2. p <= q
  BY DEF PriceHolds, AccruedPrice, NoLower
<1>3. SharePriceFalls <=> q < p
  BY DEF SharePriceFalls, Assets, Shares
<1> HIDE DEF p, q
<1> QED BY <1>1, <1>2, <1>3

LEMMA AccruedHolds ==
    ASSUME LendingTypeOK, AccrueSupply
    PROVE  PriceHolds
BY AccrualIsFair DEF PriceHolds, AccrueSupply

LEMMA SupplyHolds ==
    ASSUME LendingTypeOK, NEW a \in Accounts, NEW assets \in Nat, Supply(a, assets)
    PROVE  PriceHolds
<1> DEFINE shares == ToSupplyShares(assets)
           t == Assets(SupplyAssets)
           s == Shares(SharesSupplied)
<1>1. t \in Nat \ {0} /\ s \in Nat \ {0} /\ SupplyAssets \in Nat /\ SharesSupplied \in Nat
  BY VirtualParts, AccruedBooks
<1>2. shares = MulDiv(assets, s, t)
  BY DEF ToSupplyShares, Assets, Shares
<1>3. totalSupplyAssets' = SupplyAssets + assets /\ totalSupplyShares' = SharesSupplied + shares
  BY DEF Supply
<1> HIDE DEF shares
<1>4. shares \in Nat
  BY RatesAreNat DEF shares
<1>5. Assets(totalSupplyAssets') = t + assets /\ Shares(totalSupplyShares') = s + shares
  BY <1>1, <1>3, <1>4, MarketAssumption DEF Assets, Shares
<1> HIDE DEF t, s
<1>6. shares * t <= assets * s
  BY <1>1, <1>2, MulDivBounds
<1>7. NoLower(t, s, t + assets, s + shares)
  BY <1>1, <1>4, <1>6, IssueIsFair
<1>8. t + assets \in Nat /\ s + shares \in Nat
  BY <1>1, <1>4
<1> QED BY <1>5, <1>7, <1>8, FairAfterAccrual DEF PriceHolds, t, s

LEMMA WithdrawHolds ==
    ASSUME LendingTypeOK, NEW a \in Accounts, NEW assets \in Nat, Withdraw(a, assets)
    PROVE  PriceHolds
<1> DEFINE shares == ToSupplySharesUp(assets)
           t == Assets(SupplyAssets)
           s == Shares(SharesSupplied)
<1>1. /\ t \in Nat \ {0} /\ s \in Nat \ {0}
      /\ SupplyAssets \in Nat /\ BorrowAssets \in Nat /\ SharesSupplied \in Nat
  BY VirtualParts, AccruedBooks
<1>2. shares = MulDivUp(assets, s, t)
  BY DEF ToSupplySharesUp, Assets, Shares
<1>3. /\ totalSupplyAssets' = SupplyAssets - assets /\ totalSupplyShares' = SharesSupplied - shares
      /\ shares <= SharesSupplied /\ assets <= SupplyAssets - BorrowAssets
  BY DEF Withdraw, WithdrawFor
<1> HIDE DEF shares
<1>4. shares \in Nat
  BY RatesAreNat DEF shares
<1>5. /\ Assets(totalSupplyAssets') = t - assets /\ Shares(totalSupplyShares') = s - shares
      /\ assets <= t /\ shares <= s
  BY <1>1, <1>3, <1>4, MarketAssumption DEF Assets, Shares
<1> HIDE DEF t, s
<1>6. assets * s <= shares * t
  BY <1>1, <1>2, MulDivUpBounds
<1>7. NoLower(t, s, t - assets, s - shares)
  BY <1>1, <1>4, <1>5, <1>6, BurnIsFair
<1>8. t - assets \in Nat /\ s - shares \in Nat
  BY <1>1, <1>4, <1>5
<1> QED BY <1>5, <1>7, <1>8, FairAfterAccrual DEF PriceHolds, t, s

\* A liquidation that realizes no bad debt is an accrual to the lenders' book; one
\* that does ends a debt, with its collateral, for less than it was.
LEMMA LiquidateCosts ==
    ASSUME LendingTypeOK, NEW b \in Accounts, NEW assets \in Nat, Liquidate(b, assets)
    PROVE  PriceHolds \/ WritesOff
<1> DEFINE repaid   == Terms(b, assets).repaid
           seized   == Terms(b, assets).seized
           settled  == SettledShares(b, repaid)
           residual == ResidualShares(b, repaid, seized)
           badDebt  == BadDebt(b, repaid, seized)
<1>1. /\ repaid \in Nat /\ seized \in Nat /\ seized <= collateralOf[b] /\ repaid <= Debt(b)
      /\ Debt(b) \in Nat
  BY TermsAreWithin, DebtIsNat DEF Liquidate
<1>2. /\ WriteOff(b, repaid, seized)
      /\ totalSupplyShares' = SharesSupplied
      /\ collateralOf' = [collateralOf EXCEPT ![b] = @ - seized]
      /\ cash' = cash + repaid
  BY DEF Liquidate
<1> HIDE DEF repaid, seized
<1>3. /\ borrowShares' = [borrowShares EXCEPT ![b] = @ - settled - residual]
      /\ settled <= borrowShares[b] /\ settled + residual <= borrowShares[b]
      /\ totalSupplyAssets' = IF SupplyAssets > badDebt THEN SupplyAssets - badDebt ELSE 0
  BY <1>2 DEF WriteOff, CanSettle
<1>4. settled = (IF repaid = Debt(b) THEN borrowShares[b] ELSE ToBorrowShares(repaid))
  BY DEF SettledShares
<1>5. residual = IF seized = collateralOf[b] THEN borrowShares[b] - settled ELSE 0
  BY DEF ResidualShares
<1>6. residual = 0 => badDebt = 0
  BY DEF BadDebt, DebtOn
<1> HIDE DEF settled, residual, badDebt
<1>7. /\ borrowShares \in [Accounts -> Nat] /\ collateralOf \in [Accounts -> Nat]
      /\ cash \in Nat /\ SupplyAssets \in Nat
  BY AccruedBooks DEF LendingTypeOK
<1>8. settled \in Nat
  BY <1>1, <1>4, <1>7, RatesAreNat
<1>9. CASE residual = 0
  <2>1. totalSupplyAssets' = SupplyAssets
    BY <1>3, <1>6, <1>7, <1>9
  <2> QED BY <1>2, <2>1, AccrualIsFair DEF PriceHolds
<1>10. CASE residual # 0
  <2>1. seized = collateralOf[b] /\ residual = borrowShares[b] - settled
    BY <1>5, <1>10
  <2>2. settled # borrowShares[b]
    BY <1>7, <1>10, <2>1
  <2>3. repaid < Debt(b)
    BY <1>1, <1>4, <2>2
  <2>4. borrowShares[b] > 0 /\ borrowShares'[b] = 0
    BY <1>3, <1>7, <1>8, <1>10, <2>1
  <2>5. collateralOf'[b] = 0
    BY <1>2, <1>7, <2>1
  <2>6. cash' - cash = repaid
    BY <1>1, <1>2, <1>7
  <2> QED BY <2>3, <2>4, <2>5, <2>6 DEF WritesOff
<1> QED BY <1>9, <1>10

LEMMA SameBookHolds ==
    ASSUME LendingTypeOK, UNCHANGED supplyBook
    PROVE  PriceHolds
<1>1. Assets(totalSupplyAssets) * Shares(totalSupplyShares) \in Nat
  BY VirtualParts, ProductIsNat DEF LendingTypeOK
<1> QED BY <1>1 DEF PriceHolds, AccruedPrice, NoLower

LEMMA StepHoldsPrice ==
    ASSUME LendingTypeOK, [Next]_vars
    PROVE  PriceHolds \/ WritesOff
<1>1. ASSUME NEW a \in Lenders, NEW amount \in Amounts, LenderStep(a, amount)
      PROVE  PriceHolds
  <2>1. a \in Accounts /\ amount \in Nat
    BY MarketAssumption
  <2> QED BY <1>1, <2>1, SupplyHolds, WithdrawHolds DEF LenderStep
<1>2. ASSUME NEW b \in Borrowers, NEW amount \in Amounts, BorrowerStep(b, amount)
      PROVE  PriceHolds \/ WritesOff
  <2>1. b \in Accounts /\ amount \in Nat
    BY MarketAssumption
  <2>2. CASE Liquidate(b, amount)
    BY <2>1, <2>2, LiquidateCosts
  <2>3. CASE DepositCollateral(b, amount)
    BY <2>3, SameBookHolds DEF DepositCollateral
  <2>4. CASE WithdrawCollateral(b, amount) \/ Borrow(b, amount) \/ Repay(b, amount)
    BY <2>4, AccruedHolds DEF WithdrawCollateral, Borrow, Repay
  <2> QED BY <1>2, <2>2, <2>3, <2>4 DEF BorrowerStep
<1>3. CASE Accrue \/ \E bps \in ProtocolFees : SetProtocolFee(bps)
  BY <1>3, AccruedHolds DEF Accrue, SetProtocolFee
<1>4. CASE \/ \E value \in BOOLEAN : SetPaused(value)
           \/ \E params \in RiskParams : SetRiskParams(params)
           \/ \E newCaps \in Caps : SetCaps(newCaps)
           \/ \E new \in Prices \cup {None} : PriceMoves(new)
           \/ TimePasses
           \/ UNCHANGED vars
  BY <1>4, SameBookHolds DEF SetPaused, SetRiskParams, SetCaps, PriceMoves, TimePasses, vars
<1> QED BY <1>1, <1>2, <1>3, <1>4 DEF Next

\* Lenders lose to bad debt only: however every conversion rounds and whatever
\* interest, fees, entries, exits, loans and repayments precede it, no step lowers
\* the price of a supply share but one that writes a debt off.
THEOREM LendersLoseToBadDebtOnly == Spec => OnlyBadDebtCostsLenders
<1>1. MarketInv /\ [Next]_vars => [SharePriceFalls => WritesOff]_vars
  <2> SUFFICES ASSUME MarketInv, [Next]_vars, SharePriceFalls PROVE WritesOff
    OBVIOUS
  <2>1. LendingTypeOK /\ LendingTypeOK'
    BY StepKeepsInv DEF MarketInv
  <2> QED BY <2>1, StepHoldsPrice, HoldingPrice
<1> QED BY <1>1, MarketInvHolds, PTL DEF Spec, OnlyBadDebtCostsLenders

=============================================================================
