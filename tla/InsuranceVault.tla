--------------------------- MODULE InsuranceVault ---------------------------
(***************************************************************************)
(* InsuranceVault.sol: one vault that pools LP deposits and premiums,      *)
(* commits capital to portfolios and reserves and pays their claims.       *)
(*                                                                         *)
(* The vault holds one pot of USDC (balance).  Everything else is a claim  *)
(* on that pot: unearned premium (UPR), claim reserves, accrued fees and,  *)
(* for what is left, the LPs' shares.  Portfolio allocations are a lock on *)
(* withdrawals, not a transfer.                                            *)
(*                                                                         *)
(* One action per external function; every modifier, accrual and sweep the *)
(* function runs is part of its action.  The caller of an action holds the *)
(* role its modifier demands.                                              *)
(***************************************************************************)
EXTENDS PolicyRegistry, PortfolioRegistry, Functions

CONSTANTS LPs,               \* accounts that hold nbUSDC
          Amounts,           \* the USDC amounts a call may carry
          ShareAmounts,      \* the share amounts mint, redeem, transfer may carry
          DepositCaps,       \* the caps setDepositCap may set (UNCAPPED = 0)
          InvestorLimits,    \* per-investor limits compliance may set (0 = none)
          Standings,         \* the standings compliance may give an LP
          VIRTUAL_SHARES,    \* 10 ^ _decimalsOffset()
          BASIS_POINTS, SECONDS_PER_YEAR,
          bufferRatioBps, managementFeeBps,
          MAX_ACTIVE_POLICIES, MAX_PREMIUM_PORTFOLIOS,
          MaxBalance,        \* bound: the most USDC a run lets into the vault
          MaxSupply,         \* bound: the most shares a run mints
          MaxPremium         \* bound: the most premium a run lets in

ASSUME VaultAssumption ==
    /\ IsFiniteSet(LPs)
    /\ Amounts \subseteq Nat \ {0}
    /\ ShareAmounts \subseteq Nat \ {0}
    /\ DepositCaps \subseteq Nat
    /\ InvestorLimits \subseteq Nat
    /\ VIRTUAL_SHARES \in Nat \ {0}
    /\ BASIS_POINTS \in Nat \ {0}
    /\ SECONDS_PER_YEAR \in Nat \ {0}
    /\ bufferRatioBps \in 0..BASIS_POINTS
    /\ managementFeeBps \in 0..BASIS_POINTS
    /\ MAX_ACTIVE_POLICIES \in Nat
    /\ MAX_PREMIUM_PORTFOLIOS \in Nat
    /\ MaxBalance \in Nat
    /\ MaxSupply \in Nat
    /\ MaxPremium \in Nat

VARIABLES
    standing,                \* what ComplianceRegistry says of each LP
    investorLimit,           \* its per-investor limit
    balance,                 \* USDC.balanceOf(vault)
    shares, totalSupply,     \* nbUSDC per LP, and in total
    depositCap,
    policyAdded, premiumDeposited, activePolicies, premiumPolicies,
    portfolioAllocation, totalPortfolioAllocated,
    portfolioPremium, premiumPortfolios, totalPremiumReceived,
    totalPendingClaims, accumulatedFees, lastFeeTimestamp

complianceVars == <<standing, investorLimit>>
shareVars      == <<shares, totalSupply>>
policySetVars  == <<policyAdded, premiumDeposited>>
sweptVars      == <<activePolicies, premiumPolicies, premiumPortfolios>>
allocationVars == <<portfolioAllocation, totalPortfolioAllocated>>
premiumVars    == <<portfolioPremium, totalPremiumReceived>>
feeVars        == <<accumulatedFees, lastFeeTimestamp>>
vaultVars      == <<balance, shareVars, depositCap, policySetVars, sweptVars,
                    allocationVars, premiumVars, totalPendingClaims, feeVars>>
worldVars      == <<blockTime, policyVars, portfolioVars, complianceVars>>
vars           == <<worldVars, vaultVars>>

-----------------------------------------------------------------------------
(***************************************************************************)
(* Compliance, as the vault sees it: an eligible account may receive       *)
(* shares, one that lost its whitelist entry or its KYC may only exit, a   *)
(* blocked one may do neither.                                             *)
(***************************************************************************)
Standing == {"eligible", "exit only", "blocked"}

ASSUME StandingAssumption == Standings \subseteq Standing

CanReceive(lp) == standing[lp] = "eligible"
IsBlocked(lp)  == standing[lp] = "blocked"

\* requireCanTransfer of the share token's _update hook.
CanMintTo(lp)          == CanReceive(lp)
CanBurnFrom(lp)        == ~IsBlocked(lp)
CanTransfer(from, to)  == ~IsBlocked(from) /\ CanReceive(to)

-----------------------------------------------------------------------------
(***************************************************************************)
(* Unearned premium.  A policy earns on the virtual clock and rounds down; *)
(* a portfolio earns on the block clock and rounds up.                     *)
(***************************************************************************)
Monus(a, b)    == IF a > b THEN a - b ELSE 0
Least(a, b)    == IF a < b THEN a ELSE b
CeilDiv(a, b)  == (a + b - 1) \div b

PolicyUnearned(p) ==
    LET elapsed == Monus(CurrentTime, policies[p].startTime)
        left    == Monus(policies[p].duration, elapsed)
    IN  IF left = 0 THEN 0
        ELSE (premiumDeposited[p] * left) \div policies[p].duration

PortfolioUnearned(f) ==
    LET t == pfTerms[f]
    IN  IF CoverageOver(f) THEN 0
        ELSE IF blockTime <= t.inceptionTime THEN portfolioPremium[f]
        ELSE CeilDiv(portfolioPremium[f] * (t.expiryTime - blockTime),
                     t.expiryTime - t.inceptionTime)

TotalUnearnedPremiums ==
    SumFunctionOnSet([p \in Policies |-> PolicyUnearned(p)], premiumPolicies)
    + SumFunctionOnSet([f \in Portfolios |-> PortfolioUnearned(f)],
                       premiumPortfolios)

-----------------------------------------------------------------------------
(***************************************************************************)
(* Fees and net asset value.                                               *)
(***************************************************************************)
Liabilities  == TotalUnearnedPremiums + totalPendingClaims
PreFeeAssets == Monus(balance, Liabilities)

\* The unsigned subtraction currentTime() - lastFeeTimestamp reverts when
\* the clock is behind the last accrual.
FeeClockReadable == lastFeeTimestamp <= CurrentTime

NewFees ==
    (PreFeeAssets * managementFeeBps * (CurrentTime - lastFeeTimestamp))
        \div (BASIS_POINTS * SECONDS_PER_YEAR)

AccruedFees == accumulatedFees + NewFees

AccrueFees == /\ FeeClockReadable
              /\ accumulatedFees' = AccruedFees
              /\ lastFeeTimestamp' = CurrentTime

TotalAssets == Monus(PreFeeAssets, AccruedFees)

\* ERC-4626 conversions with the virtual share offset.
SharesFor(assets, round(_, _)) ==
    round(assets * (totalSupply + VIRTUAL_SHARES), TotalAssets + 1)
AssetsFor(amount, round(_, _)) ==
    round(amount * (TotalAssets + 1), totalSupply + VIRTUAL_SHARES)
Down(a, b) == a \div b

\* An unset cap or limit allows type(uint256).max; no run brings in more
\* than MaxBalance, which stands for it.
Unless(unset, limit) == IF unset THEN MaxBalance ELSE limit

MaxDeposit(lp) ==
    IF ~CanReceive(lp) THEN 0
    ELSE Least(Unless(depositCap = 0, Monus(depositCap, TotalAssets)),
               Unless(investorLimit[lp] = 0,
                      Monus(investorLimit[lp], AssetsFor(shares[lp], Down))))

MaxMint(lp) == SharesFor(MaxDeposit(lp), Down)

\* Mutant: the committed capital is not locked.
BufferIgnoringCommitted ==
    Monus(balance, totalPendingClaims + TotalUnearnedPremiums)

AvailableBuffer ==
    Monus(balance, totalPendingClaims + totalPortfolioAllocated
                   + TotalUnearnedPremiums)

MaxWithdraw(lp) == IF IsBlocked(lp) THEN 0
                   ELSE Least(AssetsFor(shares[lp], Down), AvailableBuffer)
MaxRedeem(lp)   == SharesFor(MaxWithdraw(lp), Down)

UnderwritingCapacity ==
    Monus((PreFeeAssets * (BASIS_POINTS - bufferRatioBps)) \div BASIS_POINTS,
          totalPortfolioAllocated)

-----------------------------------------------------------------------------
(***************************************************************************)
(* The sweep checkExpiredPolicies runs before most functions.              *)
(***************************************************************************)
\* Mutant: a portfolio that is not active yet is swept as well.
ActivePortfolios ==
    {f \in premiumPortfolios : ~CoverageOver(f) /\ pfStatus[f] = "ACTIVE"}

LivePolicies   == {p \in activePolicies : ~IsPolicyExpired(p)}
SweptPolicies  == activePolicies \ LivePolicies
LivePortfolios == {f \in premiumPortfolios : ~CoverageOver(f)}
KeptPolicies   == premiumPolicies \ SweptPolicies

SweepExpired == /\ activePolicies' = LivePolicies
                /\ premiumPolicies' = KeptPolicies
                /\ premiumPortfolios' = LivePortfolios

CanPullIn(amount)  == balance + amount <= MaxBalance
CanPullPremium(amount) == /\ CanPullIn(amount)
                          /\ totalPremiumReceived + amount <= MaxPremium

-----------------------------------------------------------------------------
(***************************************************************************)
(* LP entry and exit (ERC-4626).                                           *)
(***************************************************************************)
\* Mutant: a deposit is pulled in first, and the fee accrued on it as well.
EnterBeforeAccrual(lp, assets, amount) ==
    /\ CanMintTo(lp)
    /\ CanPullIn(assets)
    /\ totalSupply + amount <= MaxSupply
    /\ SweepExpired
    /\ FeeClockReadable
    /\ accumulatedFees' = AccruedFees
          + (assets * managementFeeBps * (CurrentTime - lastFeeTimestamp))
               \div (BASIS_POINTS * SECONDS_PER_YEAR)
    /\ lastFeeTimestamp' = CurrentTime
    /\ balance' = balance + assets
    /\ shares' = [shares EXCEPT ![lp] = @ + amount]
    /\ totalSupply' = totalSupply + amount
    /\ UNCHANGED <<worldVars, depositCap, policySetVars, allocationVars,
                   premiumVars, totalPendingClaims>>

EnterVault(lp, assets, amount) ==
    /\ CanMintTo(lp)
    /\ CanPullIn(assets)
    /\ totalSupply + amount <= MaxSupply
    /\ SweepExpired
    /\ AccrueFees
    /\ balance' = balance + assets
    /\ shares' = [shares EXCEPT ![lp] = @ + amount]
    /\ totalSupply' = totalSupply + amount
    /\ UNCHANGED <<worldVars, depositCap, policySetVars, allocationVars,
                   premiumVars, totalPendingClaims>>

\* Mutant: an exit takes its assets out before the fee on them is accrued.
LeaveWithoutAccrual(lp, assets, amount) ==
    /\ CanBurnFrom(lp)
    /\ assets <= AvailableBuffer
    /\ amount <= shares[lp]
    /\ amount <= totalSupply
    /\ SweepExpired
    /\ balance' = balance - assets
    /\ shares' = [shares EXCEPT ![lp] = @ - amount]
    /\ totalSupply' = totalSupply - amount
    /\ UNCHANGED <<worldVars, depositCap, policySetVars, allocationVars,
                   premiumVars, totalPendingClaims, feeVars>>

LeaveVault(lp, assets, amount) ==
    /\ CanBurnFrom(lp)
    /\ assets <= AvailableBuffer
    /\ amount <= shares[lp]
    /\ amount <= totalSupply        \* no balance of the token exceeds its supply
    /\ SweepExpired
    /\ AccrueFees
    /\ balance' = balance - assets
    /\ shares' = [shares EXCEPT ![lp] = @ - amount]
    /\ totalSupply' = totalSupply - amount
    /\ UNCHANGED <<worldVars, depositCap, policySetVars, allocationVars,
                   premiumVars, totalPendingClaims>>

Deposit(lp, assets) ==
    /\ assets <= MaxDeposit(lp)
    /\ EnterVault(lp, assets, SharesFor(assets, Down))

Mint(lp, amount) ==
    /\ amount <= MaxMint(lp)
    /\ EnterVault(lp, AssetsFor(amount, CeilDiv), amount)

Withdraw(lp, assets) ==
    /\ assets <= MaxWithdraw(lp)
    /\ LeaveVault(lp, assets, SharesFor(assets, CeilDiv))

Redeem(lp, amount) ==
    /\ amount <= MaxRedeem(lp)
    /\ LeaveVault(lp, AssetsFor(amount, Down), amount)

TransferShares(from, to, amount) ==
    /\ from # to
    /\ CanTransfer(from, to)
    /\ amount <= shares[from]
    /\ shares' = [shares EXCEPT ![from] = @ - amount, ![to] = @ + amount]
    /\ UNCHANGED <<worldVars, balance, totalSupply, depositCap, policySetVars,
                   sweptVars, allocationVars, premiumVars,
                   totalPendingClaims, feeVars>>

SetDepositCap(newCap) ==
    /\ depositCap' = newCap
    /\ UNCHANGED <<worldVars, balance, shareVars, policySetVars, sweptVars,
                   allocationVars, premiumVars, totalPendingClaims, feeVars>>

-----------------------------------------------------------------------------
(***************************************************************************)
(* Policies and premiums.                                                  *)
(***************************************************************************)
AddPolicy(p) ==
    /\ p \notin policyAdded
    /\ Cardinality(LivePolicies) < MAX_ACTIVE_POLICIES
    /\ policies[p].status = "ACTIVE"
    /\ policyAdded' = policyAdded \cup {p}
    /\ activePolicies' = LivePolicies \cup {p}
    /\ premiumPolicies' = KeptPolicies
    /\ premiumPortfolios' = LivePortfolios
    /\ premiumDeposited' = [premiumDeposited EXCEPT ![p] = 0]
    /\ UNCHANGED <<worldVars, balance, shareVars, depositCap, allocationVars,
                   premiumVars, totalPendingClaims, feeVars>>

DepositPremium(p, amount) ==
    /\ p \in policyAdded
    /\ p \notin KeptPolicies => Cardinality(KeptPolicies) < MAX_ACTIVE_POLICIES
    /\ CanPullPremium(amount)
    /\ AccrueFees
    /\ premiumDeposited' = [premiumDeposited EXCEPT ![p] = @ + amount]
    /\ activePolicies' = LivePolicies
    /\ premiumPolicies' = KeptPolicies \cup {p}
    /\ premiumPortfolios' = LivePortfolios
    /\ totalPremiumReceived' = totalPremiumReceived + amount
    /\ balance' = balance + amount
    /\ UNCHANGED <<worldVars, shareVars, depositCap, policyAdded,
                   allocationVars, portfolioPremium, totalPendingClaims>>

RecordPortfolioPremium(f, amount) ==
    /\ IsAllocatable(f)
    /\ f \notin LivePortfolios =>
          Cardinality(LivePortfolios) < MAX_PREMIUM_PORTFOLIOS
    /\ CanPullPremium(amount)
    /\ AccrueFees
    /\ portfolioPremium' = [portfolioPremium EXCEPT ![f] = @ + amount]
    /\ activePolicies' = LivePolicies
    /\ premiumPolicies' = KeptPolicies
    /\ premiumPortfolios' = LivePortfolios \cup {f}
    /\ totalPremiumReceived' = totalPremiumReceived + amount
    /\ balance' = balance + amount
    /\ UNCHANGED <<worldVars, shareVars, depositCap, policySetVars,
                   allocationVars, totalPendingClaims>>

-----------------------------------------------------------------------------
(***************************************************************************)
(* Underwriting commitments, called by the bound VaultAllocator.           *)
(***************************************************************************)
AllocateToPortfolio(f, amount) ==
    /\ IsAllocatable(f)
    /\ amount <= UnderwritingCapacity
    /\ portfolioAllocation[f] + amount <= pfTerms[f].coverageLimit
    /\ SweepExpired
    /\ AccrueFees
    /\ portfolioAllocation' = [portfolioAllocation EXCEPT ![f] = @ + amount]
    /\ totalPortfolioAllocated' = totalPortfolioAllocated + amount
    /\ UNCHANGED <<worldVars, balance, shareVars, depositCap, policySetVars,
                   premiumVars, totalPendingClaims>>

DeallocateFromPortfolio(f, amount) ==
    /\ amount <= portfolioAllocation[f]
    /\ amount <= totalPortfolioAllocated      \* checked subtraction
    /\ SweepExpired
    /\ AccrueFees
    /\ portfolioAllocation' = [portfolioAllocation EXCEPT ![f] = @ - amount]
    /\ totalPortfolioAllocated' = totalPortfolioAllocated - amount
    /\ UNCHANGED <<worldVars, balance, shareVars, depositCap, policySetVars,
                   premiumVars, totalPendingClaims>>

-----------------------------------------------------------------------------
(***************************************************************************)
(* Claims, called by the bound ClaimManager, and fees.  None of these four *)
(* runs the expiry sweep, and releasing a reserve accrues no fee.          *)
(***************************************************************************)
\* Mutant: the absorbed allocation stays in the running total.
ReserveKeepingTotal(f, amount) ==
    /\ amount <= PreFeeAssets
    /\ AccrueFees
    /\ portfolioAllocation' = [portfolioAllocation EXCEPT
          ![f] = @ - Least(portfolioAllocation[f], amount)]
    /\ totalPendingClaims' = totalPendingClaims + amount
    /\ UNCHANGED <<worldVars, balance, shareVars, depositCap, policySetVars,
                   sweptVars, totalPortfolioAllocated, premiumVars>>

\* Mutant: the solvency guard forgets the standing claim reserves.
ReserveIgnoringReserves(f, amount) ==
    LET released == Least(portfolioAllocation[f], amount)
    IN  /\ amount + TotalUnearnedPremiums <= balance
        /\ AccrueFees
        /\ portfolioAllocation' =
              [portfolioAllocation EXCEPT ![f] = @ - released]
        /\ totalPortfolioAllocated' = totalPortfolioAllocated - released
        /\ totalPendingClaims' = totalPendingClaims + amount
        /\ UNCHANGED <<worldVars, balance, shareVars, depositCap,
                       policySetVars, sweptVars, premiumVars>>

ReservePortfolioClaim(f, amount) ==
    LET released == Least(portfolioAllocation[f], amount)
    IN  /\ amount <= PreFeeAssets
        /\ released <= totalPortfolioAllocated   \* checked subtraction
        /\ AccrueFees
        /\ portfolioAllocation' =
              [portfolioAllocation EXCEPT ![f] = @ - released]
        /\ totalPortfolioAllocated' = totalPortfolioAllocated - released
        /\ totalPendingClaims' = totalPendingClaims + amount
        /\ UNCHANGED <<worldVars, balance, shareVars, depositCap,
                       policySetVars, sweptVars, premiumVars>>

\* Mutant: a release larger than the standing reserve goes through.
ReleaseUnchecked(amount) ==
    /\ totalPendingClaims' = totalPendingClaims - amount
    /\ UNCHANGED <<worldVars, balance, shareVars, depositCap, policySetVars,
                   sweptVars, allocationVars, premiumVars, feeVars>>

ReleasePortfolioClaimReserve(amount) ==
    /\ amount <= totalPendingClaims
    /\ totalPendingClaims' = totalPendingClaims - amount
    /\ UNCHANGED <<worldVars, balance, shareVars, depositCap, policySetVars,
                   sweptVars, allocationVars, premiumVars, feeVars>>

PayPortfolioClaim(amount) ==
    /\ amount <= totalPendingClaims
    /\ amount <= balance            \* else the USDC transfer reverts
    /\ AccrueFees
    /\ totalPendingClaims' = totalPendingClaims - amount
    /\ balance' = balance - amount
    /\ UNCHANGED <<worldVars, shareVars, depositCap, policySetVars, sweptVars,
                   allocationVars, premiumVars>>

ClaimFees ==
    /\ FeeClockReadable
    /\ AccruedFees > 0
    /\ AccruedFees <= balance       \* else the USDC transfer reverts
    /\ accumulatedFees' = 0
    /\ lastFeeTimestamp' = CurrentTime
    /\ balance' = balance - AccruedFees
    /\ UNCHANGED <<worldVars, shareVars, depositCap, policySetVars, sweptVars,
                   allocationVars, premiumVars, totalPendingClaims>>

\* Anyone may transfer USDC to the vault's address: no code of the vault runs.
Donate(amount) ==
    /\ CanPullIn(amount)
    /\ balance' = balance + amount
    /\ UNCHANGED <<worldVars, shareVars, depositCap, policySetVars, sweptVars,
                   allocationVars, premiumVars, totalPendingClaims, feeVars>>

-----------------------------------------------------------------------------
(***************************************************************************)
(* The specification: the vault, and around it the clock, the registries   *)
(* and compliance moving on their own.                                     *)
(***************************************************************************)
VaultTypeOK ==
    /\ blockTime \in BlockTimes
    /\ PolicyTypeOK
    /\ PortfolioTypeOK
    /\ standing \in [LPs -> Standing]
    /\ investorLimit \in [LPs -> InvestorLimits \cup {0}]
    /\ balance \in 0..MaxBalance
    /\ shares \in [LPs -> Nat]
    /\ totalSupply \in 0..MaxSupply
    /\ depositCap \in DepositCaps \cup {0}
    /\ policyAdded \subseteq Policies
    /\ premiumDeposited \in [Policies -> Nat]
    /\ activePolicies \subseteq policyAdded
    /\ premiumPolicies \subseteq policyAdded
    /\ portfolioAllocation \in [Portfolios -> Nat]
    /\ totalPortfolioAllocated \in Nat
    /\ portfolioPremium \in [Portfolios -> Nat]
    /\ premiumPortfolios \subseteq Portfolios
    /\ totalPremiumReceived \in 0..MaxPremium
    /\ totalPendingClaims \in Nat
    /\ accumulatedFees \in Nat
    /\ lastFeeTimestamp \in Nat

Init ==
    /\ FirstBlock
    /\ PolicyInit
    /\ PortfolioInit
    /\ standing = [lp \in LPs |-> "exit only"]
    /\ investorLimit = [lp \in LPs |-> 0]
    /\ balance = 0
    /\ shares = [lp \in LPs |-> 0]
    /\ totalSupply = 0
    /\ depositCap = 0
    /\ policyAdded = {}
    /\ premiumDeposited = [p \in Policies |-> 0]
    /\ activePolicies = {}
    /\ premiumPolicies = {}
    /\ portfolioAllocation = [f \in Portfolios |-> 0]
    /\ totalPortfolioAllocated = 0
    /\ portfolioPremium = [f \in Portfolios |-> 0]
    /\ premiumPortfolios = {}
    /\ totalPremiumReceived = 0
    /\ totalPendingClaims = 0
    /\ accumulatedFees = 0
    /\ lastFeeTimestamp = CurrentTime

SetStanding(lp, s) ==
    /\ standing' = [standing EXCEPT ![lp] = s]
    /\ UNCHANGED <<blockTime, policyVars, portfolioVars, investorLimit, vaultVars>>

SetInvestorLimit(lp, limit) ==
    /\ investorLimit' = [investorLimit EXCEPT ![lp] = limit]
    /\ UNCHANGED <<blockTime, policyVars, portfolioVars, standing, vaultVars>>

WorldStep ==
    \/ Tick /\ UNCHANGED <<policyVars, portfolioVars, complianceVars, vaultVars>>
    \/ PolicyNext
         /\ UNCHANGED <<blockTime, portfolioVars, complianceVars, vaultVars>>
    \/ PortfolioNext
         /\ UNCHANGED <<blockTime, policyVars, complianceVars, vaultVars>>
    \/ \E lp \in LPs, s \in Standings : SetStanding(lp, s)
    \/ \E lp \in LPs, limit \in InvestorLimits : SetInvestorLimit(lp, limit)

LPStep ==
    \E lp \in LPs :
        \/ \E assets \in Amounts \cup {0} :
              Deposit(lp, assets) \/ Withdraw(lp, assets)
        \/ \E amount \in ShareAmounts : Mint(lp, amount) \/ Redeem(lp, amount)

OtherVaultStep ==
    \/ \E from, to \in LPs, amount \in ShareAmounts :
          TransferShares(from, to, amount)
    \/ \E cap \in DepositCaps : SetDepositCap(cap)
    \/ \E p \in Policies : AddPolicy(p)
    \/ \E p \in Policies, amount \in Amounts : DepositPremium(p, amount)
    \/ \E f \in Portfolios, amount \in Amounts :
          \/ RecordPortfolioPremium(f, amount)
          \/ AllocateToPortfolio(f, amount)
          \/ DeallocateFromPortfolio(f, amount)
          \/ ReservePortfolioClaim(f, amount)
    \/ \E amount \in Amounts :
          \/ ReleasePortfolioClaimReserve(amount)
          \/ PayPortfolioClaim(amount)
          \/ Donate(amount)
    \/ ClaimFees

Next == WorldStep \/ LPStep \/ OtherVaultStep

Spec == Init /\ [][Next]_vars

-----------------------------------------------------------------------------
(***************************************************************************)
(* Safety.                                                                 *)
(***************************************************************************)

\* Unearned premium is a liability made of premium: it never exceeds the
\* premium the vault ever received, whatever the rounding of its parts.
UprWithinPremiums == TotalUnearnedPremiums <= totalPremiumReceived

\* The running totals the vault keeps (totalSupply, totalPortfolioAllocated,
\* totalPremiumReceived) are the sums of the per-account and per-portfolio
\* books, through every path that moves either (allocation, deallocation and
\* the conversion of an allocation into a claim reserve), no portfolio holds
\* more than its coverage limit, and what is unearned was received.
BooksBalance ==
    /\ totalSupply = SumFunction(shares)
    /\ totalPortfolioAllocated = SumFunction(portfolioAllocation)
    /\ totalPremiumReceived = SumFunction(premiumDeposited)
                                + SumFunction(portfolioPremium)
    /\ \A f \in Portfolios : portfolioAllocation[f] <= pfTerms[f].coverageLimit
    /\ UprWithinPremiums

\* The expiry sweep never drops a premium that is still being earned: as long
\* as the clock has not been turned back, every policy and every portfolio
\* with an unearned part is in the set _totalUnearnedPremiums() walks.
PolicyUprComplete ==
    \A p \in Policies : PolicyUnearned(p) > 0 => p \in premiumPolicies
UprComplete ==
    /\ ~clockLocked => PolicyUprComplete
    /\ \A f \in Portfolios : PortfolioUnearned(f) > 0 => f \in premiumPortfolios

\* Until real time is locked in, the clock never stands before the last fee
\* accrual, so no accrual of the vault underflows.
FeeClockNeverAhead == ~clockLocked => FeeClockReadable

\* Claim reserves that are covered by cash stay covered: not a withdrawal, not
\* another claim, not a payout takes the cash from under them.  Collecting
\* fees is the one step that may, because neither the solvency guard of
\* reservePortfolioClaim() nor the buffer counts accrued fees as a liability.
ReservesCovered == totalPendingClaims <= balance
FeesCollected   == lastFeeTimestamp' = CurrentTime /\ accumulatedFees' < AccruedFees
OnlyFeesUncoverReserves ==
    [][ReservesCovered /\ ~FeesCollected => ReservesCovered']_vars

\* Unearned premium, claim reserves and committed capital together stay
\* covered by cash, whoever deposits, withdraws, earns, allocates or settles.
\* What may break it: collecting fees, a reserve larger than its portfolio's
\* own commitment (it eats into the others'), and turning the clock back.
CommitmentsCovered == Liabilities + totalPortfolioAllocated <= balance
CommitmentsStayCovered ==
    [][/\ CommitmentsCovered
       /\ PolicyUprComplete
       /\ ~FeesCollected
       /\ totalPendingClaims' <= totalPendingClaims
       /\ timeOffset' >= timeOffset
       => CommitmentsCovered']_vars

\* Shares are minted and burnt at a price that never favours the caller: the
\* value of one share does not fall when somebody else enters or leaves.
\* A vault whose deficit totalAssets() hides behind its floor of zero has no
\* such price, so the property speaks of the others.
Solvent == Liabilities + AccruedFees <= balance
EntryAndExitNeverDilute ==
    [][totalSupply' # totalSupply /\ Solvent
       => (TotalAssets' + 1) * (totalSupply + VIRTUAL_SHARES)
            >= (TotalAssets + 1) * (totalSupply' + VIRTUAL_SHARES)]_vars

\* Who enters, leaves, earns, allocates, reserves or is paid pays for its own time
\* only: while the clock stands still a call leaves the fee owed as it was, no more
\* and no less, or pays all of it out.  Two steps change the assets with no accrual
\* before: a plain transfer of USDC, which runs no code of the vault, and the release
\* of a claim reserve, see FeesAccrueOnEveryOperation.
Donated         == \E amount \in Amounts : Donate(amount)
ReserveReleased == \E amount \in Amounts : ReleasePortfolioClaimReserve(amount)
FeesOwedChangeOnlyWithTime ==
    [][CurrentTime' = CurrentTime /\ ~Donated /\ ~ReserveReleased
       => \/ AccruedFees' = AccruedFees
          \/ AccruedFees' = 0 /\ balance' = balance - AccruedFees]_vars

\* The vault implements the ledger the claim path relies on; with a management
\* fee of zero that ledger never lets cash fall below the claim reserves.
ClaimLedger == INSTANCE VaultReserve
                  WITH cash <- balance, reserved <- totalPendingClaims,
                       MaxCash <- MaxBalance,
                       FeesCharged <- (managementFeeBps # 0)
ImplementsClaimLedger == ClaimLedger!LedgerSpec

-----------------------------------------------------------------------------
(***************************************************************************)
(* What the repository says of the vault and the code does not do.         *)
(***************************************************************************)

\* VaultInvariant.t.sol: "Solvency: standing claim reserves are always backed
\* by vault cash" (the test runs with a management fee of zero).
ClaimReservesBacked == ReservesCovered

\* totalAssets(): "Floors at zero, never reverts."
TotalAssetsNeverReverts == PreFeeAssets = 0 \/ FeeClockReadable

\* _premiumPolicyIds: "Premium-bearing subset of the active policies, still
\* accruing UPR [...] pruned on expiry."
PremiumPoliciesAreActive == premiumPolicies \subseteq activePolicies

\* _accrueFeesInternal(): "Accrue fees to storage. Called on every
\* state-changing operation."  So none of them may change what is owed for
\* the time already past.
FeesAccrueOnEveryOperation ==
    [][CurrentTime' = CurrentTime /\ balance' <= balance
       => AccruedFees' <= AccruedFees]_vars
=============================================================================
