------------------------ MODULE InsuranceVaultProofs ------------------------
(***************************************************************************)
(* Proofs about InsuranceVault, for every value of its constants.          *)
(***************************************************************************)
EXTENDS InsuranceVault, SumFacts

-----------------------------------------------------------------------------
(***************************************************************************)
(* Arithmetic the provers need stated on its own.                          *)
(***************************************************************************)

\* The product of two naturals is a natural.
LEMMA ProductNat ==
    ASSUME NEW a \in Nat, NEW b \in Nat
    PROVE  a * b \in Nat
BY SMT

\* The quotient of a natural by a positive natural is a natural.
LEMMA QuotientNat ==
    ASSUME NEW a \in Nat, NEW b \in Nat \ {0}
    PROVE  a \div b \in Nat
BY SMT

LEMMA CeilDivNat ==
    ASSUME NEW a \in Nat, NEW b \in Nat \ {0}
    PROVE  CeilDiv(a, b) \in Nat
BY SMT DEF CeilDiv

LEMMA MonusNat ==
    ASSUME NEW a \in Nat, NEW b \in Nat
    PROVE  /\ Monus(a, b) \in Nat
           /\ Monus(a, b) <= a
           /\ a >= b => Monus(a, b) = a - b
           /\ a < b => Monus(a, b) = 0
BY SMT DEF Monus

LEMMA LeastNat ==
    ASSUME NEW a \in Nat, NEW b \in Nat
    PROVE  /\ Least(a, b) \in Nat
           /\ Least(a, b) <= a
           /\ Least(a, b) <= b
BY SMT DEF Least

\* A part of an amount, rounded down or up, is within the amount.
LEMMA QuotientBounds ==
    ASSUME NEW n \in Nat, NEW d \in Nat \ {0}
    PROVE  /\ n \div d \in Nat
           /\ (n \div d) * d <= n
           /\ n < (n \div d) * d + d
BY SMT

LEMMA ProductGrows ==
    ASSUME NEW a \in Nat, NEW b \in Nat, NEW c \in Nat, b <= c
    PROVE  a * b \in Nat /\ a * c \in Nat /\ a * b <= a * c
BY SMT

LEMMA ProductCancels ==
    ASSUME NEW a \in Nat, NEW b \in Nat, NEW d \in Nat \ {0}, a * d < b * d + d
    PROVE  a <= b
<1>1. b * d + d = (b + 1) * d
  BY SMT
<1>2. ASSUME b + 1 <= a PROVE FALSE
  <2>1. (b + 1) * d <= a * d
    BY <1>2, SMT
  <2> QED BY <1>1, <2>1, ProductNat
<1> QED BY <1>2

LEMMA PartWithin ==
    ASSUME NEW a \in Nat, NEW part \in Nat, NEW whole \in Nat \ {0}, part <= whole
    PROVE  /\ (a * part) \div whole \in Nat
           /\ (a * part) \div whole <= a
           /\ CeilDiv(a * part, whole) \in Nat
           /\ CeilDiv(a * part, whole) <= a
<1> DEFINE n == a * part
           down == n \div whole
           m == n + whole - 1
           up == m \div whole
<1>1. n \in Nat /\ a * whole \in Nat /\ n <= a * whole
  BY ProductGrows
<1>2. m \in Nat
  BY <1>1
<1> HIDE DEF n
<1>3. down \in Nat /\ down * whole <= n
  BY <1>1, QuotientBounds
<1>4. up \in Nat /\ up * whole <= m
  <2> HIDE DEF m
  <2> QED BY <1>2, QuotientBounds
<1> HIDE DEF down, up
<1>5. down * whole \in Nat /\ up * whole \in Nat
  BY <1>3, <1>4, ProductNat
<1>6. down <= a
  BY <1>1, <1>3, <1>5, ProductCancels
<1>7. up <= a
  BY <1>1, <1>4, <1>5, ProductCancels
<1> QED BY <1>3, <1>4, <1>6, <1>7 DEF n, down, up, CeilDiv

\* What is unearned of a premium is part of that premium.
LEMMA PolicyUnearnedFacts ==
    ASSUME VaultTypeOK, NEW p \in Policies
    PROVE  /\ PolicyUnearned(p) \in Nat
           /\ PolicyUnearned(p) <= premiumDeposited[p]
           /\ premiumDeposited[p] \in Nat
<1> DEFINE elapsed == Monus(CurrentTime, policies[p].startTime)
           left == Monus(policies[p].duration, elapsed)
<1>1. /\ premiumDeposited[p] \in Nat
      /\ policies[p].duration \in Nat /\ policies[p].startTime \in Nat
  BY DEF VaultTypeOK, PolicyTypeOK
<1>2. CurrentTime \in Nat
  BY PolicyAssumption, MaxBlockTimeAssumption
     DEF VaultTypeOK, PolicyTypeOK, BlockTimes, CurrentTime
<1>3. elapsed \in Nat
  BY <1>1, <1>2, MonusNat
<1>4. left \in Nat /\ left <= policies[p].duration
  <2> HIDE DEF elapsed
  <2> QED BY <1>1, <1>3, MonusNat
<1>5. PolicyUnearned(p) = IF left = 0 THEN 0
                          ELSE (premiumDeposited[p] * left) \div policies[p].duration
  BY DEF PolicyUnearned
<1> HIDE DEF left
<1>6. CASE left = 0
  BY <1>1, <1>5, <1>6
<1>7. CASE left # 0
  <2>1. policies[p].duration \in Nat \ {0}
    BY <1>1, <1>4, <1>7
  <2> QED BY <1>1, <1>4, <1>5, <1>7, <2>1, PartWithin
<1> QED BY <1>6, <1>7

LEMMA PortfolioUnearnedFacts ==
    ASSUME VaultTypeOK, NEW f \in Portfolios
    PROVE  /\ PortfolioUnearned(f) \in Nat
           /\ PortfolioUnearned(f) <= portfolioPremium[f]
           /\ portfolioPremium[f] \in Nat
<1> DEFINE left == pfTerms[f].expiryTime - blockTime
           term == pfTerms[f].expiryTime - pfTerms[f].inceptionTime
<1>1. /\ portfolioPremium[f] \in Nat
      /\ blockTime \in Nat
      /\ pfTerms[f] \in Terms \cup {NoTerms}
  BY MaxBlockTimeAssumption DEF VaultTypeOK, PortfolioTypeOK, BlockTimes
<1>2. PortfolioUnearned(f) =
        IF CoverageOver(f) THEN 0
        ELSE IF blockTime <= pfTerms[f].inceptionTime THEN portfolioPremium[f]
        ELSE CeilDiv(portfolioPremium[f] * left, term)
  BY DEF PortfolioUnearned
<1>3. CASE CoverageOver(f) \/ blockTime <= pfTerms[f].inceptionTime
  BY <1>1, <1>2, <1>3
<1>4. CASE ~CoverageOver(f) /\ ~(blockTime <= pfTerms[f].inceptionTime)
  <2>1. blockTime < pfTerms[f].expiryTime
        /\ pfTerms[f].inceptionTime \in Nat /\ pfTerms[f].expiryTime \in Nat
    <3>1. CASE pfTerms[f] \in Terms
      BY <1>1, <1>4, <3>1, TermsAssumption DEF CoverageOver
    <3>2. CASE pfTerms[f] = NoTerms
      BY <1>1, <1>4, <3>2 DEF CoverageOver, NoTerms
    <3> QED BY <1>1, <3>1, <3>2
  <2>2. left \in Nat /\ term \in Nat \ {0} /\ left <= term
    BY <1>1, <1>4, <2>1
  <2> HIDE DEF left, term
  <2>3. PortfolioUnearned(f) = CeilDiv(portfolioPremium[f] * left, term)
    BY <1>2, <1>4
  <2> QED BY <1>1, <2>2, <2>3, PartWithin
<1> QED BY <1>3, <1>4

\* The two sums of the unearned premium are sums of naturals.
PolicyUpr    == [p \in Policies |-> PolicyUnearned(p)]
PortfolioUpr == [f \in Portfolios |-> PortfolioUnearned(f)]

LEMMA UprCounted ==
    ASSUME VaultTypeOK
    PROVE  /\ Counted(PolicyUpr, premiumPolicies)
           /\ Counted(PortfolioUpr, premiumPortfolios)
<1>1. premiumPolicies \subseteq Policies /\ premiumPortfolios \subseteq Portfolios
  BY DEF VaultTypeOK
<1>2. IsFiniteSet(premiumPolicies) /\ IsFiniteSet(premiumPortfolios)
  BY <1>1, PolicyAssumption, PortfolioAssumption, FS_Subset
<1>3. \A p \in premiumPolicies : PolicyUpr[p] \in Nat
  BY <1>1, PolicyUnearnedFacts DEF PolicyUpr
<1>4. \A f \in premiumPortfolios : PortfolioUpr[f] \in Nat
  BY <1>1, PortfolioUnearnedFacts DEF PortfolioUpr
<1> QED BY <1>2, <1>3, <1>4 DEF Counted

LEMMA UprIs ==
    TotalUnearnedPremiums = SumFunctionOnSet(PolicyUpr, premiumPolicies)
                              + SumFunctionOnSet(PortfolioUpr, premiumPortfolios)
BY DEF TotalUnearnedPremiums, PolicyUpr, PortfolioUpr

LEMMA UprNat ==
    ASSUME VaultTypeOK
    PROVE  TotalUnearnedPremiums \in Nat
BY UprCounted, UprIs, SumOnNat

-----------------------------------------------------------------------------
(***************************************************************************)
(* What the vault computes from a well-typed state.                        *)
(***************************************************************************)

LEMMA CurrentTimeNat ==
    ASSUME VaultTypeOK
    PROVE  CurrentTime \in Nat
BY PolicyAssumption, MaxBlockTimeAssumption
   DEF VaultTypeOK, PolicyTypeOK, BlockTimes, CurrentTime

\* The cash a reserve may take is cash that no standing reserve needs.
LEMMA PreFeeAssetsFacts ==
    ASSUME VaultTypeOK
    PROVE  /\ PreFeeAssets \in Nat
           /\ PreFeeAssets <= balance
           /\ PreFeeAssets > 0 => totalPendingClaims + PreFeeAssets <= balance
<1>1. /\ balance \in Nat
      /\ totalPendingClaims \in Nat
  BY VaultAssumption DEF VaultTypeOK
<1>2. Liabilities \in Nat /\ totalPendingClaims <= Liabilities
  BY <1>1, UprNat DEF Liabilities
<1> QED
  BY <1>1, <1>2 DEF PreFeeAssets, Monus

\* The cash an LP may take is cash that no standing reserve needs.
LEMMA AvailableBufferFacts ==
    ASSUME VaultTypeOK
    PROVE  /\ AvailableBuffer \in Nat
           /\ AvailableBuffer <= balance
           /\ AvailableBuffer > 0 => totalPendingClaims + AvailableBuffer <= balance
<1>1. /\ balance \in Nat
      /\ totalPendingClaims \in Nat
      /\ totalPortfolioAllocated \in Nat
  BY VaultAssumption DEF VaultTypeOK
<1> QED
  BY <1>1, UprNat DEF AvailableBuffer, Monus

\* Without a fee rate nothing accrues.
LEMMA NewFeesFacts ==
    ASSUME VaultTypeOK, FeeClockReadable
    PROVE  /\ NewFees \in Nat
           /\ managementFeeBps = 0 => NewFees = 0
<1> DEFINE elapsed == CurrentTime - lastFeeTimestamp
           year    == BASIS_POINTS * SECONDS_PER_YEAR
<1>1. elapsed \in Nat
  BY CurrentTimeNat DEF VaultTypeOK, FeeClockReadable
<1>2. year \in Nat \ {0}
  BY VaultAssumption, SMT
<1>3. managementFeeBps \in Nat
  BY VaultAssumption
<1>4. PreFeeAssets \in Nat
  BY PreFeeAssetsFacts
<1> HIDE DEF elapsed, year
<1>5. PreFeeAssets * managementFeeBps \in Nat
  BY <1>3, <1>4, ProductNat
<1>6. PreFeeAssets * managementFeeBps * elapsed \in Nat
  BY <1>1, <1>5, ProductNat
<1>7. NewFees = (PreFeeAssets * managementFeeBps * elapsed) \div year
  BY DEF NewFees, elapsed, year
<1>8. NewFees \in Nat
  BY <1>2, <1>6, <1>7, QuotientNat
<1>9. ASSUME managementFeeBps = 0 PROVE NewFees = 0
  <2>1. PreFeeAssets * managementFeeBps * elapsed = 0
    BY <1>1, <1>4, <1>9
  <2>2. 0 \div year = 0
    BY <1>2
  <2> QED BY <1>7, <2>1, <2>2
<1> QED BY <1>8, <1>9

LEMMA AccruedFeesNat ==
    ASSUME VaultTypeOK, FeeClockReadable
    PROVE  AccruedFees \in Nat
BY NewFeesFacts DEF AccruedFees, VaultTypeOK

\* Both conversions of ERC-4626 stay within the naturals: the virtual share and
\* the virtual asset keep their divisors positive.
LEMMA ConversionsNat ==
    ASSUME VaultTypeOK, FeeClockReadable, NEW a \in Nat
    PROVE  /\ SharesFor(a, Down) \in Nat
           /\ SharesFor(a, CeilDiv) \in Nat
           /\ AssetsFor(a, Down) \in Nat
           /\ AssetsFor(a, CeilDiv) \in Nat
<1> DEFINE supply == totalSupply + VIRTUAL_SHARES
           assets == TotalAssets + 1
<1>1. supply \in Nat \ {0}
  BY VaultAssumption DEF VaultTypeOK
<1>2. assets \in Nat \ {0}
  <2>1. PreFeeAssets \in Nat /\ AccruedFees \in Nat
    BY PreFeeAssetsFacts, AccruedFeesNat
  <2>2. TotalAssets \in Nat
    BY <2>1 DEF TotalAssets, Monus
  <2> QED BY <2>2
<1> HIDE DEF supply, assets
<1>3. a * supply \in Nat /\ a * assets \in Nat
  BY <1>1, <1>2, ProductNat
<1>4. /\ (a * supply) \div assets \in Nat
      /\ CeilDiv(a * supply, assets) \in Nat
      /\ (a * assets) \div supply \in Nat
      /\ CeilDiv(a * assets, supply) \in Nat
  BY <1>1, <1>2, <1>3, QuotientNat, CeilDivNat
<1> QED
  BY <1>4 DEF SharesFor, AssetsFor, Down, supply, assets

-----------------------------------------------------------------------------
(***************************************************************************)
(* Every step keeps the types.  The tuples of variables stand for their    *)
(* members everywhere below.                                               *)
(***************************************************************************)
USE DEF clockVars, policyVars, portfolioVars, complianceVars, worldVars,
        shareVars, policySetVars, sweptVars, allocationVars, premiumVars,
        feeVars, vaultVars

\* The accrual keeps the fee books natural.
LEMMA AccrueFeesTypes ==
    ASSUME VaultTypeOK, AccrueFees
    PROVE  accumulatedFees' \in Nat /\ lastFeeTimestamp' \in Nat
BY CurrentTimeNat, AccruedFeesNat DEF AccrueFees

\* The sweep only drops policies and portfolios.
LEMMA SweptSubsets ==
    /\ LivePolicies \subseteq activePolicies
    /\ KeptPolicies \subseteq premiumPolicies
    /\ LivePortfolios \subseteq premiumPortfolios
BY DEF LivePolicies, KeptPolicies, LivePortfolios

LEMMA EnterVaultTypes ==
    ASSUME VaultTypeOK, NEW lp \in LPs, NEW assets \in Nat, NEW amount \in Nat,
           EnterVault(lp, assets, amount)
    PROVE  VaultTypeOK'
<1>1. /\ accumulatedFees' \in Nat
      /\ lastFeeTimestamp' \in Nat
  BY AccrueFeesTypes DEF EnterVault
<1>2. /\ activePolicies' \subseteq policyAdded'
      /\ premiumPolicies' \subseteq policyAdded'
      /\ premiumPortfolios' \subseteq Portfolios
  BY SweptSubsets DEF EnterVault, SweepExpired, VaultTypeOK
<1>3. /\ balance' \in 0..MaxBalance
      /\ totalSupply' \in 0..MaxSupply
  BY VaultAssumption DEF EnterVault, CanPullIn, VaultTypeOK
<1>4. shares' \in [LPs -> Nat]
  BY DEF EnterVault, VaultTypeOK
<1> QED
  BY <1>1, <1>2, <1>3, <1>4
  DEF EnterVault, VaultTypeOK, PolicyTypeOK, PortfolioTypeOK

LEMMA LeaveVaultTypes ==
    ASSUME VaultTypeOK, NEW lp \in LPs, NEW assets \in Nat, NEW amount \in Nat,
           LeaveVault(lp, assets, amount)
    PROVE  VaultTypeOK'
<1>1. /\ accumulatedFees' \in Nat
      /\ lastFeeTimestamp' \in Nat
  BY AccrueFeesTypes DEF LeaveVault
<1>2. /\ activePolicies' \subseteq policyAdded'
      /\ premiumPolicies' \subseteq policyAdded'
      /\ premiumPortfolios' \subseteq Portfolios
  BY SweptSubsets DEF LeaveVault, SweepExpired, VaultTypeOK
<1>3. balance' \in 0..MaxBalance
  BY VaultAssumption, AvailableBufferFacts DEF LeaveVault, VaultTypeOK
<1>4. totalSupply' \in 0..MaxSupply
  BY VaultAssumption DEF LeaveVault, VaultTypeOK
<1>5. shares' \in [LPs -> Nat]
  BY DEF LeaveVault, VaultTypeOK
<1> QED
  BY <1>1, <1>2, <1>3, <1>4, <1>5
  DEF LeaveVault, VaultTypeOK, PolicyTypeOK, PortfolioTypeOK

LEMMA LPStepTypes ==
    ASSUME VaultTypeOK, LPStep
    PROVE  VaultTypeOK'
<1>1. PICK lp \in LPs :
         \/ \E assets \in Amounts \cup {0} :
               Deposit(lp, assets) \/ Withdraw(lp, assets)
         \/ \E amount \in ShareAmounts : Mint(lp, amount) \/ Redeem(lp, amount)
  BY DEF LPStep
<1>2. Amounts \cup {0} \subseteq Nat /\ ShareAmounts \subseteq Nat
  BY VaultAssumption
<1>3. ASSUME NEW assets \in Amounts \cup {0}, Deposit(lp, assets)
      PROVE  VaultTypeOK'
  <2>1. EnterVault(lp, assets, SharesFor(assets, Down)) /\ FeeClockReadable
    BY <1>3 DEF Deposit, EnterVault, AccrueFees
  <2> QED BY <1>2, <2>1, ConversionsNat, EnterVaultTypes
<1>4. ASSUME NEW assets \in Amounts \cup {0}, Withdraw(lp, assets)
      PROVE  VaultTypeOK'
  <2>1. LeaveVault(lp, assets, SharesFor(assets, CeilDiv)) /\ FeeClockReadable
    BY <1>4 DEF Withdraw, LeaveVault, AccrueFees
  <2> QED BY <1>2, <2>1, ConversionsNat, LeaveVaultTypes
<1>5. ASSUME NEW amount \in ShareAmounts, Mint(lp, amount)
      PROVE  VaultTypeOK'
  <2>1. EnterVault(lp, AssetsFor(amount, CeilDiv), amount) /\ FeeClockReadable
    BY <1>5 DEF Mint, EnterVault, AccrueFees
  <2> QED BY <1>2, <2>1, ConversionsNat, EnterVaultTypes
<1>6. ASSUME NEW amount \in ShareAmounts, Redeem(lp, amount)
      PROVE  VaultTypeOK'
  <2>1. LeaveVault(lp, AssetsFor(amount, Down), amount) /\ FeeClockReadable
    BY <1>6 DEF Redeem, LeaveVault, AccrueFees
  <2> QED BY <1>2, <2>1, ConversionsNat, LeaveVaultTypes
<1> QED BY <1>1, <1>3, <1>4, <1>5, <1>6

LEMMA WorldStepTypes ==
    ASSUME VaultTypeOK, WorldStep
    PROVE  VaultTypeOK'
<1>1. ASSUME Tick, UNCHANGED <<policyVars, portfolioVars, complianceVars, vaultVars>>
      PROVE  VaultTypeOK'
  <2>1. blockTime' \in BlockTimes
    BY <1>1, MaxBlockTimeAssumption DEF VaultTypeOK, Tick, BlockTimes
  <2> QED BY <1>1, <2>1 DEF VaultTypeOK, PolicyTypeOK, PortfolioTypeOK, BlockTimes
<1>2. ASSUME PolicyNext,
             UNCHANGED <<blockTime, portfolioVars, complianceVars, vaultVars>>
      PROVE  VaultTypeOK'
  <2>1. timeOffset' \in 0..MaxOffset
    <3>1. timeOffset \in 0..MaxOffset
      BY DEF VaultTypeOK, PolicyTypeOK
    <3>2. ASSUME NEW seconds \in OffsetSteps, AdvanceTime(seconds)
          PROVE  <2>1
      <4>1. /\ timeOffset' = timeOffset + seconds
            /\ timeOffset + seconds <= MaxOffset
        BY <3>2 DEF AdvanceTime
      <4> QED BY <3>1, <4>1, PolicyAssumption
    <3>3. ASSUME LockRealTime PROVE <2>1
      BY <3>3, PolicyAssumption DEF LockRealTime
    <3> QED
      BY <1>2, <3>1, <3>2, <3>3 DEF PolicyNext, RegisterPolicy, ActivatePolicy
  <2>2. clockLocked' \in BOOLEAN
    BY <1>2 DEF VaultTypeOK, PolicyTypeOK, PolicyNext, AdvanceTime, LockRealTime,
        RegisterPolicy, ActivatePolicy
  <2>3. policies' \in [Policies -> [status    : PolicyStatus,
                                    startTime : Nat,
                                    duration  : Nat]]
    <3>1. ASSUME NEW p \in Policies, NEW duration \in Durations,
                 RegisterPolicy(p, duration)
          PROVE  <2>3
      BY <3>1, PolicyAssumption
      DEF VaultTypeOK, PolicyTypeOK, PolicyStatus, RegisterPolicy
    <3>2. ASSUME NEW p \in Policies, ActivatePolicy(p)
          PROVE  <2>3
      <4>1. policies \in [Policies -> [status    : PolicyStatus,
                                       startTime : Nat,
                                       duration  : Nat]]
        BY DEF VaultTypeOK, PolicyTypeOK
      <4>2. policies' = [policies EXCEPT ![p].status = "ACTIVE",
                                         ![p].startTime = CurrentTime]
        BY <3>2 DEF ActivatePolicy
      <4>3. CurrentTime \in Nat /\ "ACTIVE" \in PolicyStatus
        BY CurrentTimeNat DEF PolicyStatus
      <4> QED BY <4>1, <4>2, <4>3
    <3>3. ASSUME UNCHANGED policies PROVE <2>3
      BY <3>3 DEF VaultTypeOK, PolicyTypeOK
    <3> QED
      BY <1>2, <3>1, <3>2, <3>3 DEF PolicyNext, AdvanceTime, LockRealTime
  <2> QED BY <1>2, <2>1, <2>2, <2>3
          DEF VaultTypeOK, PolicyTypeOK, PortfolioTypeOK, BlockTimes
<1>3. ASSUME PortfolioNext,
             UNCHANGED <<blockTime, policyVars, complianceVars, vaultVars>>
      PROVE  VaultTypeOK'
  <2>1. PortfolioTypeOK'
    BY <1>3
    DEF VaultTypeOK, PortfolioTypeOK, PortfolioStatus, PortfolioNext,
        SubmitPortfolio, StartReview, ApprovePortfolio, RejectPortfolio,
        ActivatePortfolio, PausePortfolio, UnpausePortfolio, MarkExpired,
        MovePortfolio
  <2> QED BY <1>3, <2>1 DEF VaultTypeOK, PolicyTypeOK, BlockTimes
<1>4. ASSUME NEW lp \in LPs, NEW s \in Standings, SetStanding(lp, s)
      PROVE  VaultTypeOK'
  BY <1>4, StandingAssumption DEF VaultTypeOK, SetStanding, PolicyTypeOK, PortfolioTypeOK, BlockTimes
<1>5. ASSUME NEW lp \in LPs, NEW limit \in InvestorLimits,
             SetInvestorLimit(lp, limit)
      PROVE  VaultTypeOK'
  BY <1>5 DEF VaultTypeOK, SetInvestorLimit, PolicyTypeOK, PortfolioTypeOK, BlockTimes
<1> QED BY <1>1, <1>2, <1>3, <1>4, <1>5 DEF WorldStep

\* The other steps of the vault, one lemma for each kind of argument.
LEMMA PolicyStepTypes ==
    ASSUME VaultTypeOK, NEW p \in Policies, NEW amount \in Nat,
           AddPolicy(p) \/ DepositPremium(p, amount)
    PROVE  VaultTypeOK'
<1> USE DEF VaultTypeOK, PolicyTypeOK, PortfolioTypeOK, BlockTimes
<1>1. CASE AddPolicy(p)
  BY <1>1, SweptSubsets DEF AddPolicy
<1>2. CASE DepositPremium(p, amount)
  <2>1. accumulatedFees' \in Nat /\ lastFeeTimestamp' \in Nat
    BY <1>2, AccrueFeesTypes DEF DepositPremium
  <2>2. /\ activePolicies' \subseteq policyAdded'
        /\ premiumPolicies' \subseteq policyAdded'
        /\ premiumPortfolios' \subseteq Portfolios
    BY <1>2, SweptSubsets DEF DepositPremium
  <2>3. /\ totalPremiumReceived' \in 0..MaxPremium
        /\ balance' \in 0..MaxBalance
    BY <1>2, VaultAssumption DEF DepositPremium, CanPullPremium, CanPullIn
  <2> QED BY <1>2, <2>1, <2>2, <2>3 DEF DepositPremium
<1> QED BY <1>1, <1>2

LEMMA PortfolioStepTypes ==
    ASSUME VaultTypeOK, NEW f \in Portfolios, NEW amount \in Nat,
           \/ RecordPortfolioPremium(f, amount)
           \/ AllocateToPortfolio(f, amount)
           \/ DeallocateFromPortfolio(f, amount)
           \/ ReservePortfolioClaim(f, amount)
    PROVE  VaultTypeOK'
<1> USE DEF VaultTypeOK, PolicyTypeOK, PortfolioTypeOK, BlockTimes
<1>1. accumulatedFees' \in Nat /\ lastFeeTimestamp' \in Nat
  BY AccrueFeesTypes
  DEF RecordPortfolioPremium, AllocateToPortfolio, DeallocateFromPortfolio,
      ReservePortfolioClaim
<1>2. CASE RecordPortfolioPremium(f, amount)
  <2>1. /\ activePolicies' \subseteq policyAdded'
        /\ premiumPolicies' \subseteq policyAdded'
        /\ premiumPortfolios' \subseteq Portfolios
    BY <1>2, SweptSubsets DEF RecordPortfolioPremium
  <2>2. /\ totalPremiumReceived' \in 0..MaxPremium
        /\ balance' \in 0..MaxBalance
    BY <1>2, VaultAssumption DEF RecordPortfolioPremium, CanPullPremium, CanPullIn
  <2> QED BY <1>1, <1>2, <2>1, <2>2 DEF RecordPortfolioPremium
<1>3. ASSUME SweepExpired, UNCHANGED policyAdded
      PROVE  /\ activePolicies' \subseteq policyAdded'
             /\ premiumPolicies' \subseteq policyAdded'
             /\ premiumPortfolios' \subseteq Portfolios
  BY <1>3, SweptSubsets DEF SweepExpired
<1>4. CASE AllocateToPortfolio(f, amount)
  BY <1>1, <1>3, <1>4 DEF AllocateToPortfolio
<1>5. CASE DeallocateFromPortfolio(f, amount)
  BY <1>1, <1>3, <1>5 DEF DeallocateFromPortfolio
<1>6. CASE ReservePortfolioClaim(f, amount)
  <2>1. /\ Least(portfolioAllocation[f], amount) \in Nat
        /\ Least(portfolioAllocation[f], amount) <= portfolioAllocation[f]
    BY DEF Least
  <2>2. /\ portfolioAllocation' \in [Portfolios -> Nat]
        /\ totalPortfolioAllocated' \in Nat
        /\ totalPendingClaims' \in Nat
    BY <1>6, <2>1 DEF ReservePortfolioClaim
  <2> QED BY <1>1, <1>6, <2>2 DEF ReservePortfolioClaim
<1> QED BY <1>2, <1>4, <1>5, <1>6

LEMMA CashStepTypes ==
    ASSUME VaultTypeOK, NEW amount \in Nat,
           \/ Donate(amount)
           \/ ReleasePortfolioClaimReserve(amount)
           \/ PayPortfolioClaim(amount)
    PROVE  VaultTypeOK'
<1> USE DEF VaultTypeOK, PolicyTypeOK, PortfolioTypeOK, BlockTimes
<1>1. CASE Donate(amount)
  BY <1>1, VaultAssumption DEF Donate, CanPullIn
<1>2. CASE ReleasePortfolioClaimReserve(amount)
  BY <1>2 DEF ReleasePortfolioClaimReserve
<1>3. CASE PayPortfolioClaim(amount)
  <2>1. accumulatedFees' \in Nat /\ lastFeeTimestamp' \in Nat
    BY <1>3, AccrueFeesTypes DEF PayPortfolioClaim
  <2>2. balance' \in 0..MaxBalance /\ totalPendingClaims' \in Nat
    BY <1>3, VaultAssumption DEF PayPortfolioClaim
  <2> QED BY <1>3, <2>1, <2>2 DEF PayPortfolioClaim
<1> QED BY <1>1, <1>2, <1>3

LEMMA ClaimFeesTypes ==
    ASSUME VaultTypeOK, ClaimFees
    PROVE  VaultTypeOK'
<1>1. balance' \in 0..MaxBalance /\ lastFeeTimestamp' \in Nat
  BY AccruedFeesNat, CurrentTimeNat, VaultAssumption DEF ClaimFees, VaultTypeOK
<1> QED
  BY <1>1 DEF ClaimFees, VaultTypeOK, PolicyTypeOK, PortfolioTypeOK, BlockTimes

LEMMA InitTypes == Init => VaultTypeOK
<1> SUFFICES ASSUME Init PROVE VaultTypeOK
  OBVIOUS
<1>1. blockTime \in BlockTimes
  <2>1. blockTime = 1
    BY DEF Init, FirstBlock
  <2> QED BY <2>1, MaxBlockTimeAssumption DEF BlockTimes
<1>2. lastFeeTimestamp \in Nat
  <2>1. blockTime = 1 /\ timeOffset = 0 /\ lastFeeTimestamp = blockTime + timeOffset
    BY DEF Init, FirstBlock, PolicyInit, CurrentTime
  <2> QED BY <2>1
<1>3. PolicyTypeOK
  <2>1. timeOffset = 0 /\ clockLocked = FALSE
    BY DEF Init, PolicyInit
  <2>2. policies = [p \in Policies |->
                     [status |-> "NONE", startTime |-> 0, duration |-> 0]]
    BY DEF Init, PolicyInit
  <2>3. [status |-> "NONE", startTime |-> 0, duration |-> 0]
           \in [status : PolicyStatus, startTime : Nat, duration : Nat]
    BY DEF PolicyStatus
  <2>4. timeOffset \in 0..MaxOffset
    BY <2>1, PolicyAssumption
  <2> QED BY <2>1, <2>2, <2>3, <2>4 DEF PolicyTypeOK
<1>4. PortfolioTypeOK
  BY DEF Init, PortfolioInit, PortfolioTypeOK, PortfolioStatus
<1>5. /\ balance \in 0..MaxBalance
      /\ totalSupply \in 0..MaxSupply
      /\ totalPremiumReceived \in 0..MaxPremium
  <2>1. balance = 0 /\ totalSupply = 0 /\ totalPremiumReceived = 0
    BY DEF Init
  <2> QED BY <2>1, VaultAssumption
<1> QED
  BY <1>1, <1>2, <1>3, <1>4, <1>5 DEF Init, VaultTypeOK, Standing

LEMMA NextTypes == VaultTypeOK /\ [Next]_vars => VaultTypeOK'
<1> SUFFICES ASSUME VaultTypeOK, [Next]_vars PROVE VaultTypeOK'
  OBVIOUS
<1>1. CASE WorldStep
  BY <1>1, WorldStepTypes
<1>2. CASE LPStep
  BY <1>2, LPStepTypes
<1>3. CASE OtherVaultStep
  <2>1. \A amount \in Amounts : amount \in Nat
    BY VaultAssumption
  <2>2. \A amount \in ShareAmounts : amount \in Nat
    BY VaultAssumption
  <2>3. ASSUME NEW from \in LPs, NEW to \in LPs, NEW amount \in ShareAmounts,
               TransferShares(from, to, amount)
        PROVE  VaultTypeOK'
    <3>1. shares' \in [LPs -> Nat]
      BY <2>2, <2>3 DEF TransferShares, VaultTypeOK
    <3> QED
      BY <2>3, <3>1 DEF TransferShares, VaultTypeOK, PolicyTypeOK, PortfolioTypeOK,
                        BlockTimes
  <2>4. ASSUME NEW cap \in DepositCaps, SetDepositCap(cap)
        PROVE  VaultTypeOK'
    BY <2>4 DEF SetDepositCap, VaultTypeOK, PolicyTypeOK, PortfolioTypeOK, BlockTimes
  <2>5. ASSUME NEW p \in Policies, AddPolicy(p)
        PROVE  VaultTypeOK'
    BY <2>5, PolicyStepTypes
  <2>6. ASSUME NEW p \in Policies, NEW amount \in Amounts,
               DepositPremium(p, amount)
        PROVE  VaultTypeOK'
    BY <2>1, <2>6, PolicyStepTypes
  <2>7. ASSUME NEW f \in Portfolios, NEW amount \in Amounts,
               \/ RecordPortfolioPremium(f, amount)
               \/ AllocateToPortfolio(f, amount)
               \/ DeallocateFromPortfolio(f, amount)
               \/ ReservePortfolioClaim(f, amount)
        PROVE  VaultTypeOK'
    BY <2>1, <2>7, PortfolioStepTypes
  <2>8. ASSUME NEW amount \in Amounts,
               \/ ReleasePortfolioClaimReserve(amount)
               \/ PayPortfolioClaim(amount)
               \/ Donate(amount)
        PROVE  VaultTypeOK'
    BY <2>1, <2>8, CashStepTypes
  <2> QED
    BY <1>3, <2>3, <2>4, <2>5, <2>6, <2>7, <2>8, ClaimFeesTypes DEF OtherVaultStep
<1>4. CASE UNCHANGED vars
  BY <1>4 DEF vars, VaultTypeOK, PolicyTypeOK, PortfolioTypeOK, BlockTimes
<1> QED BY <1>1, <1>2, <1>3, <1>4 DEF Next

\* Every value the vault keeps has its type in every reachable state: no
\* unsigned quantity of the code (cash, supply, reserves, fees) is ever negative
\* and the books only name policies and portfolios that were added.
THEOREM VaultTypesHold == Spec => []VaultTypeOK
<1>1. Init => VaultTypeOK
  BY InitTypes
<1>2. VaultTypeOK /\ [Next]_vars => VaultTypeOK'
  BY NextTypes
<1> QED BY <1>1, <1>2, PTL DEF Spec

-----------------------------------------------------------------------------
(***************************************************************************)
(* The books.  Every running total is the sum of its accounts, moved by    *)
(* each operation at the same account and by the same amount.  A portfolio *)
(* that holds an allocation has been submitted, so its terms are final;    *)
(* a policy that holds premium has been added, so adding one erases none.  *)
(***************************************************************************)
SupplyAddsUp      == totalSupply = SumFunction(shares)
AllocationsAddUp  == totalPortfolioAllocated = SumFunction(portfolioAllocation)
PremiumsAddUp     == totalPremiumReceived = SumFunction(premiumDeposited)
                                              + SumFunction(portfolioPremium)
WithinCoverage    == \A f \in Portfolios :
                        portfolioAllocation[f] <= pfTerms[f].coverageLimit
AllocatedAreKnown == \A f \in Portfolios : portfolioAllocation[f] > 0 => Submitted(f)
PremiumsAreAdded  == \A p \in Policies : premiumDeposited[p] > 0 => p \in policyAdded

BooksInv ==
    /\ VaultTypeOK
    /\ SupplyAddsUp
    /\ AllocationsAddUp
    /\ PremiumsAddUp
    /\ WithinCoverage
    /\ AllocatedAreKnown
    /\ PremiumsAreAdded

\* What is unearned is part of what the books say was received.
LEMMA UprWithin ==
    ASSUME VaultTypeOK
    PROVE  TotalUnearnedPremiums <= SumFunction(premiumDeposited)
                                      + SumFunction(portfolioPremium)
<1>1. /\ premiumPolicies \subseteq Policies /\ premiumPortfolios \subseteq Portfolios
      /\ premiumDeposited \in [Policies -> Nat]
      /\ portfolioPremium \in [Portfolios -> Nat]
  BY DEF VaultTypeOK
<1>2. /\ SumFunction(premiumDeposited) = SumFunctionOnSet(premiumDeposited, Policies)
      /\ Counted(premiumDeposited, Policies)
      /\ SumFunction(premiumDeposited) \in Nat
  BY <1>1, PolicyAssumption, SumNat
<1>3. /\ SumFunction(portfolioPremium) = SumFunctionOnSet(portfolioPremium, Portfolios)
      /\ Counted(portfolioPremium, Portfolios)
      /\ SumFunction(portfolioPremium) \in Nat
  BY <1>1, PortfolioAssumption, SumNat
<1>4. \A p \in premiumPolicies : PolicyUpr[p] <= premiumDeposited[p]
  BY <1>1, PolicyUnearnedFacts DEF PolicyUpr
<1>5. \A f \in premiumPortfolios : PortfolioUpr[f] <= portfolioPremium[f]
  BY <1>1, PortfolioUnearnedFacts DEF PortfolioUpr
<1>6. SumFunctionOnSet(PolicyUpr, premiumPolicies) <= SumFunction(premiumDeposited)
  BY <1>1, <1>2, <1>4, UprCounted, SumOnGrows
<1>7. SumFunctionOnSet(PortfolioUpr, premiumPortfolios) <= SumFunction(portfolioPremium)
  BY <1>1, <1>3, <1>5, UprCounted, SumOnGrows
<1>8. /\ SumFunctionOnSet(PolicyUpr, premiumPolicies) \in Nat
      /\ SumFunctionOnSet(PortfolioUpr, premiumPortfolios) \in Nat
  BY UprCounted, SumOnNat
<1> QED BY <1>2, <1>3, <1>6, <1>7, <1>8, UprIs

\* One account moved and its total with it.
TotalFollows(f, g, S, x, before, after) ==
    /\ f \in [S -> Nat] /\ g \in [S -> Nat] /\ x \in S
    /\ \A y \in S \ {x} : g[y] = f[y]
    /\ after = before - f[x] + g[x]

LEMMA TotalMoves ==
    ASSUME NEW S, IsFiniteSet(S), NEW f, NEW g, NEW x, NEW before, NEW after,
           TotalFollows(f, g, S, x, before, after), before = SumFunction(f)
    PROVE  after = SumFunction(g)
BY SumChanges DEF TotalFollows

LEMMA SupplyNext ==
    ASSUME BooksInv, VaultTypeOK', [Next]_vars
    PROVE  SupplyAddsUp'
<1>1. /\ shares \in [LPs -> Nat] /\ shares' \in [LPs -> Nat]
      /\ totalSupply \in Nat /\ totalSupply' \in Nat
      /\ totalSupply = SumFunction(shares)
      /\ IsFiniteSet(LPs)
  BY VaultAssumption DEF BooksInv, VaultTypeOK, SupplyAddsUp
<1> USE DEF SupplyAddsUp
<1>2. ASSUME UNCHANGED shareVars PROVE SupplyAddsUp'
  BY <1>1, <1>2
<1>3. ASSUME NEW lp \in LPs, NEW assets, NEW amount \in Nat,
             EnterVault(lp, assets, amount) \/ LeaveVault(lp, assets, amount)
      PROVE  SupplyAddsUp'
  <2>1. \/ /\ shares' = [shares EXCEPT ![lp] = @ + amount]
           /\ totalSupply' = totalSupply + amount
        \/ /\ shares' = [shares EXCEPT ![lp] = @ - amount]
           /\ totalSupply' = totalSupply - amount
    BY <1>3 DEF EnterVault, LeaveVault
  <2>2. TotalFollows(shares, shares', LPs, lp, totalSupply, totalSupply')
    BY <1>1, <2>1 DEF TotalFollows
  <2> QED BY <1>1, <2>2, TotalMoves
<1>4. ASSUME NEW from \in LPs, NEW to \in LPs, NEW amount \in ShareAmounts,
             TransferShares(from, to, amount)
      PROVE  SupplyAddsUp'
  <2> DEFINE mid == [shares EXCEPT ![from] = @ - amount]
             left == totalSupply - amount
  <2>1. /\ from # to /\ amount <= shares[from] /\ amount \in Nat
        /\ shares' = [shares EXCEPT ![from] = @ - amount, ![to] = @ + amount]
        /\ totalSupply' = totalSupply
    BY <1>4, VaultAssumption DEF TransferShares
  <2>2. mid \in [LPs -> Nat] /\ left \in Int
    BY <1>1, <2>1
  <2>3. TotalFollows(shares, mid, LPs, from, totalSupply, left)
    BY <1>1, <2>1, <2>2 DEF TotalFollows
  <2>4. TotalFollows(mid, shares', LPs, to, left, totalSupply')
    BY <1>1, <2>1, <2>2 DEF TotalFollows
  <2> HIDE DEF mid, left
  <2>5. left = SumFunction(mid)
    BY <1>1, <2>3, TotalMoves
  <2> QED BY <1>1, <2>4, <2>5, TotalMoves
<1>5. CASE WorldStep
  BY <1>2, <1>5 DEF WorldStep, SetStanding, SetInvestorLimit
<1>6. CASE LPStep
  <2>1. PICK lp \in LPs :
           \/ \E assets \in Amounts \cup {0} :
                 Deposit(lp, assets) \/ Withdraw(lp, assets)
           \/ \E amount \in ShareAmounts : Mint(lp, amount) \/ Redeem(lp, amount)
    BY <1>6 DEF LPStep
  <2>2. VaultTypeOK /\ FeeClockReadable
    BY <2>1 DEF BooksInv, Deposit, Withdraw, Mint, Redeem, EnterVault, LeaveVault,
                AccrueFees
  <2>3. ASSUME NEW assets \in Amounts \cup {0},
               Deposit(lp, assets) \/ Withdraw(lp, assets)
        PROVE  SupplyAddsUp'
    <3>1. assets \in Nat
      BY VaultAssumption
    <3>2. SharesFor(assets, Down) \in Nat /\ SharesFor(assets, CeilDiv) \in Nat
      BY <2>2, <3>1, ConversionsNat
    <3> QED BY <1>3, <2>3, <3>2 DEF Deposit, Withdraw
  <2>4. ASSUME NEW amount \in ShareAmounts, Mint(lp, amount) \/ Redeem(lp, amount)
        PROVE  SupplyAddsUp'
    BY <1>3, <2>4, VaultAssumption DEF Mint, Redeem
  <2> QED BY <2>1, <2>3, <2>4
<1>7. CASE OtherVaultStep
  BY <1>2, <1>4, <1>7
  DEF OtherVaultStep, SetDepositCap, AddPolicy, DepositPremium,
      RecordPortfolioPremium, AllocateToPortfolio, DeallocateFromPortfolio,
      ReservePortfolioClaim, ReleasePortfolioClaimReserve, PayPortfolioClaim,
      Donate, ClaimFees
<1>8. CASE UNCHANGED vars
  BY <1>2, <1>8 DEF vars
<1> QED BY <1>5, <1>6, <1>7, <1>8 DEF Next

LEMMA AllocationsNext ==
    ASSUME BooksInv, VaultTypeOK', [Next]_vars
    PROVE  AllocationsAddUp' /\ WithinCoverage' /\ AllocatedAreKnown'
<1>1. /\ portfolioAllocation \in [Portfolios -> Nat]
      /\ portfolioAllocation' \in [Portfolios -> Nat]
      /\ totalPortfolioAllocated \in Nat /\ totalPortfolioAllocated' \in Nat
      /\ totalPortfolioAllocated = SumFunction(portfolioAllocation)
      /\ WithinCoverage /\ AllocatedAreKnown
  BY DEF BooksInv, VaultTypeOK, AllocationsAddUp
<1>2. \A f \in Portfolios : pfTerms[f].coverageLimit \in Nat
  <2> SUFFICES ASSUME NEW f \in Portfolios PROVE pfTerms[f].coverageLimit \in Nat
    OBVIOUS
  <2>1. pfTerms[f] \in Terms \cup {NoTerms}
    BY DEF BooksInv, VaultTypeOK, PortfolioTypeOK
  <2> QED BY <2>1, TermsAssumption DEF NoTerms
<1> DEFINE Goal == AllocationsAddUp' /\ WithinCoverage' /\ AllocatedAreKnown'
<1>3. ASSUME UNCHANGED <<allocationVars, portfolioVars>> PROVE Goal
  BY <1>1, <1>3 DEF AllocationsAddUp, WithinCoverage, AllocatedAreKnown, Submitted
<1>4. ASSUME NEW f \in Portfolios, NEW amount \in Amounts,
             AllocateToPortfolio(f, amount)
      PROVE  Goal
  <2>1. /\ portfolioAllocation' = [portfolioAllocation EXCEPT ![f] = @ + amount]
        /\ totalPortfolioAllocated' = totalPortfolioAllocated + amount
        /\ portfolioAllocation[f] + amount <= pfTerms[f].coverageLimit
        /\ UNCHANGED portfolioVars
        /\ Submitted(f)
        /\ amount \in Nat
    BY <1>4, VaultAssumption DEF AllocateToPortfolio, IsAllocatable, Submitted
  <2>2. TotalFollows(portfolioAllocation, portfolioAllocation', Portfolios, f,
                     totalPortfolioAllocated, totalPortfolioAllocated')
    BY <1>1, <2>1 DEF TotalFollows
  <2>3. AllocationsAddUp'
    BY <1>1, <2>2, TotalMoves, PortfolioAssumption DEF AllocationsAddUp
  <2>4. WithinCoverage' /\ AllocatedAreKnown'
    BY <1>1, <2>1 DEF WithinCoverage, AllocatedAreKnown, Submitted
  <2> QED BY <2>3, <2>4
<1>5. ASSUME NEW f \in Portfolios, NEW amount \in Amounts,
             DeallocateFromPortfolio(f, amount) \/ ReservePortfolioClaim(f, amount)
      PROVE  Goal
  <2>1. amount \in Nat
    BY VaultAssumption
  <2>2. PICK less \in Nat :
           /\ less <= portfolioAllocation[f]
           /\ portfolioAllocation' = [portfolioAllocation EXCEPT ![f] = @ - less]
           /\ totalPortfolioAllocated' = totalPortfolioAllocated - less
           /\ UNCHANGED portfolioVars
    <3>1. CASE DeallocateFromPortfolio(f, amount)
      BY <2>1, <3>1 DEF DeallocateFromPortfolio
    <3>2. CASE ReservePortfolioClaim(f, amount)
      <4>1. Least(portfolioAllocation[f], amount) \in Nat
            /\ Least(portfolioAllocation[f], amount) <= portfolioAllocation[f]
        BY <1>1, <2>1, LeastNat
      <4> QED BY <3>2, <4>1 DEF ReservePortfolioClaim
    <3> QED BY <1>5, <3>1, <3>2
  <2>3. TotalFollows(portfolioAllocation, portfolioAllocation', Portfolios, f,
                     totalPortfolioAllocated, totalPortfolioAllocated')
    BY <1>1, <2>2 DEF TotalFollows
  <2>4. AllocationsAddUp'
    BY <1>1, <2>3, TotalMoves, PortfolioAssumption DEF AllocationsAddUp
  <2>5. WithinCoverage' /\ AllocatedAreKnown'
    BY <1>1, <1>2, <2>2 DEF WithinCoverage, AllocatedAreKnown, Submitted
  <2> QED BY <2>4, <2>5
<1>6. ASSUME PortfolioNext, UNCHANGED vaultVars
      PROVE  Goal
  <2>1. AllocationsAddUp'
    BY <1>1, <1>6 DEF AllocationsAddUp
  <2>2. \A f \in Portfolios : \/ pfTerms'[f] = pfTerms[f] /\ (Submitted(f) => Submitted(f)')
                              \/ ~Submitted(f)
    BY <1>6 DEF BooksInv, VaultTypeOK, PortfolioTypeOK, PortfolioNext,
        SubmitPortfolio, StartReview, ApprovePortfolio, RejectPortfolio,
        ActivatePortfolio, PausePortfolio, UnpausePortfolio, MarkExpired,
        MovePortfolio, Submitted
  <2>3. \A f \in Portfolios : ~Submitted(f) => portfolioAllocation'[f] = 0
    BY <1>1, <1>6 DEF AllocatedAreKnown
  <2>4. \A f \in Portfolios : pfTerms'[f].coverageLimit \in Nat
    <3> SUFFICES ASSUME NEW f \in Portfolios PROVE pfTerms'[f].coverageLimit \in Nat
      OBVIOUS
    <3>1. pfTerms'[f] \in Terms \cup {NoTerms}
      BY DEF VaultTypeOK, PortfolioTypeOK
    <3> QED BY <3>1, TermsAssumption DEF NoTerms
  <2>5. WithinCoverage'
    BY <1>1, <1>6, <2>2, <2>3, <2>4 DEF WithinCoverage
  <2>6. AllocatedAreKnown'
    BY <1>1, <1>6, <2>2, <2>3 DEF AllocatedAreKnown
  <2> QED BY <2>1, <2>5, <2>6
<1>7. CASE WorldStep
  BY <1>3, <1>6, <1>7 DEF WorldStep, SetStanding, SetInvestorLimit
<1>8. CASE LPStep
  BY <1>3, <1>8 DEF LPStep, Deposit, Withdraw, Mint, Redeem, EnterVault, LeaveVault
<1>9. CASE OtherVaultStep
  BY <1>3, <1>4, <1>5, <1>9
  DEF OtherVaultStep, TransferShares, SetDepositCap, AddPolicy, DepositPremium,
      RecordPortfolioPremium, ReleasePortfolioClaimReserve, PayPortfolioClaim,
      Donate, ClaimFees
<1>10. CASE UNCHANGED vars
  BY <1>3, <1>10 DEF vars
<1> QED BY <1>7, <1>8, <1>9, <1>10 DEF Next

LEMMA PremiumsNext ==
    ASSUME BooksInv, VaultTypeOK', [Next]_vars
    PROVE  PremiumsAddUp' /\ PremiumsAreAdded'
<1>1. /\ premiumDeposited \in [Policies -> Nat] /\ premiumDeposited' \in [Policies -> Nat]
      /\ portfolioPremium \in [Portfolios -> Nat] /\ portfolioPremium' \in [Portfolios -> Nat]
      /\ PremiumsAreAdded
      /\ totalPremiumReceived = SumFunction(premiumDeposited) + SumFunction(portfolioPremium)
  BY DEF BooksInv, VaultTypeOK, PremiumsAddUp
<1>2. /\ SumFunction(premiumDeposited) \in Nat /\ SumFunction(portfolioPremium) \in Nat
      /\ SumFunction(premiumDeposited') \in Nat /\ SumFunction(portfolioPremium') \in Nat
  BY <1>1, SumNat, PolicyAssumption, PortfolioAssumption
<1> DEFINE Goal == PremiumsAddUp' /\ PremiumsAreAdded'
<1> USE DEF PremiumsAddUp, PremiumsAreAdded
<1>3. ASSUME UNCHANGED <<policySetVars, premiumVars>> PROVE Goal
  BY <1>1, <1>3
<1>4. ASSUME NEW p \in Policies, AddPolicy(p) PROVE Goal
  <2>1. /\ p \notin policyAdded /\ policyAdded' = policyAdded \cup {p}
        /\ premiumDeposited' = [premiumDeposited EXCEPT ![p] = 0]
        /\ UNCHANGED premiumVars
    BY <1>4 DEF AddPolicy
  <2>2. premiumDeposited[p] = 0
    BY <1>1, <2>1
  <2>3. premiumDeposited' = premiumDeposited
    BY <1>1, <2>1, <2>2
  <2> QED BY <1>1, <2>1, <2>3
<1>5. ASSUME NEW p \in Policies, NEW amount \in Amounts, DepositPremium(p, amount)
      PROVE  Goal
  <2>1. /\ p \in policyAdded
        /\ premiumDeposited' = [premiumDeposited EXCEPT ![p] = @ + amount]
        /\ totalPremiumReceived' = totalPremiumReceived + amount
        /\ UNCHANGED <<policyAdded, portfolioPremium>>
        /\ amount \in Nat
    BY <1>5, VaultAssumption DEF DepositPremium
  <2>2. SumFunction(premiumDeposited') = SumFunction(premiumDeposited) + amount
    <3>1. TotalFollows(premiumDeposited, premiumDeposited', Policies, p,
                       SumFunction(premiumDeposited),
                       SumFunction(premiumDeposited) + amount)
      BY <1>1, <1>2, <2>1 DEF TotalFollows
    <3> QED BY <3>1, TotalMoves, PolicyAssumption
  <2>3. PremiumsAddUp'
    BY <1>1, <1>2, <2>1, <2>2
  <2>4. PremiumsAreAdded'
    BY <1>1, <2>1
  <2> QED BY <2>3, <2>4
<1>6. ASSUME NEW f \in Portfolios, NEW amount \in Amounts,
             RecordPortfolioPremium(f, amount)
      PROVE  Goal
  <2>1. /\ portfolioPremium' = [portfolioPremium EXCEPT ![f] = @ + amount]
        /\ totalPremiumReceived' = totalPremiumReceived + amount
        /\ UNCHANGED <<policyAdded, premiumDeposited>>
        /\ amount \in Nat
    BY <1>6, VaultAssumption DEF RecordPortfolioPremium
  <2>2. SumFunction(portfolioPremium') = SumFunction(portfolioPremium) + amount
    <3>1. TotalFollows(portfolioPremium, portfolioPremium', Portfolios, f,
                       SumFunction(portfolioPremium),
                       SumFunction(portfolioPremium) + amount)
      BY <1>1, <1>2, <2>1 DEF TotalFollows
    <3> QED BY <3>1, TotalMoves, PortfolioAssumption
  <2>3. PremiumsAddUp'
    BY <1>1, <1>2, <2>1, <2>2
  <2> QED BY <1>1, <2>1, <2>3
<1>7. CASE WorldStep
  BY <1>3, <1>7 DEF WorldStep, SetStanding, SetInvestorLimit
<1>8. CASE LPStep
  BY <1>3, <1>8 DEF LPStep, Deposit, Withdraw, Mint, Redeem, EnterVault, LeaveVault
<1>9. CASE OtherVaultStep
  BY <1>3, <1>4, <1>5, <1>6, <1>9
  DEF OtherVaultStep, TransferShares, SetDepositCap, AllocateToPortfolio,
      DeallocateFromPortfolio, ReservePortfolioClaim, ReleasePortfolioClaimReserve,
      PayPortfolioClaim, Donate, ClaimFees
<1>10. CASE UNCHANGED vars
  BY <1>3, <1>10 DEF vars
<1> QED BY <1>7, <1>8, <1>9, <1>10 DEF Next

LEMMA BooksInit == Init => BooksInv
<1> SUFFICES ASSUME Init PROVE BooksInv
  OBVIOUS
<1>1. VaultTypeOK
  BY InitTypes
<1>2. /\ shares = [lp \in LPs |-> 0] /\ totalSupply = 0
      /\ portfolioAllocation = [f \in Portfolios |-> 0] /\ totalPortfolioAllocated = 0
      /\ premiumDeposited = [p \in Policies |-> 0]
      /\ portfolioPremium = [f \in Portfolios |-> 0] /\ totalPremiumReceived = 0
      /\ pfTerms = [f \in Portfolios |-> NoTerms]
  BY DEF Init, PortfolioInit
<1>3. /\ SumFunction(shares) = 0
      /\ SumFunction(portfolioAllocation) = 0
      /\ SumFunction(premiumDeposited) = 0
      /\ SumFunction(portfolioPremium) = 0
  BY <1>2, SumOfZeros, VaultAssumption, PolicyAssumption, PortfolioAssumption
<1>4. SupplyAddsUp /\ AllocationsAddUp /\ PremiumsAddUp
  BY <1>2, <1>3 DEF SupplyAddsUp, AllocationsAddUp, PremiumsAddUp
<1>5. WithinCoverage /\ AllocatedAreKnown /\ PremiumsAreAdded
  BY <1>2 DEF NoTerms, WithinCoverage, AllocatedAreKnown, PremiumsAreAdded
<1> QED BY <1>1, <1>4, <1>5 DEF BooksInv

LEMMA BooksNext == BooksInv /\ [Next]_vars => BooksInv'
<1> SUFFICES ASSUME BooksInv, [Next]_vars PROVE BooksInv'
  OBVIOUS
<1>1. VaultTypeOK'
  BY NextTypes DEF BooksInv
<1> QED BY <1>1, SupplyNext, AllocationsNext, PremiumsNext DEF BooksInv

THEOREM BooksInvHolds == Spec => []BooksInv
BY BooksInit, BooksNext, PTL DEF Spec

\* Every running total of the vault is the sum of its accounts in every
\* reachable state, whatever path moved them; no portfolio is committed beyond
\* its coverage limit; and unearned premium never exceeds the premium received.
THEOREM BooksAlwaysBalance == Spec => []BooksBalance
<1>1. BooksInv => BooksBalance
  BY UprWithin
  DEF BooksInv, BooksBalance, SupplyAddsUp, AllocationsAddUp, PremiumsAddUp,
      WithinCoverage, UprWithinPremiums
<1> QED BY <1>1, BooksInvHolds, PTL

-----------------------------------------------------------------------------
(***************************************************************************)
(* The vault and the ledger VaultReserve.  Only a few steps of the vault   *)
(* move its cash or its claim reserves; each is a step of the ledger.      *)
(***************************************************************************)
LedgerUnchanged == UNCHANGED <<balance, totalPendingClaims>>

LedgerMove(amount) ==
    \/ ClaimLedger!TakeReserve(amount)
    \/ ClaimLedger!ReleaseReserve(amount)
    \/ ClaimLedger!PayFromReserve(amount)
    \/ ClaimLedger!CashIn(amount)
    \/ ClaimLedger!LPExit(amount)

\* Besides the types: reserves were taken out of cash that was there, and a vault
\* without a fee rate owes no fee.
LedgerInv ==
    /\ VaultTypeOK
    /\ totalPendingClaims <= MaxBalance
    /\ managementFeeBps = 0 => accumulatedFees = 0

USE DEF ClaimLedger!TakeReserve, ClaimLedger!ReleaseReserve,
        ClaimLedger!PayFromReserve, ClaimLedger!CashIn, ClaimLedger!LPExit

LEMMA LedgerTypes ==
    ASSUME LedgerInv
    PROVE  /\ balance \in Nat /\ balance <= MaxBalance /\ MaxBalance \in Nat
           /\ totalPendingClaims \in Nat /\ totalPendingClaims <= MaxBalance
BY VaultAssumption DEF LedgerInv, VaultTypeOK

LEMMA EnterVaultMoves ==
    ASSUME LedgerInv, NEW lp \in LPs, NEW assets \in Nat, NEW amount \in Nat,
           EnterVault(lp, assets, amount)
    PROVE  LedgerUnchanged \/ \E a \in 1..MaxBalance : LedgerMove(a)
<1>1. /\ balance' = balance + assets
      /\ balance + assets <= MaxBalance
      /\ UNCHANGED totalPendingClaims
  BY DEF EnterVault, CanPullIn
<1>2. CASE assets = 0
  BY <1>1, <1>2, LedgerTypes DEF LedgerUnchanged
<1>3. CASE assets # 0
  <2>1. assets \in 1..MaxBalance
    BY <1>1, <1>3, LedgerTypes
  <2> QED BY <1>1, <2>1 DEF LedgerMove
<1> QED BY <1>2, <1>3

LEMMA LeaveVaultMoves ==
    ASSUME LedgerInv, NEW lp \in LPs, NEW assets \in Nat, NEW amount \in Nat,
           LeaveVault(lp, assets, amount)
    PROVE  LedgerUnchanged \/ \E a \in 1..MaxBalance : LedgerMove(a)
<1>1. /\ balance' = balance - assets
      /\ assets <= AvailableBuffer
      /\ UNCHANGED totalPendingClaims
  BY DEF LeaveVault
<1>2. CASE assets = 0
  BY <1>1, <1>2, LedgerTypes DEF LedgerUnchanged
<1>3. CASE assets # 0
  <2>1. /\ AvailableBuffer \in Nat
        /\ AvailableBuffer <= balance
        /\ AvailableBuffer > 0 => totalPendingClaims + AvailableBuffer <= balance
    BY AvailableBufferFacts DEF LedgerInv
  <2>2. assets \in 1..MaxBalance /\ totalPendingClaims + assets <= balance
    BY <1>1, <1>3, <2>1, LedgerTypes
  <2> QED BY <1>1, <2>2 DEF LedgerMove
<1> QED BY <1>2, <1>3

LEMMA ReserveMoves ==
    ASSUME LedgerInv, NEW f \in Portfolios, NEW amount \in Nat \ {0},
           ReservePortfolioClaim(f, amount)
    PROVE  \E a \in 1..MaxBalance : LedgerMove(a)
<1>1. /\ amount <= PreFeeAssets
      /\ totalPendingClaims' = totalPendingClaims + amount
      /\ UNCHANGED balance
  BY DEF ReservePortfolioClaim
<1>2. /\ PreFeeAssets \in Nat
      /\ PreFeeAssets <= balance
      /\ PreFeeAssets > 0 => totalPendingClaims + PreFeeAssets <= balance
  BY PreFeeAssetsFacts DEF LedgerInv
<1>3. amount \in 1..MaxBalance /\ totalPendingClaims + amount <= balance
  BY <1>1, <1>2, LedgerTypes
<1> QED BY <1>1, <1>3 DEF LedgerMove

LEMMA CashStepMoves ==
    ASSUME LedgerInv, NEW amount \in Nat \ {0},
           \/ ReleasePortfolioClaimReserve(amount)
           \/ PayPortfolioClaim(amount)
           \/ Donate(amount)
           \/ \E p \in Policies : DepositPremium(p, amount)
           \/ \E f \in Portfolios : RecordPortfolioPremium(f, amount)
    PROVE  \E a \in 1..MaxBalance : LedgerMove(a)
<1>1. CASE ReleasePortfolioClaimReserve(amount)
  <2>1. ClaimLedger!ReleaseReserve(amount)
    BY <1>1 DEF ReleasePortfolioClaimReserve
  <2>2. amount \in 1..MaxBalance
    BY <2>1, LedgerTypes
  <2> QED BY <2>1, <2>2 DEF LedgerMove
<1>2. CASE PayPortfolioClaim(amount)
  <2>1. ClaimLedger!PayFromReserve(amount)
    BY <1>2 DEF PayPortfolioClaim
  <2>2. amount \in 1..MaxBalance
    BY <2>1, LedgerTypes
  <2> QED BY <2>1, <2>2 DEF LedgerMove
<1>3. ASSUME ClaimLedger!CashIn(amount)
      PROVE  \E a \in 1..MaxBalance : LedgerMove(a)
  <2>1. amount \in 1..MaxBalance
    BY <1>3, LedgerTypes
  <2> QED BY <1>3, <2>1 DEF LedgerMove
<1>4. CASE Donate(amount)
  BY <1>3, <1>4 DEF Donate, CanPullIn
<1>5. CASE \E p \in Policies : DepositPremium(p, amount)
  BY <1>3, <1>5 DEF DepositPremium, CanPullPremium, CanPullIn
<1>6. CASE \E f \in Portfolios : RecordPortfolioPremium(f, amount)
  BY <1>3, <1>6 DEF RecordPortfolioPremium, CanPullPremium, CanPullIn
<1> QED BY <1>1, <1>2, <1>4, <1>5, <1>6

\* A step of the vault leaves the ledger alone, moves it, or collects fees.
LEMMA StepMoves ==
    ASSUME LedgerInv, [Next]_vars
    PROVE  \/ LedgerUnchanged
           \/ \E a \in 1..MaxBalance : LedgerMove(a)
           \/ ClaimFees
<1> DEFINE Moves == LedgerUnchanged \/ \E a \in 1..MaxBalance : LedgerMove(a)
<1>1. VaultTypeOK
  BY DEF LedgerInv
<1>2. CASE WorldStep
  BY <1>2 DEF WorldStep, SetStanding, SetInvestorLimit, LedgerUnchanged
<1>3. CASE LPStep
  <2>1. PICK lp \in LPs :
           \/ \E assets \in Amounts \cup {0} :
                 Deposit(lp, assets) \/ Withdraw(lp, assets)
           \/ \E amount \in ShareAmounts : Mint(lp, amount) \/ Redeem(lp, amount)
    BY <1>3 DEF LPStep
  <2>2. Amounts \cup {0} \subseteq Nat /\ ShareAmounts \subseteq Nat
    BY VaultAssumption
  <2>3. ASSUME NEW assets \in Amounts \cup {0}, Deposit(lp, assets) PROVE Moves
    <3>1. EnterVault(lp, assets, SharesFor(assets, Down)) /\ FeeClockReadable
      BY <2>3 DEF Deposit, EnterVault, AccrueFees
    <3> QED BY <1>1, <2>2, <3>1, ConversionsNat, EnterVaultMoves
  <2>4. ASSUME NEW assets \in Amounts \cup {0}, Withdraw(lp, assets) PROVE Moves
    <3>1. LeaveVault(lp, assets, SharesFor(assets, CeilDiv)) /\ FeeClockReadable
      BY <2>4 DEF Withdraw, LeaveVault, AccrueFees
    <3> QED BY <1>1, <2>2, <3>1, ConversionsNat, LeaveVaultMoves
  <2>5. ASSUME NEW amount \in ShareAmounts, Mint(lp, amount) PROVE Moves
    <3>1. EnterVault(lp, AssetsFor(amount, CeilDiv), amount) /\ FeeClockReadable
      BY <2>5 DEF Mint, EnterVault, AccrueFees
    <3> QED BY <1>1, <2>2, <3>1, ConversionsNat, EnterVaultMoves
  <2>6. ASSUME NEW amount \in ShareAmounts, Redeem(lp, amount) PROVE Moves
    <3>1. LeaveVault(lp, AssetsFor(amount, Down), amount) /\ FeeClockReadable
      BY <2>6 DEF Redeem, LeaveVault, AccrueFees
    <3> QED BY <1>1, <2>2, <3>1, ConversionsNat, LeaveVaultMoves
  <2> QED BY <2>1, <2>3, <2>4, <2>5, <2>6
<1>4. CASE OtherVaultStep
  <2>1. \A amount \in Amounts : amount \in Nat \ {0}
    BY VaultAssumption
  <2>2. ASSUME \/ \E from, to \in LPs, amount \in ShareAmounts :
                     TransferShares(from, to, amount)
               \/ \E cap \in DepositCaps : SetDepositCap(cap)
               \/ \E p \in Policies : AddPolicy(p)
               \/ \E f \in Portfolios, amount \in Amounts :
                     \/ AllocateToPortfolio(f, amount)
                     \/ DeallocateFromPortfolio(f, amount)
        PROVE  LedgerUnchanged
    BY <2>2 DEF TransferShares, SetDepositCap, AddPolicy, AllocateToPortfolio,
                DeallocateFromPortfolio, LedgerUnchanged
  <2>3. ASSUME NEW f \in Portfolios, NEW amount \in Amounts,
               ReservePortfolioClaim(f, amount)
        PROVE  Moves
    BY <2>1, <2>3, ReserveMoves
  <2>4. ASSUME NEW amount \in Amounts,
               \/ ReleasePortfolioClaimReserve(amount)
               \/ PayPortfolioClaim(amount)
               \/ Donate(amount)
               \/ \E p \in Policies : DepositPremium(p, amount)
               \/ \E f \in Portfolios : RecordPortfolioPremium(f, amount)
        PROVE  Moves
    BY <2>1, <2>4, CashStepMoves
  <2> QED BY <1>4, <2>2, <2>3, <2>4 DEF OtherVaultStep
<1>5. CASE UNCHANGED vars
  BY <1>5 DEF vars, LedgerUnchanged
<1> QED BY <1>2, <1>3, <1>4, <1>5 DEF Next

LEMMA LedgerInvInit == Init => LedgerInv
<1> SUFFICES ASSUME Init PROVE LedgerInv
  OBVIOUS
<1>1. VaultTypeOK
  BY InitTypes
<1>2. totalPendingClaims = 0 /\ accumulatedFees = 0
  BY DEF Init
<1> QED BY <1>1, <1>2, VaultAssumption DEF LedgerInv

\* With a fee rate of zero no step makes a fee due.
LEMMA NoFeeStep ==
    ASSUME LedgerInv, [Next]_vars, managementFeeBps = 0
    PROVE  accumulatedFees' = 0
<1>1. accumulatedFees = 0
  BY DEF LedgerInv
<1>2. ASSUME AccrueFees PROVE accumulatedFees' = 0
  <2>1. accumulatedFees' = accumulatedFees + NewFees /\ NewFees = 0
    BY <1>2, NewFeesFacts DEF AccrueFees, AccruedFees, LedgerInv
  <2> QED BY <1>1, <2>1
<1>3. CASE WorldStep
  BY <1>1, <1>3 DEF WorldStep, SetStanding, SetInvestorLimit
<1>4. CASE LPStep
  BY <1>2, <1>4
  DEF LPStep, Deposit, Withdraw, Mint, Redeem, EnterVault, LeaveVault
<1>5. CASE OtherVaultStep
  BY <1>1, <1>2, <1>5
  DEF OtherVaultStep, TransferShares, SetDepositCap, AddPolicy, DepositPremium,
      RecordPortfolioPremium, AllocateToPortfolio, DeallocateFromPortfolio,
      ReservePortfolioClaim, ReleasePortfolioClaimReserve, PayPortfolioClaim,
      Donate, ClaimFees
<1>6. CASE UNCHANGED vars
  BY <1>1, <1>6 DEF vars
<1> QED BY <1>3, <1>4, <1>5, <1>6 DEF Next

LEMMA LedgerInvNext == LedgerInv /\ [Next]_vars => LedgerInv'
<1> SUFFICES ASSUME LedgerInv, [Next]_vars PROVE LedgerInv'
  OBVIOUS
<1>1. VaultTypeOK'
  BY NextTypes DEF LedgerInv
<1>2. (totalPendingClaims <= MaxBalance)'
  <2>1. CASE LedgerUnchanged
    BY <2>1, LedgerTypes DEF LedgerUnchanged
  <2>2. CASE \E a \in 1..MaxBalance : LedgerMove(a)
    BY <2>2, LedgerTypes DEF LedgerMove
  <2>3. CASE ClaimFees
    BY <2>3, LedgerTypes DEF ClaimFees
  <2> QED BY <2>1, <2>2, <2>3, StepMoves
<1>3. (managementFeeBps = 0 => accumulatedFees = 0)'
  BY NoFeeStep
<1> QED BY <1>1, <1>2, <1>3 DEF LedgerInv

THEOREM LedgerInvHolds == Spec => []LedgerInv
BY LedgerInvInit, LedgerInvNext, PTL DEF Spec

-----------------------------------------------------------------------------
(***************************************************************************)
(* The results.                                                            *)
(***************************************************************************)

\* Collecting fees is the only step of the vault that can take the cash from
\* under claim reserves it covered: withdrawals, allocations, further reserves,
\* payouts and the clock leave them covered.
THEOREM ReservesStayCovered == Spec => OnlyFeesUncoverReserves
<1>1. LedgerInv /\ [Next]_vars
        => [ReservesCovered /\ ~FeesCollected => ReservesCovered']_vars
  <2> SUFFICES ASSUME LedgerInv, [Next]_vars, ReservesCovered, ~FeesCollected
               PROVE  ReservesCovered'
    OBVIOUS
  <2>1. CASE LedgerUnchanged
    BY <2>1 DEF LedgerUnchanged, ReservesCovered
  <2>2. CASE \E a \in 1..MaxBalance : LedgerMove(a)
    BY <2>2, LedgerTypes DEF LedgerMove, ReservesCovered
  <2>3. ~ClaimFees
    <3> SUFFICES ASSUME ClaimFees PROVE FALSE
      OBVIOUS
    <3>1. AccruedFees \in Nat
      BY AccruedFeesNat DEF ClaimFees, LedgerInv
    <3>2. FeesCollected
      BY <3>1 DEF ClaimFees, FeesCollected
    <3> QED BY <3>2
  <2> QED BY <2>1, <2>2, <2>3, StepMoves
<1> QED BY <1>1, LedgerInvHolds, PTL DEF Spec, OnlyFeesUncoverReserves

\* The vault implements the ledger VaultReserve that ClaimManager is composed
\* with, fees included: whatever the claim path needs of the vault it needs only
\* of that ledger.
THEOREM VaultImplementsLedger == Spec => ImplementsClaimLedger
<1>1. Init => ClaimLedger!LedgerInit
  BY DEF Init, ClaimLedger!LedgerInit
<1>2. LedgerInv /\ [Next]_vars => [ClaimLedger!LedgerNext]_(ClaimLedger!ledger)
  <2> SUFFICES ASSUME LedgerInv, [Next]_vars
               PROVE  [ClaimLedger!LedgerNext]_(ClaimLedger!ledger)
    OBVIOUS
  <2>1. CASE LedgerUnchanged
    BY <2>1 DEF LedgerUnchanged, ClaimLedger!ledger
  <2>2. CASE \E a \in 1..MaxBalance : LedgerMove(a)
    BY <2>2 DEF LedgerMove, ClaimLedger!LedgerNext, ClaimLedger!CashStep
  <2>3. CASE ClaimFees
    <3>1. /\ AccruedFees \in Nat
          /\ managementFeeBps = 0 => AccruedFees = 0
      BY <2>3, AccruedFeesNat, NewFeesFacts
      DEF ClaimFees, LedgerInv, AccruedFees
    <3>2. AccruedFees \in 1..MaxBalance /\ managementFeeBps # 0
      BY <2>3, <3>1, LedgerTypes DEF ClaimFees
    <3>3. ClaimLedger!FeesOut(AccruedFees)
      BY <2>3, <3>2 DEF ClaimFees, ClaimLedger!FeesOut
    <3> QED
      BY <3>2, <3>3 DEF ClaimLedger!LedgerNext, ClaimLedger!CashStep
  <2> QED BY <2>1, <2>2, <2>3, StepMoves
<1> QED
  BY <1>1, <1>2, LedgerInvHolds, PTL
  DEF Spec, ImplementsClaimLedger, ClaimLedger!LedgerSpec

\* A vault that charges no management fee always holds the cash of its claim
\* reserves: "reserves are always backed by vault cash" is true of it, for every
\* value of the other parameters.
THEOREM NoFeeVaultStaysBacked == Spec => [](managementFeeBps = 0 => ClaimReservesBacked)
<1> DEFINE Backed == managementFeeBps = 0 => ClaimReservesBacked
<1>1. Init => Backed
  <2>1. Init => balance = 0 /\ totalPendingClaims = 0
    BY DEF Init
  <2> QED BY <2>1 DEF ClaimReservesBacked, ReservesCovered
<1>2. LedgerInv /\ Backed /\ [Next]_vars => Backed'
  <2> SUFFICES ASSUME LedgerInv, ClaimReservesBacked, [Next]_vars,
                      managementFeeBps = 0
               PROVE  ClaimReservesBacked'
    OBVIOUS
  <2> USE DEF ClaimReservesBacked, ReservesCovered
  <2>1. CASE LedgerUnchanged
    BY <2>1 DEF LedgerUnchanged
  <2>2. CASE \E a \in 1..MaxBalance : LedgerMove(a)
    BY <2>2, LedgerTypes DEF LedgerMove
  <2>3. ~ClaimFees
    BY NewFeesFacts DEF ClaimFees, LedgerInv, AccruedFees
  <2> QED BY <2>1, <2>2, <2>3, StepMoves
<1> QED BY <1>1, <1>2, LedgerInvHolds, PTL DEF Spec
=============================================================================
