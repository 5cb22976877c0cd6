-------------------------- MODULE VaultSweepProofs --------------------------
(***************************************************************************)
(* Proofs about the lazy parts of InsuranceVault: the sweep that drops     *)
(* expired policies and portfolios from the sets the unearned premium is   *)
(* summed over, and the fee clock that each accrual moves.  Then what      *)
(* rests on that sum across a step: the cash behind the commitments, the   *)
(* fee owed and the value of a share.                                      *)
(***************************************************************************)
EXTENDS InsuranceVaultProofs

USE DEF clockVars, policyVars, portfolioVars, complianceVars, worldVars,
        shareVars, policySetVars, sweptVars, allocationVars, premiumVars,
        feeVars, vaultVars

-----------------------------------------------------------------------------
(***************************************************************************)
(* The inductive invariant.  UprComplete speaks of amounts that are still  *)
(* unearned now; what survives a step is why a premium is out of the sets: *)
(* its policy or portfolio is over, and stays so.                          *)
(***************************************************************************)
AddedAreActive ==
    \A p \in policyAdded : policies[p].status = "ACTIVE"

PolicyPremiumsKept ==
    \A p \in Policies :
        premiumDeposited[p] > 0 =>
            /\ p \in policyAdded
            /\ ~clockLocked /\ p \notin premiumPolicies => IsPolicyExpired(p)

PortfolioPremiumsKept ==
    \A f \in Portfolios :
        portfolioPremium[f] > 0 =>
            /\ Submitted(f)
            /\ f \notin premiumPortfolios => CoverageOver(f)

SweepInv ==
    /\ VaultTypeOK
    /\ FeeClockNeverAhead
    /\ AddedAreActive
    /\ PolicyPremiumsKept
    /\ PortfolioPremiumsKept

-----------------------------------------------------------------------------
(***************************************************************************)
(* What a step of the vault may do to its clock and to the two sets.       *)
(***************************************************************************)
FeeClockStep ==
    \/ UNCHANGED lastFeeTimestamp
    \/ lastFeeTimestamp' = CurrentTime

SweptOrKeptPolicies ==
    /\ UNCHANGED <<policyAdded, premiumDeposited>>
    /\ premiumPolicies' = KeptPolicies \/ UNCHANGED premiumPolicies

SweptOrKeptPortfolios ==
    /\ UNCHANGED portfolioPremium
    /\ premiumPortfolios' = LivePortfolios \/ UNCHANGED premiumPortfolios

PolicyBooks ==
    \/ SweptOrKeptPolicies
    \/ \E p \in Policies : AddPolicy(p)
    \/ \E p \in Policies, amount \in Amounts : DepositPremium(p, amount)

PortfolioBooks ==
    \/ SweptOrKeptPortfolios
    \/ \E f \in Portfolios, amount \in Amounts : RecordPortfolioPremium(f, amount)

VaultStepBooks == UNCHANGED worldVars /\ FeeClockStep /\ PolicyBooks /\ PortfolioBooks

LEMMA EntryBooks ==
    ASSUME NEW lp, NEW assets, NEW amount,
           EnterVault(lp, assets, amount) \/ LeaveVault(lp, assets, amount)
    PROVE  VaultStepBooks
BY DEF EnterVault, LeaveVault, AccrueFees, SweepExpired, VaultStepBooks, FeeClockStep,
       PolicyBooks, PortfolioBooks, SweptOrKeptPolicies, SweptOrKeptPortfolios

LEMMA LPBooks == LPStep => VaultStepBooks
BY EntryBooks DEF LPStep, Deposit, Mint, Withdraw, Redeem

LEMMA OtherBooks ==
    ASSUME OtherVaultStep
    PROVE  VaultStepBooks
<1> USE DEF VaultStepBooks, FeeClockStep, PolicyBooks, PortfolioBooks,
            SweptOrKeptPolicies, SweptOrKeptPortfolios
<1>1. ASSUME NEW from \in LPs, NEW to \in LPs, NEW amount \in ShareAmounts,
             TransferShares(from, to, amount)
      PROVE  VaultStepBooks
  BY <1>1 DEF TransferShares
<1>2. ASSUME NEW cap \in DepositCaps, SetDepositCap(cap)
      PROVE  VaultStepBooks
  BY <1>2 DEF SetDepositCap
<1>3. ASSUME NEW p \in Policies, AddPolicy(p)
      PROVE  VaultStepBooks
  <2>1. UNCHANGED <<worldVars, lastFeeTimestamp>> /\ SweptOrKeptPortfolios
    BY <1>3 DEF AddPolicy
  <2> QED BY <1>3, <2>1
<1>4. ASSUME NEW p \in Policies, NEW amount \in Amounts, DepositPremium(p, amount)
      PROVE  VaultStepBooks
  <2>1. UNCHANGED worldVars /\ FeeClockStep /\ SweptOrKeptPortfolios
    BY <1>4 DEF DepositPremium, AccrueFees
  <2> QED BY <1>4, <2>1
<1>5. ASSUME NEW f \in Portfolios, NEW amount \in Amounts,
             RecordPortfolioPremium(f, amount)
      PROVE  VaultStepBooks
  <2>1. UNCHANGED worldVars /\ FeeClockStep /\ SweptOrKeptPolicies
    BY <1>5 DEF RecordPortfolioPremium, AccrueFees
  <2> QED BY <1>5, <2>1
<1>6. ASSUME NEW f \in Portfolios, NEW amount \in Amounts,
             \/ AllocateToPortfolio(f, amount)
             \/ DeallocateFromPortfolio(f, amount)
             \/ ReservePortfolioClaim(f, amount)
      PROVE  VaultStepBooks
  BY <1>6 DEF AllocateToPortfolio, DeallocateFromPortfolio, ReservePortfolioClaim,
              AccrueFees, SweepExpired
<1>7. ASSUME NEW amount \in Amounts,
             \/ ReleasePortfolioClaimReserve(amount)
             \/ PayPortfolioClaim(amount)
             \/ Donate(amount)
      PROVE  VaultStepBooks
  BY <1>7 DEF ReleasePortfolioClaimReserve, PayPortfolioClaim, Donate, AccrueFees
<1>8. ASSUME ClaimFees PROVE VaultStepBooks
  BY <1>8 DEF ClaimFees
<1> HIDE DEF VaultStepBooks
<1> QED BY <1>1, <1>2, <1>3, <1>4, <1>5, <1>6, <1>7, <1>8 DEF OtherVaultStep

-----------------------------------------------------------------------------
(***************************************************************************)
(* Steps of the vault keep the invariant: what they drop is over.          *)
(***************************************************************************)
LEMMA SweptAreExpired ==
    /\ \A p \in premiumPolicies \ KeptPolicies : IsPolicyExpired(p)
    /\ \A f \in premiumPortfolios \ LivePortfolios : CoverageOver(f)
BY DEF KeptPolicies, SweptPolicies, LivePolicies, LivePortfolios

LEMMA VaultStepKeepsPolicies ==
    ASSUME SweepInv, UNCHANGED worldVars, PolicyBooks
    PROVE  AddedAreActive' /\ PolicyPremiumsKept'
<1>0. /\ AddedAreActive /\ PolicyPremiumsKept
      /\ policyAdded \subseteq Policies
      /\ premiumDeposited \in [Policies -> Nat]
  BY DEF SweepInv, VaultTypeOK
<1>1. \A p : IsPolicyExpired(p)' <=> IsPolicyExpired(p)
  BY DEF IsPolicyExpired, CurrentTime
<1>2. CASE SweptOrKeptPolicies
  BY <1>0, <1>1, <1>2, SweptAreExpired
  DEF SweptOrKeptPolicies, AddedAreActive, PolicyPremiumsKept
<1>3. ASSUME NEW q \in Policies, AddPolicy(q)
      PROVE  AddedAreActive' /\ PolicyPremiumsKept'
  <2>1. /\ policies[q].status = "ACTIVE" /\ UNCHANGED policies
        /\ policyAdded' = policyAdded \cup {q}
        /\ premiumPolicies' = KeptPolicies
        /\ premiumDeposited'[q] = 0
        /\ \A p \in Policies \ {q} : premiumDeposited'[p] = premiumDeposited[p]
        /\ UNCHANGED clockLocked
    BY <1>0, <1>3 DEF AddPolicy
  <2>2. AddedAreActive'
    BY <1>0, <2>1 DEF AddedAreActive
  <2>3. PolicyPremiumsKept'
    BY <1>0, <1>1, <2>1, SweptAreExpired DEF PolicyPremiumsKept
  <2> QED BY <2>2, <2>3
<1>4. ASSUME NEW q \in Policies, NEW amount \in Amounts, DepositPremium(q, amount)
      PROVE  AddedAreActive' /\ PolicyPremiumsKept'
  <2>1. /\ UNCHANGED <<policies, clockLocked, policyAdded>>
        /\ q \in policyAdded
        /\ premiumPolicies' = KeptPolicies \cup {q}
        /\ \A p \in Policies \ {q} : premiumDeposited'[p] = premiumDeposited[p]
    BY <1>0, <1>4 DEF DepositPremium
  <2>2. AddedAreActive'
    BY <1>0, <2>1 DEF AddedAreActive
  <2>3. PolicyPremiumsKept'
    BY <1>0, <1>1, <2>1, SweptAreExpired DEF PolicyPremiumsKept
  <2> QED BY <2>2, <2>3
<1> QED BY <1>2, <1>3, <1>4 DEF PolicyBooks

LEMMA VaultStepKeepsPortfolios ==
    ASSUME SweepInv, UNCHANGED worldVars, PortfolioBooks
    PROVE  PortfolioPremiumsKept'
<1>0. PortfolioPremiumsKept /\ portfolioPremium \in [Portfolios -> Nat]
  BY DEF SweepInv, VaultTypeOK
<1>1. \A f : /\ CoverageOver(f)' <=> CoverageOver(f)
             /\ Submitted(f)' <=> Submitted(f)
  BY DEF CoverageOver, Submitted
<1>2. CASE SweptOrKeptPortfolios
  BY <1>0, <1>1, <1>2, SweptAreExpired DEF SweptOrKeptPortfolios, PortfolioPremiumsKept
<1>3. ASSUME NEW g \in Portfolios, NEW amount \in Amounts,
             RecordPortfolioPremium(g, amount)
      PROVE  PortfolioPremiumsKept'
  <2>1. /\ Submitted(g)
        /\ premiumPortfolios' = LivePortfolios \cup {g}
        /\ \A f \in Portfolios \ {g} : portfolioPremium'[f] = portfolioPremium[f]
    BY <1>0, <1>3 DEF RecordPortfolioPremium, IsAllocatable, Submitted
  <2> QED BY <1>0, <1>1, <2>1, SweptAreExpired DEF PortfolioPremiumsKept
<1> QED BY <1>2, <1>3 DEF PortfolioBooks

LEMMA VaultStepKeepsSweepInv ==
    ASSUME SweepInv, VaultTypeOK', VaultStepBooks
    PROVE  SweepInv'
<1>1. FeeClockNeverAhead'
  BY CurrentTimeNat
  DEF SweepInv, VaultStepBooks, FeeClockStep, FeeClockNeverAhead, FeeClockReadable,
      CurrentTime
<1> QED
  BY <1>1, VaultStepKeepsPolicies, VaultStepKeepsPortfolios DEF SweepInv, VaultStepBooks

-----------------------------------------------------------------------------
(***************************************************************************)
(* The world keeps it: a term that is over stays over as long as the clock *)
(* runs forwards, and the terms of what bears a premium no longer change.  *)
(***************************************************************************)
LEMMA TimePassing ==
    ASSUME SweepInv, Tick,
           UNCHANGED <<policyVars, portfolioVars, complianceVars, vaultVars>>
    PROVE  FeeClockNeverAhead' /\ AddedAreActive' /\ PolicyPremiumsKept' /\ PortfolioPremiumsKept'
<1>0. /\ FeeClockNeverAhead /\ AddedAreActive /\ PolicyPremiumsKept /\ PortfolioPremiumsKept
      /\ lastFeeTimestamp \in Nat /\ policyAdded \subseteq Policies
      /\ CurrentTime \in Nat
  BY CurrentTimeNat DEF SweepInv, VaultTypeOK
<1>1. blockTime \in Nat /\ timeOffset \in Nat
  BY PolicyAssumption, MaxBlockTimeAssumption DEF SweepInv, VaultTypeOK, BlockTimes, PolicyTypeOK
<1>2. blockTime' = blockTime + 1 /\ CurrentTime' = CurrentTime + 1
  BY <1>1 DEF Tick, CurrentTime
<1>3. \A p \in Policies : IsPolicyExpired(p) => IsPolicyExpired(p)'
  <2>1. \A p \in Policies : policies[p].startTime \in Nat /\ policies[p].duration \in Nat
    BY DEF SweepInv, VaultTypeOK, PolicyTypeOK
  <2> QED BY <1>0, <1>2, <2>1 DEF IsPolicyExpired
<1>4. \A f \in Portfolios : /\ CoverageOver(f) => CoverageOver(f)'
                            /\ Submitted(f)' <=> Submitted(f)
  <2>1. \A f \in Portfolios : pfTerms[f].expiryTime \in Nat
    BY TermsAssumption DEF SweepInv, VaultTypeOK, PortfolioTypeOK, NoTerms
  <2> QED BY <1>1, <1>2, <2>1 DEF CoverageOver, Submitted
<1>5. FeeClockNeverAhead'
  BY <1>0, <1>2 DEF FeeClockNeverAhead, FeeClockReadable
<1>6. AddedAreActive'
  BY <1>0 DEF AddedAreActive
<1>7. PolicyPremiumsKept'
  BY <1>0, <1>3 DEF PolicyPremiumsKept
<1>8. PortfolioPremiumsKept'
  BY <1>0, <1>4 DEF PortfolioPremiumsKept
<1> QED BY <1>5, <1>6, <1>7, <1>8

\* A registration or an activation is of a policy the vault has not added yet.
LEMMA PolicyMoving ==
    ASSUME SweepInv, PolicyNext,
           UNCHANGED <<blockTime, portfolioVars, complianceVars, vaultVars>>
    PROVE  FeeClockNeverAhead' /\ AddedAreActive' /\ PolicyPremiumsKept' /\ PortfolioPremiumsKept'
<1>0. /\ FeeClockNeverAhead /\ AddedAreActive /\ PolicyPremiumsKept /\ PortfolioPremiumsKept
      /\ lastFeeTimestamp \in Nat /\ policyAdded \subseteq Policies
      /\ CurrentTime \in Nat /\ DOMAIN policies = Policies
      /\ \A p \in Policies : policies[p].startTime \in Nat /\ policies[p].duration \in Nat
  BY CurrentTimeNat DEF SweepInv, VaultTypeOK, PolicyTypeOK
<1>1. PortfolioPremiumsKept'
  BY <1>0 DEF PortfolioPremiumsKept, CoverageOver, Submitted
<1>2. ASSUME NEW seconds \in OffsetSteps, AdvanceTime(seconds)
      PROVE  FeeClockNeverAhead' /\ AddedAreActive' /\ PolicyPremiumsKept'
  <2>1. blockTime \in Nat /\ timeOffset \in Nat /\ seconds \in Nat
    BY PolicyAssumption, MaxBlockTimeAssumption DEF SweepInv, VaultTypeOK, BlockTimes, PolicyTypeOK
  <2>2. CurrentTime' = CurrentTime + seconds /\ UNCHANGED <<policies, clockLocked>>
    BY <1>2, <2>1 DEF AdvanceTime, CurrentTime
  <2>3. \A p \in Policies : IsPolicyExpired(p) => IsPolicyExpired(p)'
    BY <1>0, <2>1, <2>2 DEF IsPolicyExpired
  <2>4. FeeClockNeverAhead'
    BY <1>0, <2>1, <2>2 DEF FeeClockNeverAhead, FeeClockReadable
  <2>5. AddedAreActive'
    BY <1>0, <2>2 DEF AddedAreActive
  <2>6. PolicyPremiumsKept'
    BY <1>0, <2>2, <2>3 DEF PolicyPremiumsKept
  <2> QED BY <2>4, <2>5, <2>6
<1>3. ASSUME LockRealTime
      PROVE  FeeClockNeverAhead' /\ AddedAreActive' /\ PolicyPremiumsKept'
  BY <1>0, <1>3 DEF LockRealTime, FeeClockNeverAhead, AddedAreActive, PolicyPremiumsKept
<1>4. ASSUME NEW q \in Policies, policies[q].status # "ACTIVE", UNCHANGED clockVars,
             \A p \in Policies \ {q} : policies'[p] = policies[p]
      PROVE  FeeClockNeverAhead' /\ AddedAreActive' /\ PolicyPremiumsKept'
  <2>1. q \notin policyAdded /\ CurrentTime' = CurrentTime
    BY <1>0, <1>4 DEF AddedAreActive, CurrentTime
  <2>2. FeeClockNeverAhead'
    BY <1>0, <1>4, <2>1 DEF FeeClockNeverAhead, FeeClockReadable
  <2>3. AddedAreActive'
    BY <1>0, <1>4, <2>1 DEF AddedAreActive
  <2>4. \A p \in Policies \ {q} : IsPolicyExpired(p)' <=> IsPolicyExpired(p)
    BY <1>4, <2>1 DEF IsPolicyExpired
  <2>5. PolicyPremiumsKept'
    BY <1>0, <1>4, <2>1, <2>4 DEF PolicyPremiumsKept
  <2> QED BY <2>2, <2>3, <2>5
<1>5. ASSUME NEW q \in Policies, NEW duration \in Durations, RegisterPolicy(q, duration)
      PROVE  FeeClockNeverAhead' /\ AddedAreActive' /\ PolicyPremiumsKept'
  BY <1>0, <1>4, <1>5 DEF RegisterPolicy
<1>6. ASSUME NEW q \in Policies, ActivatePolicy(q)
      PROVE  FeeClockNeverAhead' /\ AddedAreActive' /\ PolicyPremiumsKept'
  BY <1>0, <1>4, <1>6 DEF ActivatePolicy
<1> QED BY <1>1, <1>2, <1>3, <1>5, <1>6 DEF PolicyNext

\* The terms of a portfolio are written once, when it is submitted, and no status
\* it takes later is the one it had before.
LEMMA PortfolioMoving ==
    ASSUME SweepInv, PortfolioNext,
           UNCHANGED <<blockTime, policyVars, complianceVars, vaultVars>>
    PROVE  FeeClockNeverAhead' /\ AddedAreActive' /\ PolicyPremiumsKept' /\ PortfolioPremiumsKept'
<1>0. /\ FeeClockNeverAhead /\ AddedAreActive /\ PolicyPremiumsKept /\ PortfolioPremiumsKept
      /\ DOMAIN pfStatus = Portfolios /\ DOMAIN pfTerms = Portfolios
  BY DEF SweepInv, VaultTypeOK, PortfolioTypeOK
<1>1. FeeClockNeverAhead' /\ AddedAreActive' /\ PolicyPremiumsKept'
  BY <1>0 DEF FeeClockNeverAhead, FeeClockReadable, CurrentTime, AddedAreActive,
              PolicyPremiumsKept, IsPolicyExpired
<1>2. \A f \in Portfolios :
        Submitted(f) => Submitted(f)' /\ pfTerms'[f] = pfTerms[f]
  BY <1>0 DEF Submitted, PortfolioNext, SubmitPortfolio, StartReview, ApprovePortfolio,
              RejectPortfolio, ActivatePortfolio, PausePortfolio, UnpausePortfolio,
              MarkExpired, MovePortfolio
<1>3. PortfolioPremiumsKept'
  BY <1>0, <1>2 DEF PortfolioPremiumsKept, CoverageOver
<1> QED BY <1>1, <1>3

LEMMA SweepInvNext == SweepInv /\ [Next]_vars => SweepInv'
<1> SUFFICES ASSUME SweepInv, [Next]_vars PROVE SweepInv'
  OBVIOUS
<1>1. VaultTypeOK'
  BY NextTypes DEF SweepInv
<1>2. CASE VaultStepBooks
  BY <1>1, <1>2, VaultStepKeepsSweepInv
<1>3. ASSUME UNCHANGED <<blockTime, policyVars, portfolioVars, vaultVars>>
      PROVE  SweepInv'
  <2>1. FeeClockNeverAhead'
    BY <1>3 DEF SweepInv, FeeClockNeverAhead, FeeClockReadable, CurrentTime
  <2>2. AddedAreActive' /\ PolicyPremiumsKept' /\ PortfolioPremiumsKept'
    BY <1>3 DEF SweepInv, AddedAreActive, PolicyPremiumsKept, PortfolioPremiumsKept,
                IsPolicyExpired, CurrentTime, CoverageOver, Submitted
  <2> QED BY <1>1, <2>1, <2>2 DEF SweepInv
<1>4. CASE WorldStep
  BY <1>1, <1>3, <1>4, TimePassing, PolicyMoving, PortfolioMoving
  DEF WorldStep, SetStanding, SetInvestorLimit, SweepInv
<1>5. CASE UNCHANGED vars
  BY <1>3, <1>5 DEF vars
<1> QED BY <1>2, <1>4, <1>5, LPBooks, OtherBooks DEF Next

LEMMA SweepInvInit == Init => SweepInv
<1> SUFFICES ASSUME Init PROVE SweepInv
  OBVIOUS
<1>1. VaultTypeOK
  BY InitTypes
<1>2. FeeClockNeverAhead
  <2>1. lastFeeTimestamp = CurrentTime
    BY DEF Init
  <2> QED BY <1>1, <2>1, CurrentTimeNat DEF FeeClockNeverAhead, FeeClockReadable
<1>3. AddedAreActive /\ PolicyPremiumsKept /\ PortfolioPremiumsKept
  <2>1. /\ policyAdded = {}
        /\ \A p \in Policies : premiumDeposited[p] = 0
        /\ \A f \in Portfolios : portfolioPremium[f] = 0
    BY DEF Init
  <2> QED BY <2>1 DEF AddedAreActive, PolicyPremiumsKept, PortfolioPremiumsKept
<1> QED BY <1>1, <1>2, <1>3 DEF SweepInv

-----------------------------------------------------------------------------
(***************************************************************************)
(* What follows for the unearned premium.                                  *)
(***************************************************************************)
LEMMA NothingEarnsNothing ==
    ASSUME NEW left \in Nat, NEW span \in Nat \ {0}
    PROVE  (0 * left) \div span = 0 /\ CeilDiv(0 * left, span) = 0
<1>1. 0 * left = 0
  OBVIOUS
<1>2. 0 \div span = 0
  OBVIOUS
<1>3. CeilDiv(0, span) = 0
  <2>1. (span - 1) \div span = 0
    BY SMT
  <2>2. 0 + span - 1 = span - 1
    OBVIOUS
  <2> QED BY <2>1, <2>2 DEF CeilDiv
<1> QED BY <1>1, <1>2, <1>3

\* A policy earns until it is over, and only on premium it was paid.
LEMMA PolicyEarningEnds ==
    ASSUME VaultTypeOK, NEW p \in Policies, PolicyUnearned(p) > 0
    PROVE  premiumDeposited[p] > 0 /\ ~IsPolicyExpired(p)
<1> DEFINE elapsed == Monus(CurrentTime, policies[p].startTime)
           left    == Monus(policies[p].duration, elapsed)
<1>1. /\ policies[p].startTime \in Nat /\ policies[p].duration \in Nat
      /\ premiumDeposited[p] \in Nat /\ CurrentTime \in Nat
  BY CurrentTimeNat DEF VaultTypeOK, PolicyTypeOK
<1>2. elapsed \in Nat /\ (CurrentTime >= policies[p].startTime =>
                            elapsed = CurrentTime - policies[p].startTime)
  BY <1>1 DEF Monus
<1>3. left \in Nat /\ (left # 0 => elapsed < policies[p].duration)
  BY <1>1, <1>2 DEF Monus
<1>4. PolicyUnearned(p) = IF left = 0 THEN 0
                          ELSE (premiumDeposited[p] * left) \div policies[p].duration
  BY DEF PolicyUnearned
<1> HIDE DEF elapsed, left
<1>5. left # 0
  BY <1>4
<1>6. policies[p].duration \in Nat \ {0}
  BY <1>1, <1>2, <1>3, <1>5
<1>7. premiumDeposited[p] # 0
  BY <1>3, <1>4, <1>6, NothingEarnsNothing
<1>8. ~IsPolicyExpired(p)
  BY <1>1, <1>2, <1>3, <1>5 DEF IsPolicyExpired
<1> QED BY <1>1, <1>7, <1>8

LEMMA PortfolioEarningEnds ==
    ASSUME VaultTypeOK, NEW f \in Portfolios, PortfolioUnearned(f) > 0
    PROVE  portfolioPremium[f] > 0 /\ ~CoverageOver(f)
<1> DEFINE t    == pfTerms[f]
           span == t.expiryTime - t.inceptionTime
           left == t.expiryTime - blockTime
<1>1. portfolioPremium[f] \in Nat /\ blockTime \in Nat
  BY MaxBlockTimeAssumption DEF VaultTypeOK, BlockTimes
<1>2. ~CoverageOver(f)
  BY DEF PortfolioUnearned
<1>3. /\ t.expiryTime \in Nat /\ t.inceptionTime \in Nat
      /\ t.inceptionTime < t.expiryTime /\ blockTime < t.expiryTime
  <2>1. t \in Terms \cup {NoTerms}
    BY DEF VaultTypeOK, PortfolioTypeOK
  <2>2. t # NoTerms
    BY <1>1, <1>2 DEF CoverageOver, NoTerms
  <2> QED BY <1>1, <1>2, <2>1, <2>2, TermsAssumption DEF CoverageOver
<1>4. span \in Nat \ {0} /\ left \in Nat
  BY <1>1, <1>3
<1>5. PortfolioUnearned(f) = IF blockTime <= t.inceptionTime THEN portfolioPremium[f]
                             ELSE CeilDiv(portfolioPremium[f] * left, span)
  BY <1>2 DEF PortfolioUnearned
<1> HIDE DEF span, left, t
<1>6. portfolioPremium[f] # 0
  BY <1>4, <1>5, NothingEarnsNothing
<1> QED BY <1>1, <1>2, <1>6

THEOREM SweepInvHolds == Spec => []SweepInv
BY SweepInvInit, SweepInvNext, PTL DEF Spec

\* The expiry sweep never drops a premium that is still being earned: whatever the
\* order of additions, premiums, sweeps and expiries, every policy (until the clock
\* is locked) and every portfolio with an unearned part is still summed over.
THEOREM SweepKeepsUnearned == Spec => []UprComplete
<1>1. SweepInv => UprComplete
  <2> SUFFICES ASSUME SweepInv PROVE UprComplete
    OBVIOUS
  <2>1. ASSUME ~clockLocked PROVE PolicyUprComplete
    BY <2>1, PolicyEarningEnds DEF SweepInv, PolicyUprComplete, PolicyPremiumsKept
  <2>2. \A f \in Portfolios : PortfolioUnearned(f) > 0 => f \in premiumPortfolios
    BY PortfolioEarningEnds DEF SweepInv, PortfolioPremiumsKept
  <2> QED BY <2>1, <2>2 DEF UprComplete
<1> QED BY <1>1, SweepInvHolds, PTL

\* Until the owner locks real time in, no accrual of the vault underflows on its
\* clock, so none of the functions that accrue reverts for it.
THEOREM FeeClockStaysBehind == Spec => []FeeClockNeverAhead
BY SweepInvHolds, PTL DEF SweepInv
-----------------------------------------------------------------------------
(***************************************************************************)
(* The unearned premium across a step.  It is a sum over sets that move,   *)
(* of parts that shrink with time, of premiums that grow with each call.   *)
(***************************************************************************)
PolicyUprSum    == SumFunctionOnSet(PolicyUpr, premiumPolicies)
PortfolioUprSum == SumFunctionOnSet(PortfolioUpr, premiumPortfolios)

LEMMA UprSums ==
    VaultTypeOK => /\ PolicyUprSum \in Nat /\ PortfolioUprSum \in Nat
                   /\ TotalUnearnedPremiums = PolicyUprSum + PortfolioUprSum
BY UprCounted, UprIs, SumOnNat DEF PolicyUprSum, PortfolioUprSum

LEMMA UprSumsNext ==
    VaultTypeOK' => (/\ PolicyUprSum \in Nat /\ PortfolioUprSum \in Nat
                     /\ TotalUnearnedPremiums = PolicyUprSum + PortfolioUprSum)'
BY UprSums, PTL

\* What UprCounted and the bounds on a single premium say, before and after a step.
UprTermsOK ==
    /\ Counted(PolicyUpr, premiumPolicies)
    /\ Counted(PortfolioUpr, premiumPortfolios)
    /\ premiumPolicies \subseteq Policies /\ premiumPortfolios \subseteq Portfolios
    /\ \A p \in Policies : /\ PolicyUnearned(p) \in Nat
                           /\ PolicyUnearned(p) <= premiumDeposited[p]
                           /\ premiumDeposited[p] \in Nat
    /\ \A f \in Portfolios : /\ PortfolioUnearned(f) \in Nat
                             /\ PortfolioUnearned(f) <= portfolioPremium[f]
                             /\ portfolioPremium[f] \in Nat

LEMMA UprTerms == VaultTypeOK => UprTermsOK
<1> SUFFICES ASSUME VaultTypeOK PROVE UprTermsOK
  OBVIOUS
<1>1. premiumPolicies \subseteq Policies /\ premiumPortfolios \subseteq Portfolios
  BY DEF VaultTypeOK
<1> QED BY <1>1, UprCounted, PolicyUnearnedFacts, PortfolioUnearnedFacts DEF UprTermsOK

LEMMA UprTermsNext == VaultTypeOK' => UprTermsOK'
BY UprTerms, PTL

\* Smaller parts of fewer premiums make a smaller sum.
LEMMA PolicyUprFalls ==
    ASSUME UprTermsOK, UprTermsOK', premiumPolicies' \subseteq premiumPolicies,
           \A p \in Policies : PolicyUnearned(p)' <= PolicyUnearned(p)
    PROVE  PolicyUprSum' <= PolicyUprSum
<1>1. /\ Counted(PolicyUpr', premiumPolicies') /\ Counted(PolicyUpr, premiumPolicies)
      /\ premiumPolicies \subseteq Policies
  BY DEF UprTermsOK
<1>2. \A p \in premiumPolicies' : PolicyUpr'[p] <= PolicyUpr[p]
  BY <1>1 DEF PolicyUpr
<1> QED BY <1>1, <1>2, SumOnGrows DEF PolicyUprSum

LEMMA PortfolioUprFalls ==
    ASSUME UprTermsOK, UprTermsOK', premiumPortfolios' \subseteq premiumPortfolios,
           \A f \in Portfolios : PortfolioUnearned(f)' <= PortfolioUnearned(f)
    PROVE  PortfolioUprSum' <= PortfolioUprSum
<1>1. /\ Counted(PortfolioUpr', premiumPortfolios')
      /\ Counted(PortfolioUpr, premiumPortfolios)
      /\ premiumPortfolios \subseteq Portfolios
  BY DEF UprTermsOK
<1>2. \A f \in premiumPortfolios' : PortfolioUpr'[f] <= PortfolioUpr[f]
  BY <1>1 DEF PortfolioUpr
<1> QED BY <1>1, <1>2, SumOnGrows DEF PortfolioUprSum

\* Dropping premiums that are earned changes nothing.
LEMMA PolicyUprSame ==
    ASSUME UprTermsOK, premiumPolicies' \subseteq premiumPolicies,
           \A p \in Policies : PolicyUnearned(p)' = PolicyUnearned(p),
           \A p \in premiumPolicies \ premiumPolicies' : PolicyUnearned(p) = 0
    PROVE  PolicyUprSum' = PolicyUprSum
<1>1. Counted(PolicyUpr, premiumPolicies) /\ premiumPolicies \subseteq Policies
  BY DEF UprTermsOK
<1>2. /\ \A p \in premiumPolicies' : PolicyUpr'[p] = PolicyUpr[p]
      /\ \A p \in premiumPolicies \ premiumPolicies' : PolicyUpr[p] = 0
  BY <1>1 DEF PolicyUpr
<1> QED BY <1>1, <1>2, SumWithoutZeros DEF PolicyUprSum

LEMMA PortfolioUprSame ==
    ASSUME UprTermsOK, premiumPortfolios' \subseteq premiumPortfolios,
           \A f \in Portfolios : PortfolioUnearned(f)' = PortfolioUnearned(f),
           \A f \in premiumPortfolios \ premiumPortfolios' : PortfolioUnearned(f) = 0
    PROVE  PortfolioUprSum' = PortfolioUprSum
<1>1. Counted(PortfolioUpr, premiumPortfolios) /\ premiumPortfolios \subseteq Portfolios
  BY DEF UprTermsOK
<1>2. /\ \A f \in premiumPortfolios' : PortfolioUpr'[f] = PortfolioUpr[f]
      /\ \A f \in premiumPortfolios \ premiumPortfolios' : PortfolioUpr[f] = 0
  BY <1>1 DEF PortfolioUpr
<1> QED BY <1>1, <1>2, SumWithoutZeros DEF PortfolioUprSum

\* The arithmetic of one premium: a smaller part is no larger, and b more of an
\* amount is at most b more of its part, rounded down or up.
LEMMA PartShrinks ==
    ASSUME NEW a \in Nat, NEW less \in Nat, NEW part \in Nat, NEW whole \in Nat \ {0},
           less <= part
    PROVE  /\ (a * less) \div whole <= (a * part) \div whole
           /\ CeilDiv(a * less, whole) <= CeilDiv(a * part, whole)
<1>1. a * less \in Nat /\ a * part \in Nat /\ a * less <= a * part
  BY ProductGrows
<1>2. ASSUME NEW m \in Nat, NEW n \in Nat, m <= n
      PROVE  m \div whole <= n \div whole
  <2>1. /\ m \div whole \in Nat /\ (m \div whole) * whole <= m
        /\ n \div whole \in Nat /\ n < (n \div whole) * whole + whole
    BY QuotientBounds
  <2>2. (m \div whole) * whole \in Nat /\ (n \div whole) * whole \in Nat
    BY <2>1, ProductNat
  <2>3. (m \div whole) * whole < (n \div whole) * whole + whole
    BY <1>2, <2>1, <2>2
  <2> QED BY <2>1, <2>3, ProductCancels
<1> DEFINE m == a * less
           n == a * part
<1> HIDE DEF m, n
<1>3. /\ m \in Nat /\ n \in Nat /\ m <= n
      /\ m + whole - 1 \in Nat /\ n + whole - 1 \in Nat
      /\ m + whole - 1 <= n + whole - 1
  BY <1>1 DEF m, n
<1>4. m \div whole <= n \div whole
  BY <1>2, <1>3
<1>5. (m + whole - 1) \div whole <= (n + whole - 1) \div whole
  BY <1>2, <1>3
<1> QED BY <1>4, <1>5 DEF CeilDiv, m, n

LEMMA PartGrows ==
    ASSUME NEW a \in Nat, NEW b \in Nat, NEW part \in Nat, NEW whole \in Nat \ {0},
           part <= whole
    PROVE  /\ ((a + b) * part) \div whole <= (a * part) \div whole + b
           /\ CeilDiv((a + b) * part, whole) <= CeilDiv(a * part, whole) + b
<1> DEFINE m == (a + b) * part
           n == a * part
<1>1. /\ m \in Nat /\ n \in Nat /\ b * whole \in Nat
      /\ m <= n + b * whole
  <2>1. n \in Nat /\ b * part \in Nat /\ b * whole \in Nat /\ b * part <= b * whole
    BY ProductNat, ProductGrows
  <2>2. m = n + b * part
    BY SMT
  <2> HIDE DEF m, n
  <2> QED BY <2>1, <2>2
<1> HIDE DEF m, n
<1>2. ASSUME NEW u \in Nat, NEW v \in Nat, u <= v + b * whole
      PROVE  u \div whole <= v \div whole + b
  <2> DEFINE q == u \div whole
             r == v \div whole
  <2>1. q \in Nat /\ q * whole <= u /\ r \in Nat /\ v < r * whole + whole
    BY QuotientBounds
  <2> HIDE DEF q, r
  <2>2. (r + b) * whole = r * whole + b * whole
    BY <2>1, SMT
  <2>3. q * whole \in Nat /\ r * whole \in Nat /\ r + b \in Nat /\ (r + b) * whole \in Nat
    BY <2>1, ProductNat
  <2>4. q * whole < (r + b) * whole + whole
    BY <1>1, <1>2, <2>1, <2>2, <2>3
  <2>5. q <= r + b
    BY <2>1, <2>3, <2>4, ProductCancels
  <2> QED BY <2>5 DEF q, r
<1>3. m \div whole <= n \div whole + b
  BY <1>1, <1>2
<1>4. /\ m + whole - 1 \in Nat /\ n + whole - 1 \in Nat
      /\ m + whole - 1 <= n + whole - 1 + b * whole
  BY <1>1
<1>5. (m + whole - 1) \div whole <= (n + whole - 1) \div whole + b
  BY <1>2, <1>4
<1> QED BY <1>3, <1>5 DEF CeilDiv, m, n

\* The part of a policy's term that is left, and of a portfolio's.
PolicyLeft(p) ==
    Monus(policies[p].duration, Monus(CurrentTime, policies[p].startTime))

PolicyTermOK(p) ==
    /\ policies[p].startTime \in Nat /\ policies[p].duration \in Nat
    /\ CurrentTime \in Nat /\ premiumDeposited[p] \in Nat
    /\ PolicyLeft(p) \in Nat /\ PolicyLeft(p) <= policies[p].duration
    /\ PolicyUnearned(p) =
         IF PolicyLeft(p) = 0 THEN 0
         ELSE (premiumDeposited[p] * PolicyLeft(p)) \div policies[p].duration

LEMMA PolicyTerm ==
    ASSUME VaultTypeOK, NEW p \in Policies
    PROVE  PolicyTermOK(p)
<1>1. /\ policies[p].startTime \in Nat /\ policies[p].duration \in Nat
      /\ CurrentTime \in Nat /\ premiumDeposited[p] \in Nat
  BY CurrentTimeNat DEF VaultTypeOK, PolicyTypeOK
<1>2. PolicyLeft(p) \in Nat /\ PolicyLeft(p) <= policies[p].duration
  BY <1>1 DEF PolicyLeft, Monus
<1>3. PolicyUnearned(p) =
        IF PolicyLeft(p) = 0 THEN 0
        ELSE (premiumDeposited[p] * PolicyLeft(p)) \div policies[p].duration
  BY DEF PolicyUnearned, PolicyLeft
<1> QED BY <1>1, <1>2, <1>3 DEF PolicyTermOK

\* A portfolio's term, while it runs.
PortfolioLeft(f) == pfTerms[f].expiryTime - blockTime
PortfolioSpan(f) == pfTerms[f].expiryTime - pfTerms[f].inceptionTime

PortfolioTermOK(f) ==
    /\ portfolioPremium[f] \in Nat /\ blockTime \in Nat
    /\ PortfolioUnearned(f) =
         IF CoverageOver(f) THEN 0
         ELSE IF blockTime <= pfTerms[f].inceptionTime THEN portfolioPremium[f]
         ELSE CeilDiv(portfolioPremium[f] * PortfolioLeft(f), PortfolioSpan(f))
    /\ pfTerms[f].expiryTime \in Nat /\ pfTerms[f].inceptionTime \in Nat
    /\ ~CoverageOver(f) => /\ PortfolioLeft(f) \in Nat
                           /\ PortfolioSpan(f) \in Nat \ {0}
    /\ ~CoverageOver(f) /\ blockTime > pfTerms[f].inceptionTime =>
          PortfolioLeft(f) <= PortfolioSpan(f)

LEMMA PortfolioTerm ==
    ASSUME VaultTypeOK, NEW f \in Portfolios
    PROVE  PortfolioTermOK(f)
<1>1. /\ portfolioPremium[f] \in Nat /\ blockTime \in Nat
      /\ pfTerms[f] \in Terms \cup {NoTerms}
  BY MaxBlockTimeAssumption DEF VaultTypeOK, BlockTimes, PortfolioTypeOK
<1>2. PortfolioUnearned(f) =
        IF CoverageOver(f) THEN 0
        ELSE IF blockTime <= pfTerms[f].inceptionTime THEN portfolioPremium[f]
        ELSE CeilDiv(portfolioPremium[f] * PortfolioLeft(f), PortfolioSpan(f))
  BY DEF PortfolioUnearned, PortfolioLeft, PortfolioSpan
<1>3. /\ pfTerms[f].expiryTime \in Nat /\ pfTerms[f].inceptionTime \in Nat
      /\ ~CoverageOver(f) => pfTerms[f].inceptionTime < pfTerms[f].expiryTime
  <2>1. CASE pfTerms[f] \in Terms
    BY <2>1, TermsAssumption
  <2>2. CASE pfTerms[f] = NoTerms
    BY <1>1, <2>2 DEF CoverageOver, NoTerms
  <2> QED BY <1>1, <2>1, <2>2
<1>4. /\ ~CoverageOver(f) => PortfolioLeft(f) \in Nat /\ PortfolioSpan(f) \in Nat \ {0}
      /\ ~CoverageOver(f) /\ blockTime > pfTerms[f].inceptionTime =>
            PortfolioLeft(f) <= PortfolioSpan(f)
  BY <1>1, <1>3 DEF CoverageOver, PortfolioLeft, PortfolioSpan
<1> QED BY <1>1, <1>2, <1>3, <1>4 DEF PortfolioTermOK

LEMMA TermsNext ==
    VaultTypeOK' => /\ \A p \in Policies : PolicyTermOK(p)'
                    /\ \A f \in Portfolios : PortfolioTermOK(f)'
<1>1. VaultTypeOK => /\ \A p \in Policies : PolicyTermOK(p)
                     /\ \A f \in Portfolios : PortfolioTermOK(f)
  BY PolicyTerm, PortfolioTerm
<1>2. VaultTypeOK' => (/\ \A p \in Policies : PolicyTermOK(p)
                       /\ \A f \in Portfolios : PortfolioTermOK(f))'
  BY <1>1, PTL
<1> QED BY <1>2

\* With time a premium is earned, never unearned.
LEMMA PolicyEarns ==
    ASSUME VaultTypeOK, VaultTypeOK', NEW p \in Policies,
           policies'[p] = policies[p], premiumDeposited'[p] = premiumDeposited[p],
           CurrentTime <= CurrentTime'
    PROVE  PolicyUnearned(p)' <= PolicyUnearned(p)
<1>1. PolicyTermOK(p) /\ PolicyTermOK(p)'
  BY PolicyTerm, TermsNext
<1>2. /\ PolicyUnearned(p) \in Nat
      /\ PolicyUnearned(p) = IF PolicyLeft(p) = 0 THEN 0
           ELSE (premiumDeposited[p] * PolicyLeft(p)) \div policies[p].duration
      /\ PolicyUnearned(p)' = IF PolicyLeft(p)' = 0 THEN 0
           ELSE (premiumDeposited[p] * PolicyLeft(p)') \div policies[p].duration
      /\ PolicyLeft(p) \in Nat /\ PolicyLeft(p)' \in Nat
      /\ PolicyLeft(p) <= policies[p].duration /\ policies[p].duration \in Nat
      /\ premiumDeposited[p] \in Nat
  BY <1>1, PolicyUnearnedFacts DEF PolicyTermOK
<1>3. PolicyLeft(p)' <= PolicyLeft(p)
  BY <1>1 DEF PolicyTermOK, PolicyLeft, Monus
<1>4. CASE PolicyLeft(p)' = 0
  BY <1>2, <1>4
<1>5. CASE PolicyLeft(p)' # 0
  <2>1. PolicyLeft(p) # 0 /\ policies[p].duration \in Nat \ {0}
    BY <1>2, <1>3, <1>5
  <2>2. (premiumDeposited[p] * PolicyLeft(p)') \div policies[p].duration
          <= (premiumDeposited[p] * PolicyLeft(p)) \div policies[p].duration
    BY <1>2, <1>3, <2>1, PartShrinks
  <2> QED BY <1>2, <1>5, <2>1, <2>2
<1> QED BY <1>4, <1>5

LEMMA PortfolioEarns ==
    ASSUME VaultTypeOK, VaultTypeOK', NEW f \in Portfolios,
           pfTerms'[f] = pfTerms[f], portfolioPremium'[f] = portfolioPremium[f],
           blockTime <= blockTime'
    PROVE  PortfolioUnearned(f)' <= PortfolioUnearned(f)
<1>1. PortfolioTermOK(f) /\ PortfolioTermOK(f)'
  BY PortfolioTerm, TermsNext
<1>2. /\ UprTermsOK /\ UprTermsOK'
      /\ PortfolioUnearned(f) \in Nat /\ PortfolioUnearned(f)' \in Nat
      /\ PortfolioUnearned(f)' <= portfolioPremium[f]
  BY UprTerms, UprTermsNext DEF UprTermsOK
<1>3. CoverageOver(f) => CoverageOver(f)'
  BY <1>1 DEF PortfolioTermOK, CoverageOver
<1>4. CASE CoverageOver(f)'
  BY <1>1, <1>2, <1>4 DEF PortfolioTermOK
<1>5. CASE ~CoverageOver(f)' /\ blockTime <= pfTerms[f].inceptionTime
  BY <1>1, <1>2, <1>3, <1>5 DEF PortfolioTermOK
<1>6. CASE ~CoverageOver(f)' /\ blockTime > pfTerms[f].inceptionTime
  <2>1. ~CoverageOver(f) /\ blockTime' > pfTerms[f].inceptionTime
    BY <1>1, <1>3, <1>6 DEF PortfolioTermOK
  <2>2. /\ PortfolioUnearned(f) = CeilDiv(portfolioPremium[f] * PortfolioLeft(f), PortfolioSpan(f))
        /\ PortfolioUnearned(f)'
             = CeilDiv(portfolioPremium[f] * PortfolioLeft(f)', PortfolioSpan(f))
        /\ PortfolioLeft(f) \in Nat /\ PortfolioLeft(f)' \in Nat
        /\ PortfolioSpan(f) \in Nat \ {0} /\ portfolioPremium[f] \in Nat
    <3>1. PortfolioSpan(f)' = PortfolioSpan(f)
      BY DEF PortfolioSpan
    <3>2. /\ ~(blockTime <= pfTerms[f].inceptionTime)
          /\ ~(blockTime' <= pfTerms[f].inceptionTime)
      BY <1>1, <1>6, <2>1 DEF PortfolioTermOK
    <3> QED BY <1>1, <1>6, <2>1, <3>1, <3>2 DEF PortfolioTermOK
  <2>3. PortfolioLeft(f)' <= PortfolioLeft(f)
    BY <1>1 DEF PortfolioTermOK, PortfolioLeft
  <2> QED BY <2>2, <2>3, PartShrinks
<1> QED BY <1>1, <1>4, <1>5, <1>6 DEF PortfolioTermOK

\* A premium of so much more leaves at most so much more unearned.
LEMMA PolicyPremiumGrows ==
    ASSUME VaultTypeOK, NEW p \in Policies, NEW amount \in Nat,
           UNCHANGED worldVars, premiumDeposited'[p] = premiumDeposited[p] + amount
    PROVE  PolicyUnearned(p)' <= PolicyUnearned(p) + amount
<1>1. PolicyTermOK(p)
  BY PolicyTerm
<1>2. /\ UNCHANGED <<PolicyLeft(p), policies>>
      /\ PolicyUnearned(p)' = IF PolicyLeft(p) = 0 THEN 0
           ELSE (premiumDeposited'[p] * PolicyLeft(p)) \div policies[p].duration
  BY DEF PolicyUnearned, PolicyLeft, CurrentTime
<1>3. PolicyUnearned(p) \in Nat
  BY PolicyUnearnedFacts
<1>4. CASE PolicyLeft(p) = 0
  BY <1>2, <1>3, <1>4
<1>5. CASE PolicyLeft(p) # 0
  <2>1. /\ policies[p].duration \in Nat \ {0} /\ premiumDeposited[p] \in Nat
        /\ PolicyLeft(p) \in Nat /\ PolicyLeft(p) <= policies[p].duration
        /\ PolicyUnearned(p)
             = (premiumDeposited[p] * PolicyLeft(p)) \div policies[p].duration
        /\ PolicyUnearned(p)'
             = ((premiumDeposited[p] + amount) * PolicyLeft(p)) \div policies[p].duration
    BY <1>1, <1>2, <1>5 DEF PolicyTermOK
  <2> QED BY <2>1, PartGrows
<1> QED BY <1>4, <1>5

LEMMA PortfolioPremiumGrows ==
    ASSUME VaultTypeOK, NEW f \in Portfolios, NEW amount \in Nat,
           UNCHANGED worldVars, portfolioPremium'[f] = portfolioPremium[f] + amount
    PROVE  PortfolioUnearned(f)' <= PortfolioUnearned(f) + amount
<1>1. PortfolioTermOK(f)
  BY PortfolioTerm
<1>2. PortfolioUnearned(f)' =
        IF CoverageOver(f) THEN 0
        ELSE IF blockTime <= pfTerms[f].inceptionTime THEN portfolioPremium'[f]
        ELSE CeilDiv(portfolioPremium'[f] * PortfolioLeft(f), PortfolioSpan(f))
  BY DEF PortfolioUnearned, PortfolioLeft, PortfolioSpan, CoverageOver
<1>3. CASE CoverageOver(f) \/ blockTime <= pfTerms[f].inceptionTime
  BY <1>1, <1>2, <1>3 DEF PortfolioTermOK
<1>4. CASE ~CoverageOver(f) /\ ~(blockTime <= pfTerms[f].inceptionTime)
  <2>1. /\ PortfolioSpan(f) \in Nat \ {0} /\ portfolioPremium[f] \in Nat
        /\ PortfolioLeft(f) \in Nat /\ PortfolioLeft(f) <= PortfolioSpan(f)
        /\ PortfolioUnearned(f)
             = CeilDiv(portfolioPremium[f] * PortfolioLeft(f), PortfolioSpan(f))
        /\ PortfolioUnearned(f)'
             = CeilDiv((portfolioPremium[f] + amount) * PortfolioLeft(f), PortfolioSpan(f))
    BY <1>1, <1>2, <1>4 DEF PortfolioTermOK
  <2> QED BY <2>1, PartGrows
<1> QED BY <1>3, <1>4

\* A step of the vault: what the sweep drops is earned, so that only a premium
\* paid in moves the unearned premium, and by no more than was paid.
LEMMA SweptIsEarned ==
    ASSUME VaultTypeOK
    PROVE  /\ \A p \in premiumPolicies \ KeptPolicies : PolicyUnearned(p) = 0
           /\ \A f \in premiumPortfolios \ LivePortfolios : PortfolioUnearned(f) = 0
<1>1. premiumPolicies \subseteq Policies /\ premiumPortfolios \subseteq Portfolios
  BY DEF VaultTypeOK
<1> QED
  BY <1>1, SweptAreExpired, PolicyEarningEnds, PortfolioEarningEnds,
     PolicyUnearnedFacts, PortfolioUnearnedFacts

LEMMA PolicyUprOfStep ==
    ASSUME SweepInv, VaultTypeOK', UNCHANGED worldVars, PolicyBooks
    PROVE  \/ PolicyUprSum' = PolicyUprSum
           \/ \E p \in Policies, amount \in Amounts :
                 /\ DepositPremium(p, amount)
                 /\ PolicyUprComplete => PolicyUprSum' <= PolicyUprSum + amount
<1>1. /\ VaultTypeOK /\ UprTermsOK /\ UprTermsOK'
      /\ KeptPolicies \subseteq premiumPolicies
      /\ premiumDeposited \in [Policies -> Nat]
  BY UprTerms, UprTermsNext, SweptSubsets DEF SweepInv, VaultTypeOK
<1>2. ASSUME UNCHANGED premiumDeposited,
             premiumPolicies' = KeptPolicies \/ UNCHANGED premiumPolicies
      PROVE  PolicyUprSum' = PolicyUprSum
  <2>1. \A p \in Policies : PolicyUnearned(p)' = PolicyUnearned(p)
    BY <1>2 DEF PolicyUnearned, CurrentTime
  <2>2. /\ premiumPolicies' \subseteq premiumPolicies
        /\ \A p \in premiumPolicies \ premiumPolicies' : PolicyUnearned(p) = 0
    BY <1>1, <1>2, SweptIsEarned
  <2> QED BY <1>1, <2>1, <2>2, PolicyUprSame
<1>3. CASE SweptOrKeptPolicies
  BY <1>2, <1>3 DEF SweptOrKeptPolicies
<1>4. ASSUME NEW p \in Policies, AddPolicy(p)
      PROVE  PolicyUprSum' = PolicyUprSum
  <2>1. premiumDeposited[p] = 0
    BY <1>1, <1>4 DEF AddPolicy, SweepInv, PolicyPremiumsKept
  <2>2. UNCHANGED premiumDeposited /\ premiumPolicies' = KeptPolicies
    BY <1>1, <1>4, <2>1 DEF AddPolicy
  <2> QED BY <1>2, <2>2
<1>5. ASSUME NEW p \in Policies, NEW amount \in Amounts, DepositPremium(p, amount),
             PolicyUprComplete
      PROVE  PolicyUprSum' <= PolicyUprSum + amount
  <2>1. /\ premiumDeposited' = [premiumDeposited EXCEPT ![p] = @ + amount]
        /\ premiumPolicies' = KeptPolicies \cup {p}
        /\ amount \in Nat
    BY <1>5, VaultAssumption DEF DepositPremium
  <2>2. PolicyUnearned(p)' <= PolicyUnearned(p) + amount
    BY <1>1, <2>1, PolicyPremiumGrows
  <2>3. \A q \in Policies \ {p} : PolicyUnearned(q)' = PolicyUnearned(q)
    BY <1>1, <2>1 DEF PolicyUnearned, CurrentTime
  <2>4. /\ Counted(PolicyUpr, premiumPolicies) /\ Counted(PolicyUpr', premiumPolicies')
        /\ premiumPolicies \subseteq Policies /\ premiumPolicies' \subseteq Policies
        /\ \A q \in Policies : PolicyUnearned(q) \in Nat
    BY <1>1 DEF UprTermsOK
  <2>5. /\ p \in premiumPolicies' /\ premiumPolicies' \ {p} \subseteq premiumPolicies
        /\ \A q \in premiumPolicies' \ {p} : PolicyUpr'[q] <= PolicyUpr[q]
        /\ PolicyUpr[p] \in Nat
        /\ p \notin premiumPolicies => PolicyUpr[p] = 0
        /\ PolicyUpr'[p] <= PolicyUpr[p] + amount
    <3>1. /\ p \in premiumPolicies' /\ premiumPolicies' \ {p} \subseteq premiumPolicies
          /\ PolicyUpr[p] = PolicyUnearned(p) /\ PolicyUpr'[p] = PolicyUnearned(p)'
      BY <1>1, <2>1 DEF PolicyUpr
    <3>2. \A q \in premiumPolicies' \ {p} : PolicyUpr'[q] <= PolicyUpr[q]
      BY <2>3, <2>4 DEF PolicyUpr
    <3>3. p \notin premiumPolicies => PolicyUnearned(p) = 0
      BY <1>5, <2>4 DEF PolicyUprComplete
    <3> QED BY <2>2, <2>4, <3>1, <3>2, <3>3
  <2> QED BY <2>1, <2>4, <2>5, SumOneJoins DEF PolicyUprSum
<1> QED BY <1>3, <1>4, <1>5 DEF PolicyBooks

LEMMA PortfolioUprOfStep ==
    ASSUME SweepInv, VaultTypeOK', UNCHANGED worldVars, PortfolioBooks
    PROVE  \/ PortfolioUprSum' = PortfolioUprSum
           \/ \E f \in Portfolios, amount \in Amounts :
                 /\ RecordPortfolioPremium(f, amount)
                 /\ PortfolioUprSum' <= PortfolioUprSum + amount
<1>1. /\ VaultTypeOK /\ UprTermsOK /\ UprTermsOK'
      /\ LivePortfolios \subseteq premiumPortfolios
      /\ portfolioPremium \in [Portfolios -> Nat]
  BY UprTerms, UprTermsNext, SweptSubsets DEF SweepInv, VaultTypeOK
<1>2. ASSUME SweptOrKeptPortfolios
      PROVE  PortfolioUprSum' = PortfolioUprSum
  <2>1. \A f \in Portfolios : PortfolioUnearned(f)' = PortfolioUnearned(f)
    BY <1>2 DEF SweptOrKeptPortfolios, PortfolioUnearned, CoverageOver
  <2>2. /\ premiumPortfolios' \subseteq premiumPortfolios
        /\ \A f \in premiumPortfolios \ premiumPortfolios' : PortfolioUnearned(f) = 0
    BY <1>1, <1>2, SweptIsEarned DEF SweptOrKeptPortfolios
  <2> QED BY <1>1, <2>1, <2>2, PortfolioUprSame
<1>3. ASSUME NEW f \in Portfolios, NEW amount \in Amounts,
             RecordPortfolioPremium(f, amount)
      PROVE  PortfolioUprSum' <= PortfolioUprSum + amount
  <2>1. /\ portfolioPremium' = [portfolioPremium EXCEPT ![f] = @ + amount]
        /\ premiumPortfolios' = LivePortfolios \cup {f}
        /\ amount \in Nat
    BY <1>3, VaultAssumption DEF RecordPortfolioPremium
  <2>2. PortfolioUnearned(f)' <= PortfolioUnearned(f) + amount
    BY <1>1, <2>1, PortfolioPremiumGrows
  <2>3. \A g \in Portfolios \ {f} : PortfolioUnearned(g)' = PortfolioUnearned(g)
    BY <1>1, <2>1 DEF PortfolioUnearned, CoverageOver
  <2>4. /\ Counted(PortfolioUpr, premiumPortfolios)
        /\ Counted(PortfolioUpr', premiumPortfolios')
        /\ premiumPortfolios \subseteq Portfolios /\ premiumPortfolios' \subseteq Portfolios
        /\ \A g \in Portfolios : PortfolioUnearned(g) \in Nat
    BY <1>1 DEF UprTermsOK
  <2>5. f \notin premiumPortfolios => PortfolioUnearned(f) = 0
    BY <1>1, <2>4, PortfolioEarningEnds DEF SweepInv, PortfolioPremiumsKept
  <2>6. /\ f \in premiumPortfolios' /\ premiumPortfolios' \ {f} \subseteq premiumPortfolios
        /\ \A g \in premiumPortfolios' \ {f} : PortfolioUpr'[g] <= PortfolioUpr[g]
        /\ PortfolioUpr[f] \in Nat
        /\ f \notin premiumPortfolios => PortfolioUpr[f] = 0
        /\ PortfolioUpr'[f] <= PortfolioUpr[f] + amount
    <3>1. /\ f \in premiumPortfolios' /\ premiumPortfolios' \ {f} \subseteq premiumPortfolios
          /\ PortfolioUpr[f] = PortfolioUnearned(f)
          /\ PortfolioUpr'[f] = PortfolioUnearned(f)'
      BY <1>1, <2>1 DEF PortfolioUpr
    <3>2. \A g \in premiumPortfolios' \ {f} : PortfolioUpr'[g] <= PortfolioUpr[g]
      BY <2>3, <2>4 DEF PortfolioUpr
    <3> QED BY <2>2, <2>4, <2>5, <3>1, <3>2
  <2> QED BY <2>1, <2>4, <2>6, SumOneJoins DEF PortfolioUprSum
<1> QED BY <1>2, <1>3 DEF PortfolioBooks

\* The world moves no premium, and no term of anything that bears one.
LEMMA WorldTerms ==
    ASSUME SweepInv, WorldStep
    PROVE  /\ UNCHANGED vaultVars
           /\ \A p \in Policies : policies'[p] = policies[p] \/ premiumDeposited[p] = 0
           /\ \A f \in Portfolios : pfTerms'[f] = pfTerms[f] \/ portfolioPremium[f] = 0
           /\ \/ UNCHANGED blockTime
              \/ blockTime' = blockTime + 1 /\ UNCHANGED timeOffset
<1>1. /\ AddedAreActive /\ PolicyPremiumsKept /\ PortfolioPremiumsKept
      /\ premiumDeposited \in [Policies -> Nat] /\ portfolioPremium \in [Portfolios -> Nat]
      /\ DOMAIN policies = Policies /\ DOMAIN pfTerms = Portfolios
  BY DEF SweepInv, VaultTypeOK, PolicyTypeOK, PortfolioTypeOK
<1>2. UNCHANGED vaultVars
  BY DEF WorldStep, SetStanding, SetInvestorLimit
<1>3. \A p \in Policies : policies'[p] = policies[p] \/ policies[p].status # "ACTIVE"
  BY <1>1 DEF WorldStep, SetStanding, SetInvestorLimit, PolicyNext, AdvanceTime,
              LockRealTime, RegisterPolicy, ActivatePolicy
<1>4. \A p \in Policies : policies[p].status # "ACTIVE" => premiumDeposited[p] = 0
  BY <1>1 DEF AddedAreActive, PolicyPremiumsKept
<1>5. \A f \in Portfolios : pfTerms'[f] = pfTerms[f] \/ ~Submitted(f)
  BY <1>1 DEF WorldStep, SetStanding, SetInvestorLimit, PortfolioNext, SubmitPortfolio,
              StartReview, ApprovePortfolio, RejectPortfolio, ActivatePortfolio,
              PausePortfolio, UnpausePortfolio, MarkExpired, MovePortfolio, Submitted
<1>6. \A f \in Portfolios : ~Submitted(f) => portfolioPremium[f] = 0
  BY <1>1 DEF PortfolioPremiumsKept
<1>7. \/ UNCHANGED blockTime
      \/ blockTime' = blockTime + 1 /\ UNCHANGED timeOffset
  BY DEF WorldStep, SetStanding, SetInvestorLimit, Tick
<1> QED BY <1>2, <1>3, <1>4, <1>5, <1>6, <1>7

LEMMA TwoSums ==
    ASSUME NEW a \in Nat, NEW b \in Nat, NEW c \in Nat, NEW d \in Nat, NEW n \in Nat
    PROVE  /\ c <= a /\ d <= b => c + d <= a + b
           /\ c <= a + n /\ d = b => c + d <= a + b + n
           /\ c = a /\ d <= b + n => c + d <= a + b + n
OBVIOUS

\* As the clock runs forwards the unearned premium falls, and when it stands
\* nothing of the world moves it.
LEMMA UprOfWorldStep ==
    ASSUME SweepInv, VaultTypeOK', WorldStep
    PROVE  /\ timeOffset' >= timeOffset => TotalUnearnedPremiums' <= TotalUnearnedPremiums
           /\ CurrentTime' = CurrentTime => TotalUnearnedPremiums' = TotalUnearnedPremiums
<1>1. /\ VaultTypeOK /\ UprTermsOK /\ UprTermsOK'
      /\ blockTime \in Nat /\ timeOffset \in Nat /\ timeOffset' \in Nat
      /\ UNCHANGED <<premiumPolicies, premiumDeposited, premiumPortfolios, portfolioPremium>>
  BY UprTerms, UprTermsNext, WorldTerms, MaxBlockTimeAssumption, PolicyAssumption
  DEF SweepInv, VaultTypeOK, PolicyTypeOK, BlockTimes
<1>2. \A p \in Policies : premiumDeposited[p] = 0 =>
         PolicyUnearned(p) = 0 /\ PolicyUnearned(p)' = 0
  BY <1>1 DEF UprTermsOK
<1>3. \A f \in Portfolios : portfolioPremium[f] = 0 =>
         PortfolioUnearned(f) = 0 /\ PortfolioUnearned(f)' = 0
  BY <1>1 DEF UprTermsOK
<1>4. /\ PolicyUprSum \in Nat /\ PortfolioUprSum \in Nat
      /\ PolicyUprSum' \in Nat /\ PortfolioUprSum' \in Nat
      /\ TotalUnearnedPremiums = PolicyUprSum + PortfolioUprSum
      /\ TotalUnearnedPremiums' = PolicyUprSum' + PortfolioUprSum'
  BY <1>1, UprSums, UprSumsNext
<1>5. ASSUME timeOffset' >= timeOffset
      PROVE  TotalUnearnedPremiums' <= TotalUnearnedPremiums
  <2>1. blockTime <= blockTime' /\ CurrentTime <= CurrentTime'
    BY <1>1, <1>5, WorldTerms DEF CurrentTime
  <2>2. \A p \in Policies : PolicyUnearned(p)' <= PolicyUnearned(p)
    BY <1>1, <1>2, <2>1, WorldTerms, PolicyEarns
  <2>3. \A f \in Portfolios : PortfolioUnearned(f)' <= PortfolioUnearned(f)
    BY <1>1, <1>3, <2>1, WorldTerms, PortfolioEarns
  <2>4. PolicyUprSum' <= PolicyUprSum
    BY <1>1, <2>2, PolicyUprFalls
  <2>5. PortfolioUprSum' <= PortfolioUprSum
    BY <1>1, <2>3, PortfolioUprFalls
  <2>6. PolicyUprSum' + PortfolioUprSum' <= PolicyUprSum + PortfolioUprSum
    BY <1>4, <2>4, <2>5, TwoSums
  <2> QED BY <1>4, <2>6
<1>6. ASSUME CurrentTime' = CurrentTime
      PROVE  TotalUnearnedPremiums' = TotalUnearnedPremiums
  <2>1. blockTime' = blockTime
    BY <1>1, <1>6, WorldTerms DEF CurrentTime
  <2>2. \A p \in Policies : PolicyUnearned(p)' = PolicyUnearned(p)
    <3> SUFFICES ASSUME NEW p \in Policies
                 PROVE  PolicyUnearned(p)' = PolicyUnearned(p)
      OBVIOUS
    <3>1. CASE premiumDeposited[p] = 0
      BY <1>2, <3>1
    <3>2. CASE policies'[p] = policies[p]
      BY <1>1, <1>6, <3>2 DEF PolicyUnearned
    <3> QED BY <3>1, <3>2, WorldTerms
  <2>3. \A f \in Portfolios : PortfolioUnearned(f)' = PortfolioUnearned(f)
    <3> SUFFICES ASSUME NEW f \in Portfolios
                 PROVE  PortfolioUnearned(f)' = PortfolioUnearned(f)
      OBVIOUS
    <3>1. CASE portfolioPremium[f] = 0
      BY <1>3, <3>1
    <3>2. CASE pfTerms'[f] = pfTerms[f]
      BY <1>1, <2>1, <3>2 DEF PortfolioUnearned, CoverageOver
    <3> QED BY <3>1, <3>2, WorldTerms
  <2>4. PolicyUprSum' = PolicyUprSum
    BY <1>1, <2>2, PolicyUprSame
  <2>5. PortfolioUprSum' = PortfolioUprSum
    BY <1>1, <2>3, PortfolioUprSame
  <2> QED BY <1>4, <2>4, <2>5
<1> QED BY <1>5, <1>6

\* A premium paid in shows in the books.
LEMMA PremiumsShow ==
    ASSUME SweepInv
    PROVE  /\ \A p \in Policies, amount \in Amounts :
                 DepositPremium(p, amount) => premiumDeposited' # premiumDeposited
           /\ \A f \in Portfolios, amount \in Amounts :
                 RecordPortfolioPremium(f, amount) => portfolioPremium' # portfolioPremium
<1>1. /\ premiumDeposited \in [Policies -> Nat] /\ portfolioPremium \in [Portfolios -> Nat]
      /\ \A amount \in Amounts : amount \in Nat \ {0}
  BY VaultAssumption DEF SweepInv, VaultTypeOK
<1>2. ASSUME NEW p \in Policies, NEW amount \in Amounts, DepositPremium(p, amount)
      PROVE  premiumDeposited' # premiumDeposited
  <2>1. premiumDeposited'[p] = premiumDeposited[p] + amount
    BY <1>1, <1>2 DEF DepositPremium
  <2> QED BY <1>1, <2>1
<1>3. ASSUME NEW f \in Portfolios, NEW amount \in Amounts,
             RecordPortfolioPremium(f, amount)
      PROVE  portfolioPremium' # portfolioPremium
  <2>1. portfolioPremium'[f] = portfolioPremium[f] + amount
    BY <1>1, <1>3 DEF RecordPortfolioPremium
  <2> QED BY <1>1, <2>1
<1> QED BY <1>2, <1>3

\* Every step of the vault leaves the unearned premium as it was, but for the two
\* that bring premium in.
LEMMA UprOfVaultStep ==
    ASSUME SweepInv, VaultTypeOK', VaultStepBooks
    PROVE  \/ TotalUnearnedPremiums' = TotalUnearnedPremiums
           \/ \E p \in Policies, amount \in Amounts :
                 /\ DepositPremium(p, amount)
                 /\ PolicyUprComplete =>
                       TotalUnearnedPremiums' <= TotalUnearnedPremiums + amount
           \/ \E f \in Portfolios, amount \in Amounts :
                 /\ RecordPortfolioPremium(f, amount)
                 /\ TotalUnearnedPremiums' <= TotalUnearnedPremiums + amount
<1>1. /\ PolicyUprSum \in Nat /\ PortfolioUprSum \in Nat
      /\ PolicyUprSum' \in Nat /\ PortfolioUprSum' \in Nat
      /\ TotalUnearnedPremiums = PolicyUprSum + PortfolioUprSum
      /\ TotalUnearnedPremiums' = PolicyUprSum' + PortfolioUprSum'
  BY UprSums, UprSumsNext DEF SweepInv
<1>2. UNCHANGED worldVars /\ PolicyBooks /\ PortfolioBooks
  BY DEF VaultStepBooks
<1>3. ASSUME NEW p \in Policies, NEW amount \in Amounts, DepositPremium(p, amount)
      PROVE  PortfolioUprSum' = PortfolioUprSum
  <2>1. UNCHANGED portfolioPremium
    BY <1>3 DEF DepositPremium
  <2> QED BY <1>2, <2>1, PortfolioUprOfStep, PremiumsShow
<1>4. ASSUME NEW f \in Portfolios, NEW amount \in Amounts,
             RecordPortfolioPremium(f, amount)
      PROVE  PolicyUprSum' = PolicyUprSum
  <2>1. UNCHANGED premiumDeposited
    BY <1>4 DEF RecordPortfolioPremium
  <2> QED BY <1>2, <2>1, PolicyUprOfStep, PremiumsShow
<1>5. CASE PolicyUprSum' = PolicyUprSum
  <2>1. CASE PortfolioUprSum' = PortfolioUprSum
    BY <1>1, <1>5, <2>1
  <2>2. ASSUME NEW f \in Portfolios, NEW amount \in Amounts,
               RecordPortfolioPremium(f, amount),
               PortfolioUprSum' <= PortfolioUprSum + amount
        PROVE  TotalUnearnedPremiums' <= TotalUnearnedPremiums + amount
    <3>1. amount \in Nat
      BY VaultAssumption
    <3>2. PolicyUprSum' + PortfolioUprSum' <= PolicyUprSum + PortfolioUprSum + amount
      BY <1>1, <1>5, <2>2, <3>1, TwoSums
    <3> QED BY <1>1, <3>2
  <2> QED BY <1>2, <2>1, <2>2, PortfolioUprOfStep
<1>6. ASSUME NEW p \in Policies, NEW amount \in Amounts, DepositPremium(p, amount),
             PolicyUprComplete => PolicyUprSum' <= PolicyUprSum + amount
      PROVE  PolicyUprComplete =>
                TotalUnearnedPremiums' <= TotalUnearnedPremiums + amount
  <2>1. amount \in Nat
    BY VaultAssumption
  <2>2. PortfolioUprSum' = PortfolioUprSum
    BY <1>3, <1>6
  <2>3. PolicyUprComplete =>
          PolicyUprSum' + PortfolioUprSum' <= PolicyUprSum + PortfolioUprSum + amount
    BY <1>1, <1>6, <2>1, <2>2, TwoSums
  <2> QED BY <1>1, <2>3
<1> QED BY <1>2, <1>5, <1>6, PolicyUprOfStep

LEMMA UprUnmoved ==
    ASSUME SweepInv, VaultTypeOK', VaultStepBooks,
           UNCHANGED <<premiumDeposited, portfolioPremium>>
    PROVE  TotalUnearnedPremiums' = TotalUnearnedPremiums
BY UprOfVaultStep, PremiumsShow

-----------------------------------------------------------------------------
(***************************************************************************)
(* Commitments.  Each operation is guarded by the liabilities it could     *)
(* uncover, and the premium it brings in covers what it leaves unearned.   *)
(***************************************************************************)
CommitmentTypes ==
    /\ balance \in Nat /\ totalPendingClaims \in Nat /\ totalPortfolioAllocated \in Nat
    /\ TotalUnearnedPremiums \in Nat

LEMMA CommitmentsTyped == VaultTypeOK => CommitmentTypes
BY UprNat, VaultAssumption DEF VaultTypeOK, CommitmentTypes

LEMMA CommitmentsTypedNext == VaultTypeOK' => CommitmentTypes'
BY CommitmentsTyped, PTL

\* What a portfolio may be given is cash that nothing else stands against.
LEMMA CapacityFacts ==
    ASSUME VaultTypeOK, NEW amount \in Nat \ {0}, amount <= UnderwritingCapacity
    PROVE  Liabilities + totalPortfolioAllocated + amount <= balance
<1> DEFINE usable == (PreFeeAssets * (BASIS_POINTS - bufferRatioBps)) \div BASIS_POINTS
<1>1. CommitmentTypes /\ PreFeeAssets \in Nat
  BY CommitmentsTyped, PreFeeAssetsFacts
<1>2. usable \in Nat /\ usable <= PreFeeAssets
  <2>1. /\ BASIS_POINTS \in Nat \ {0} /\ BASIS_POINTS - bufferRatioBps \in Nat
        /\ BASIS_POINTS - bufferRatioBps <= BASIS_POINTS
    BY VaultAssumption
  <2> QED BY <1>1, <2>1, PartWithin
<1>3. UnderwritingCapacity = Monus(usable, totalPortfolioAllocated)
  BY DEF UnderwritingCapacity
<1> HIDE DEF usable
<1>4. totalPortfolioAllocated + amount <= PreFeeAssets
  BY <1>1, <1>2, <1>3 DEF Monus, CommitmentTypes
<1>5. Liabilities \in Nat
  BY <1>1 DEF Liabilities, CommitmentTypes
<1> QED BY <1>1, <1>4, <1>5 DEF PreFeeAssets, Monus, CommitmentTypes

LEMMA StillCovered ==
    ASSUME NEW u \in Nat, NEW v \in Nat, NEW r \in Nat, NEW a \in Nat, NEW b \in Nat,
           NEW n \in Nat, u + r + a <= b, v <= u + n
    PROVE  v + r + a <= b + n
OBVIOUS

\* The operations that leave the unearned premium as it was.
LEMMA CommitmentsOfCash ==
    ASSUME VaultTypeOK, VaultTypeOK', CommitmentsCovered,
           TotalUnearnedPremiums' = TotalUnearnedPremiums,
           totalPendingClaims' <= totalPendingClaims,
           LPStep \/ OtherVaultStep, ~FeesCollected
    PROVE  CommitmentsCovered'
<1>1. /\ CommitmentTypes /\ CommitmentTypes'
      /\ Liabilities + totalPortfolioAllocated <= balance
  BY CommitmentsTyped, CommitmentsTypedNext DEF CommitmentsCovered
<1>3. \A amount \in Amounts : amount \in Nat \ {0}
  BY VaultAssumption
<1>4. ASSUME NEW lp \in LPs, NEW assets \in Nat, NEW amount,
             EnterVault(lp, assets, amount)
      PROVE  CommitmentsCovered'
  <2>1. /\ balance' = balance + assets
        /\ UNCHANGED <<totalPendingClaims, totalPortfolioAllocated>>
    BY <1>4 DEF EnterVault
  <2> QED BY <1>1, <2>1 DEF CommitmentsCovered, Liabilities, CommitmentTypes
<1>5. ASSUME NEW lp \in LPs, NEW assets \in Nat, NEW amount,
             LeaveVault(lp, assets, amount)
      PROVE  CommitmentsCovered'
  <2>1. assets <= balance - (totalPendingClaims + totalPortfolioAllocated
                               + TotalUnearnedPremiums)
    BY <1>1, <1>5 DEF LeaveVault, AvailableBuffer, Monus, Liabilities, CommitmentTypes
  <2>2. /\ balance' = balance - assets
        /\ UNCHANGED <<totalPendingClaims, totalPortfolioAllocated>>
    BY <1>5 DEF LeaveVault
  <2> QED BY <1>1, <2>1, <2>2 DEF CommitmentsCovered, Liabilities, CommitmentTypes
<1>6. CASE LPStep
  <2>1. PICK lp \in LPs :
           \/ \E assets \in Amounts \cup {0} :
                 Deposit(lp, assets) \/ Withdraw(lp, assets)
           \/ \E amount \in ShareAmounts : Mint(lp, amount) \/ Redeem(lp, amount)
    BY <1>6 DEF LPStep
  <2>2. ASSUME NEW assets \in Amounts \cup {0},
               Deposit(lp, assets) \/ Withdraw(lp, assets)
        PROVE  CommitmentsCovered'
    <3>1. assets \in Nat
      BY <1>3
    <3> QED BY <1>4, <1>5, <2>2, <3>1 DEF Deposit, Withdraw
  <2>3. ASSUME NEW amount \in ShareAmounts, Mint(lp, amount) \/ Redeem(lp, amount)
        PROVE  CommitmentsCovered'
    <3>1. FeeClockReadable
      BY <2>3 DEF Mint, Redeem, EnterVault, LeaveVault, AccrueFees
    <3>2. AssetsFor(amount, Down) \in Nat /\ AssetsFor(amount, CeilDiv) \in Nat
      BY <3>1, ConversionsNat, VaultAssumption
    <3> QED BY <1>4, <1>5, <2>3, <3>2 DEF Mint, Redeem
  <2> QED BY <2>1, <2>2, <2>3
<1>7. CASE \/ \E from, to \in LPs, amount \in ShareAmounts :
                 TransferShares(from, to, amount)
           \/ \E cap \in DepositCaps : SetDepositCap(cap)
           \/ \E p \in Policies : AddPolicy(p)
  <2>1. UNCHANGED <<balance, totalPendingClaims, totalPortfolioAllocated>>
    BY <1>7 DEF TransferShares, SetDepositCap, AddPolicy
  <2> QED BY <1>1, <2>1 DEF CommitmentsCovered, Liabilities
<1>8. ASSUME NEW amount \in Amounts,
             \/ \E p \in Policies : DepositPremium(p, amount)
             \/ \E f \in Portfolios : RecordPortfolioPremium(f, amount)
             \/ Donate(amount)
      PROVE  CommitmentsCovered'
  <2>1. /\ balance' = balance + amount /\ amount \in Nat
        /\ UNCHANGED <<totalPendingClaims, totalPortfolioAllocated>>
    BY <1>3, <1>8 DEF DepositPremium, RecordPortfolioPremium, Donate
  <2> QED BY <1>1, <2>1 DEF CommitmentsCovered, Liabilities, CommitmentTypes
<1>9. ASSUME NEW f \in Portfolios, NEW amount \in Amounts,
             AllocateToPortfolio(f, amount)
      PROVE  CommitmentsCovered'
  <2>1. Liabilities + totalPortfolioAllocated + amount <= balance
    BY <1>3, <1>9, CapacityFacts DEF AllocateToPortfolio
  <2>2. /\ totalPortfolioAllocated' = totalPortfolioAllocated + amount
        /\ UNCHANGED <<totalPendingClaims, balance>>
    BY <1>9 DEF AllocateToPortfolio
  <2> QED BY <1>1, <1>3, <2>1, <2>2 DEF CommitmentsCovered, Liabilities, CommitmentTypes
<1>10. ASSUME NEW f \in Portfolios, NEW amount \in Amounts,
              DeallocateFromPortfolio(f, amount) \/ ReservePortfolioClaim(f, amount)
       PROVE  CommitmentsCovered'
  <2>1. ~ReservePortfolioClaim(f, amount)
    BY <1>1, <1>3 DEF ReservePortfolioClaim, CommitmentTypes
  <2>2. /\ totalPortfolioAllocated' = totalPortfolioAllocated - amount
        /\ UNCHANGED <<totalPendingClaims, balance>>
        /\ amount \in Nat
    BY <1>3, <1>10, <2>1 DEF DeallocateFromPortfolio
  <2> QED BY <1>1, <2>2 DEF CommitmentsCovered, Liabilities, CommitmentTypes
<1>11. ASSUME NEW amount \in Amounts,
              ReleasePortfolioClaimReserve(amount) \/ PayPortfolioClaim(amount)
       PROVE  CommitmentsCovered'
  <2>1. /\ totalPendingClaims' = totalPendingClaims - amount
        /\ balance' = balance \/ balance' = balance - amount
        /\ UNCHANGED totalPortfolioAllocated
        /\ amount \in Nat
    BY <1>3, <1>11 DEF ReleasePortfolioClaimReserve, PayPortfolioClaim
  <2> QED BY <1>1, <2>1 DEF CommitmentsCovered, Liabilities, CommitmentTypes
<1>12. ~ClaimFees
  <2> SUFFICES ASSUME ClaimFees PROVE FALSE
    OBVIOUS
  <2>1. AccruedFees \in Nat
    BY AccruedFeesNat DEF ClaimFees
  <2> QED BY <2>1 DEF ClaimFees, FeesCollected
<1> QED BY <1>6, <1>7, <1>8, <1>9, <1>10, <1>11, <1>12 DEF OtherVaultStep

\* Unearned premium, claim reserves and committed capital that cash covers stay
\* covered through every deposit, withdrawal, premium, allocation, payout and any
\* passage of time; only collecting fees, a new reserve and a clock turned back
\* can uncover them.
THEOREM CommitmentsStayBacked == Spec => CommitmentsStayCovered
<1>1. SweepInv /\ [Next]_vars
        => [/\ CommitmentsCovered
            /\ PolicyUprComplete
            /\ ~FeesCollected
            /\ totalPendingClaims' <= totalPendingClaims
            /\ timeOffset' >= timeOffset
            => CommitmentsCovered']_vars
  <2> SUFFICES ASSUME SweepInv, [Next]_vars, CommitmentsCovered, PolicyUprComplete,
                      ~FeesCollected, totalPendingClaims' <= totalPendingClaims,
                      timeOffset' >= timeOffset, ~UNCHANGED vars
               PROVE  CommitmentsCovered'
    OBVIOUS
  <2>1. /\ VaultTypeOK /\ VaultTypeOK' /\ CommitmentTypes /\ CommitmentTypes'
        /\ Next
    BY NextTypes, CommitmentsTyped, CommitmentsTypedNext DEF SweepInv
  <2>2. CASE WorldStep
    <3>1. /\ UNCHANGED <<balance, totalPendingClaims, totalPortfolioAllocated>>
          /\ TotalUnearnedPremiums' <= TotalUnearnedPremiums
      BY <2>1, <2>2, UprOfWorldStep, WorldTerms
    <3>2. TotalUnearnedPremiums + totalPendingClaims + totalPortfolioAllocated <= balance
      BY DEF CommitmentsCovered, Liabilities
    <3>3. TotalUnearnedPremiums' <= TotalUnearnedPremiums + 0 /\ balance + 0 = balance
      BY <2>1, <3>1 DEF CommitmentTypes
    <3>4. TotalUnearnedPremiums' + totalPendingClaims + totalPortfolioAllocated
            <= balance + 0
      BY <2>1, <3>2, <3>3, StillCovered DEF CommitmentTypes
    <3> QED BY <3>1, <3>3, <3>4 DEF CommitmentsCovered, Liabilities
  <2>3. CASE LPStep \/ OtherVaultStep
    <3>1. VaultStepBooks
      BY <2>3, LPBooks, OtherBooks
    <3>2. ASSUME NEW amount \in Amounts,
                 \/ \E p \in Policies : DepositPremium(p, amount)
                 \/ \E f \in Portfolios : RecordPortfolioPremium(f, amount),
                 TotalUnearnedPremiums' <= TotalUnearnedPremiums + amount
          PROVE  CommitmentsCovered'
      <4>1. /\ balance' = balance + amount /\ amount \in Nat
            /\ UNCHANGED <<totalPendingClaims, totalPortfolioAllocated>>
        BY <3>2, VaultAssumption DEF DepositPremium, RecordPortfolioPremium
      <4>2. TotalUnearnedPremiums + totalPendingClaims + totalPortfolioAllocated <= balance
        BY DEF CommitmentsCovered, Liabilities
      <4>3. TotalUnearnedPremiums' + totalPendingClaims + totalPortfolioAllocated
              <= balance + amount
        BY <2>1, <3>2, <4>1, <4>2, StillCovered DEF CommitmentTypes
      <4> QED BY <4>1, <4>3 DEF CommitmentsCovered, Liabilities
    <3> QED BY <2>1, <2>3, <3>1, <3>2, UprOfVaultStep, CommitmentsOfCash
  <2> QED BY <2>1, <2>2, <2>3 DEF Next
<1> QED BY <1>1, SweepInvHolds, PTL DEF Spec, CommitmentsStayCovered

-----------------------------------------------------------------------------
(***************************************************************************)
(* Fees.  An accrual moves what was owed into the books and starts again   *)
(* from zero; a step that does not accrue leaves everything the fee is     *)
(* computed from alone.                                                    *)
(***************************************************************************)
LEMMA FeeBaseNat == VaultTypeOK => PreFeeAssets \in Nat
BY PreFeeAssetsFacts

LEMMA FeeBaseNatNext == VaultTypeOK' => (PreFeeAssets \in Nat)'
BY FeeBaseNat, PTL

LEMMA NothingAccrues ==
    ASSUME NEW base \in Nat
    PROVE  (base * managementFeeBps * 0) \div (BASIS_POINTS * SECONDS_PER_YEAR) = 0
<1> DEFINE year == BASIS_POINTS * SECONDS_PER_YEAR
           x == base * managementFeeBps
<1>1. year \in Nat \ {0}
  BY VaultAssumption, SMT
<1>2. x \in Nat
  BY VaultAssumption, ProductNat
<1> HIDE DEF year, x
<1>3. x * 0 = 0 /\ 0 \div year = 0
  BY <1>1, <1>2
<1> QED BY <1>3 DEF x, year

\* Right after an accrual the fee owed is what the books say.
LEMMA AccrualSettles ==
    ASSUME VaultTypeOK, VaultTypeOK', CurrentTime' = CurrentTime,
           lastFeeTimestamp' = CurrentTime
    PROVE  AccruedFees' = accumulatedFees'
<1>1. CurrentTime' - lastFeeTimestamp' = 0
  BY CurrentTimeNat
<1>2. NewFees' = (PreFeeAssets' * managementFeeBps * (CurrentTime' - lastFeeTimestamp'))
                    \div (BASIS_POINTS * SECONDS_PER_YEAR)
  BY DEF NewFees
<1>3. NewFees' = 0
  BY <1>1, <1>2, FeeBaseNatNext, NothingAccrues
<1>4. accumulatedFees' \in Nat
  BY DEF VaultTypeOK
<1>5. AccruedFees' = accumulatedFees' + NewFees'
  BY DEF AccruedFees
<1>6. \A n \in Nat : n + 0 = n
  OBVIOUS
<1> QED BY <1>3, <1>4, <1>5, <1>6

\* What the fee owed is computed from.
LEMMA SameFees ==
    ASSUME UNCHANGED <<CurrentTime, TotalUnearnedPremiums, totalPendingClaims, balance,
                       accumulatedFees, lastFeeTimestamp>>
    PROVE  AccruedFees' = AccruedFees
BY DEF AccruedFees, NewFees, PreFeeAssets, Liabilities

\* How a step of the vault treats the fee.
LEMMA FeeOfVaultStep ==
    ASSUME SweepInv, LPStep \/ OtherVaultStep
    PROVE  \/ AccrueFees
           \/ ClaimFees
           \/ UNCHANGED <<balance, totalPendingClaims, accumulatedFees, lastFeeTimestamp,
                          premiumDeposited, portfolioPremium>>
           \/ ReserveReleased
           \/ Donated
<1>1. /\ balance \in Nat /\ totalPendingClaims \in Nat
      /\ premiumDeposited \in [Policies -> Nat]
      /\ \A amount \in Amounts : amount \in Nat \ {0}
  BY VaultAssumption DEF SweepInv, VaultTypeOK
<1>2. CASE LPStep
  BY <1>2 DEF LPStep, Deposit, Withdraw, Mint, Redeem, EnterVault, LeaveVault
<1>3. CASE \/ \E from, to \in LPs, amount \in ShareAmounts :
                 TransferShares(from, to, amount)
           \/ \E cap \in DepositCaps : SetDepositCap(cap)
  BY <1>3 DEF TransferShares, SetDepositCap
<1>4. ASSUME NEW p \in Policies, AddPolicy(p)
      PROVE  UNCHANGED <<balance, totalPendingClaims, accumulatedFees, lastFeeTimestamp,
                         premiumDeposited, portfolioPremium>>
  <2>1. premiumDeposited[p] = 0
    BY <1>1, <1>4 DEF AddPolicy, SweepInv, PolicyPremiumsKept
  <2>2. premiumDeposited' = premiumDeposited
    BY <1>1, <1>4, <2>1 DEF AddPolicy
  <2> QED BY <1>4, <2>2 DEF AddPolicy
<1>5. CASE \/ \E p \in Policies, amount \in Amounts : DepositPremium(p, amount)
           \/ \E f \in Portfolios, amount \in Amounts :
                 \/ RecordPortfolioPremium(f, amount)
                 \/ AllocateToPortfolio(f, amount)
                 \/ DeallocateFromPortfolio(f, amount)
                 \/ ReservePortfolioClaim(f, amount)
           \/ \E amount \in Amounts : PayPortfolioClaim(amount)
  BY <1>5 DEF DepositPremium, RecordPortfolioPremium, AllocateToPortfolio,
              DeallocateFromPortfolio, ReservePortfolioClaim, PayPortfolioClaim
<1>6. ASSUME NEW amount \in Amounts, ReleasePortfolioClaimReserve(amount)
      PROVE  ReserveReleased
  BY <1>6 DEF ReserveReleased
<1>7. ASSUME NEW amount \in Amounts, Donate(amount)
      PROVE  Donated
  BY <1>7 DEF Donated
<1> QED BY <1>2, <1>3, <1>4, <1>5, <1>6, <1>7 DEF OtherVaultStep

\* A call leaves the fee owed at that moment exactly as it was, or pays all of it
\* out: whatever it does to cash, reserves, premium or the swept sets.  Only time,
\* a plain transfer of USDC and a released reserve change it.
THEOREM FeesChangeOnlyWithTime == Spec => FeesOwedChangeOnlyWithTime
<1>1. SweepInv /\ [Next]_vars
        => [CurrentTime' = CurrentTime /\ ~Donated /\ ~ReserveReleased
            => \/ AccruedFees' = AccruedFees
               \/ AccruedFees' = 0 /\ balance' = balance - AccruedFees]_vars
  <2> SUFFICES ASSUME SweepInv, [Next]_vars, CurrentTime' = CurrentTime,
                      ~Donated, ~ReserveReleased, ~UNCHANGED vars
               PROVE  \/ AccruedFees' = AccruedFees
                      \/ AccruedFees' = 0 /\ balance' = balance - AccruedFees
    OBVIOUS
  <2>1. VaultTypeOK /\ VaultTypeOK' /\ Next
    BY NextTypes DEF SweepInv
  <2>2. CASE WorldStep
    <3>1. TotalUnearnedPremiums' = TotalUnearnedPremiums /\ UNCHANGED vaultVars
      BY <2>1, <2>2, UprOfWorldStep, WorldTerms
    <3> QED BY <3>1, SameFees
  <2>3. CASE LPStep \/ OtherVaultStep
    <3>1. VaultStepBooks
      BY <2>3, LPBooks, OtherBooks
    <3>2. CASE AccrueFees
      BY <2>1, <3>2, AccrualSettles DEF AccrueFees
    <3>3. CASE ClaimFees
      <4>1. AccruedFees' = 0
        BY <2>1, <3>3, AccrualSettles DEF ClaimFees
      <4> QED BY <3>3, <4>1 DEF ClaimFees
    <3>4. CASE UNCHANGED <<balance, totalPendingClaims, accumulatedFees, lastFeeTimestamp,
                           premiumDeposited, portfolioPremium>>
      <4>1. TotalUnearnedPremiums' = TotalUnearnedPremiums
        BY <2>1, <3>1, <3>4, UprUnmoved
      <4> QED BY <3>4, <4>1, SameFees
    <3> QED BY <2>3, <3>2, <3>3, <3>4, FeeOfVaultStep
  <2> QED BY <2>1, <2>2, <2>3 DEF Next
<1> QED BY <1>1, SweepInvHolds, PTL DEF Spec, FeesOwedChangeOnlyWithTime

-----------------------------------------------------------------------------
(***************************************************************************)
(* The price of a share.  An entry or exit moves assets and shares in a    *)
(* proportion rounded against the caller, and nothing else of the price.   *)
(***************************************************************************)

\* Assets and shares that enter or leave together, t the vault's assets and s its
\* shares, virtual ones included.
LEMMA EnteringNeverDilutes ==
    ASSUME NEW t \in Nat, NEW s \in Nat, NEW x \in Nat, NEW y \in Nat, y * t <= x * s
    PROVE  t * (s + y) <= (t + x) * s
<1>1. t * (s + y) = t * s + y * t
  BY SMT
<1>2. (t + x) * s = t * s + x * s
  BY SMT
<1>3. t * s \in Nat /\ y * t \in Nat /\ x * s \in Nat
  BY ProductNat
<1> QED BY <1>1, <1>2, <1>3

LEMMA LeavingNeverDilutes ==
    ASSUME NEW t \in Nat, NEW s \in Nat, NEW x \in Nat, NEW y \in Nat, NEW u \in Nat,
           x * s <= y * t, t <= u + x, y <= s
    PROVE  t * (s - y) <= u * s
<1>1. t * (s - y) + y * t = t * s
  BY SMT
<1>2. t * s <= (u + x) * s
  BY SMT
<1>3. (u + x) * s = u * s + x * s
  BY SMT
<1>4. t * s \in Nat /\ y * t \in Nat /\ x * s \in Nat /\ u * s \in Nat
  BY ProductNat
<1>5. t * (s - y) \in Int
  BY SMT
<1> QED BY <1>1, <1>2, <1>3, <1>4, <1>5

LEMMA CeilDivBounds ==
    ASSUME NEW n \in Nat, NEW d \in Nat \ {0}
    PROVE  CeilDiv(n, d) \in Nat /\ n <= CeilDiv(n, d) * d
<1> DEFINE m == n + d - 1
           q == m \div d
<1>1. m \in Nat
  OBVIOUS
<1>2. q \in Nat /\ m < q * d + d
  <2> HIDE DEF m
  <2> QED BY <1>1, QuotientBounds
<1> HIDE DEF q
<1>3. q * d \in Nat
  BY <1>2, ProductNat
<1>4. n <= q * d
  BY <1>2, <1>3
<1> QED BY <1>2, <1>4 DEF q, CeilDiv

\* The four conversions round against the caller.
LEMMA ConversionsRound ==
    ASSUME VaultTypeOK, FeeClockReadable, NEW a \in Nat
    PROVE  LET s == totalSupply + VIRTUAL_SHARES
               t == TotalAssets + 1
           IN  /\ s \in Nat \ {0} /\ t \in Nat \ {0}
               /\ SharesFor(a, Down) \in Nat    /\ SharesFor(a, Down) * t <= a * s
               /\ SharesFor(a, CeilDiv) \in Nat /\ a * s <= SharesFor(a, CeilDiv) * t
               /\ AssetsFor(a, Down) \in Nat    /\ AssetsFor(a, Down) * s <= a * t
               /\ AssetsFor(a, CeilDiv) \in Nat /\ a * t <= AssetsFor(a, CeilDiv) * s
<1> DEFINE s == totalSupply + VIRTUAL_SHARES
           t == TotalAssets + 1
<1>1. s \in Nat \ {0}
  BY VaultAssumption DEF VaultTypeOK
<1>2. t \in Nat \ {0}
  <2>1. PreFeeAssets \in Nat /\ AccruedFees \in Nat
    BY PreFeeAssetsFacts, AccruedFeesNat
  <2>2. TotalAssets \in Nat
    BY <2>1 DEF TotalAssets, Monus
  <2> QED BY <2>2
<1>3. /\ SharesFor(a, Down) = (a * s) \div t /\ SharesFor(a, CeilDiv) = CeilDiv(a * s, t)
      /\ AssetsFor(a, Down) = (a * t) \div s /\ AssetsFor(a, CeilDiv) = CeilDiv(a * t, s)
  BY DEF SharesFor, AssetsFor, Down
<1> HIDE DEF s, t
<1>4. a * s \in Nat /\ a * t \in Nat
  BY <1>1, <1>2, ProductNat
<1>5. /\ (a * s) \div t \in Nat /\ ((a * s) \div t) * t <= a * s
      /\ (a * t) \div s \in Nat /\ ((a * t) \div s) * s <= a * t
      /\ CeilDiv(a * s, t) \in Nat /\ a * s <= CeilDiv(a * s, t) * t
      /\ CeilDiv(a * t, s) \in Nat /\ a * t <= CeilDiv(a * t, s) * s
  <2> DEFINE m == a * s
             n == a * t
  <2> HIDE DEF m, n
  <2>1. m \in Nat /\ n \in Nat
    BY <1>4 DEF m, n
  <2>2. /\ m \div t \in Nat /\ (m \div t) * t <= m
        /\ n \div s \in Nat /\ (n \div s) * s <= n
    BY <1>1, <1>2, <2>1, QuotientBounds
  <2>3. /\ CeilDiv(m, t) \in Nat /\ m <= CeilDiv(m, t) * t
        /\ CeilDiv(n, s) \in Nat /\ n <= CeilDiv(n, s) * s
    BY <1>1, <1>2, <2>1, CeilDivBounds
  <2> QED BY <2>2, <2>3 DEF m, n
<1> QED BY <1>1, <1>2, <1>3, <1>5 DEF s, t

\* The assets beside a cash balance b, and beside b2, the balance an amount x later.
SolventMove(b, b2, l, f, x) ==
    /\ Monus(Monus(b, l), f) \in Nat
    /\ Monus(Monus(b2, l), f) \in Nat
    /\ b2 = b + x => Monus(Monus(b2, l), f) = Monus(Monus(b, l), f) + x
    /\ b2 = b - x => Monus(Monus(b, l), f) <= Monus(Monus(b2, l), f) + x

LEMMA SolventAssets ==
    ASSUME NEW b \in Nat, NEW b2 \in Nat, NEW l \in Nat, NEW f \in Nat, NEW x \in Nat,
           l + f <= b
    PROVE  SolventMove(b, b2, l, f, x)
BY DEF Monus, SolventMove

LEMMA OneMore ==
    ASSUME NEW a \in Nat, NEW b \in Nat, NEW x \in Nat, a <= b + x
    PROVE  /\ a + 1 \in Nat /\ b + 1 \in Nat
           /\ a + 1 <= (b + 1) + x
OBVIOUS

\* What a solvent vault has for its LPs after an entry or an exit: the cash moved.
LEMMA EntryMovesAssets ==
    ASSUME SweepInv, VaultTypeOK', Solvent, FeeClockReadable,
           NEW lp \in LPs, NEW assets \in Nat, NEW amount \in Nat,
           EnterVault(lp, assets, amount) \/ LeaveVault(lp, assets, amount)
    PROVE  /\ EnterVault(lp, assets, amount) => TotalAssets' = TotalAssets + assets
           /\ LeaveVault(lp, assets, amount) => TotalAssets <= TotalAssets' + assets
           /\ TotalAssets \in Nat /\ TotalAssets' \in Nat
<1>1. /\ VaultTypeOK /\ CommitmentTypes /\ AccruedFees \in Nat
      /\ accumulatedFees' \in Nat /\ balance' \in Nat
  BY CommitmentsTyped, AccruedFeesNat, VaultAssumption DEF SweepInv, VaultTypeOK
<1>2. TotalUnearnedPremiums' = TotalUnearnedPremiums
  <2>1. VaultStepBooks
    BY EntryBooks
  <2>2. UNCHANGED <<premiumDeposited, portfolioPremium>>
    BY DEF EnterVault, LeaveVault
  <2> QED BY <2>1, <2>2, UprUnmoved
<1>3. AccruedFees' = AccruedFees
  <2>1. AccrueFees /\ UNCHANGED worldVars
    BY DEF EnterVault, LeaveVault
  <2>2. CurrentTime' = CurrentTime
    BY <2>1 DEF CurrentTime
  <2> QED BY <1>1, <2>1, <2>2, AccrualSettles DEF AccrueFees
<1>4. Liabilities \in Nat /\ Liabilities' = Liabilities
  BY <1>1, <1>2 DEF Liabilities, EnterVault, LeaveVault, CommitmentTypes
<1>5. Liabilities + AccruedFees <= balance
  BY DEF Solvent
<1>6. /\ TotalAssets = Monus(Monus(balance, Liabilities), AccruedFees)
      /\ TotalAssets' = Monus(Monus(balance', Liabilities), AccruedFees)
  BY <1>3, <1>4 DEF TotalAssets, PreFeeAssets
<1>7. /\ EnterVault(lp, assets, amount) => balance' = balance + assets
      /\ LeaveVault(lp, assets, amount) => balance' = balance - assets
  BY DEF EnterVault, LeaveVault
<1>8. /\ balance \in Nat /\ balance' \in Nat
  BY <1>1 DEF CommitmentTypes
<1>9. SolventMove(balance, balance', Liabilities, AccruedFees, assets)
  BY <1>1, <1>4, <1>5, <1>8, SolventAssets
<1> DEFINE before == Monus(Monus(balance, Liabilities), AccruedFees)
           after  == Monus(Monus(balance', Liabilities), AccruedFees)
<1>10. TotalAssets = before /\ TotalAssets' = after
  BY <1>6
<1>11. /\ before \in Nat /\ after \in Nat
       /\ balance' = balance + assets => after = before + assets
       /\ balance' = balance - assets => before <= after + assets
  BY <1>9 DEF SolventMove
<1> HIDE DEF before, after
<1> QED BY <1>7, <1>10, <1>11

\* Whatever is deposited, minted, withdrawn or redeemed, the value of the shares of
\* the others does not fall, as long as the vault covers what it owes.
THEOREM SharesNeverDiluted == Spec => EntryAndExitNeverDilute
<1> DEFINE Kept == (TotalAssets' + 1) * (totalSupply + VIRTUAL_SHARES)
                     >= (TotalAssets + 1) * (totalSupply' + VIRTUAL_SHARES)
<1>1. SweepInv /\ [Next]_vars /\ totalSupply' # totalSupply /\ Solvent => Kept
  <2> SUFFICES ASSUME SweepInv, [Next]_vars, totalSupply' # totalSupply, Solvent
               PROVE  Kept
    OBVIOUS
  <2>1. VaultTypeOK /\ VaultTypeOK'
    BY NextTypes DEF SweepInv
  <2>2. LPStep
    BY DEF Next, vars, WorldStep, SetStanding, SetInvestorLimit, OtherVaultStep,
           TransferShares, SetDepositCap, AddPolicy, DepositPremium,
           RecordPortfolioPremium, AllocateToPortfolio, DeallocateFromPortfolio,
           ReservePortfolioClaim, ReleasePortfolioClaimReserve, PayPortfolioClaim,
           Donate, ClaimFees
  <2>3. PICK lp \in LPs :
           \/ \E assets \in Amounts \cup {0} :
                 Deposit(lp, assets) \/ Withdraw(lp, assets)
           \/ \E amount \in ShareAmounts : Mint(lp, amount) \/ Redeem(lp, amount)
    BY <2>2 DEF LPStep
  <2>4. FeeClockReadable
    BY <2>3 DEF Deposit, Withdraw, Mint, Redeem, EnterVault, LeaveVault, AccrueFees
  <2> DEFINE s == totalSupply + VIRTUAL_SHARES
             t == TotalAssets + 1
  <2>5. /\ \A assets \in Amounts \cup {0} : assets \in Nat
        /\ \A amount \in ShareAmounts : amount \in Nat
        /\ totalSupply \in Nat /\ totalSupply' \in Nat /\ VIRTUAL_SHARES \in Nat
    BY <2>1, VaultAssumption DEF VaultTypeOK
  <2>6. ASSUME NEW assets \in Nat, NEW amount \in Nat, EnterVault(lp, assets, amount),
               amount * t <= assets * s
        PROVE  Kept
    <3>1. /\ TotalAssets' = TotalAssets + assets /\ TotalAssets \in Nat
          /\ totalSupply' = totalSupply + amount
      BY <2>1, <2>4, <2>6, EntryMovesAssets DEF EnterVault
    <3>2. /\ t \in Nat /\ s \in Nat
          /\ TotalAssets' + 1 = t + assets
          /\ totalSupply' + VIRTUAL_SHARES = s + amount
      BY <2>5, <3>1
    <3> HIDE DEF s, t
    <3>3. t * (s + amount) <= (t + assets) * s
      BY <2>6, <3>2, EnteringNeverDilutes
    <3>4. (TotalAssets' + 1) * s >= t * (totalSupply' + VIRTUAL_SHARES)
      BY <3>2, <3>3
    <3> QED BY <3>4 DEF s, t
  <2>7. ASSUME NEW assets \in Nat, NEW amount \in Nat, LeaveVault(lp, assets, amount),
               assets * s <= amount * t
        PROVE  Kept
    <3>1. /\ TotalAssets <= TotalAssets' + assets
          /\ TotalAssets \in Nat /\ TotalAssets' \in Nat
          /\ totalSupply' = totalSupply - amount /\ amount <= totalSupply
      BY <2>1, <2>4, <2>7, EntryMovesAssets DEF LeaveVault
    <3> DEFINE u == TotalAssets' + 1
    <3>2. /\ t \in Nat /\ s \in Nat /\ u \in Nat
          /\ t <= u + assets /\ amount <= s
          /\ totalSupply' + VIRTUAL_SHARES = s - amount
      <4>1. u \in Nat /\ t <= u + assets
        BY <3>1, OneMore
      <4>2. \A a, x, v \in Nat : x <= a => x <= a + v /\ a - x + v = a + v - x
        OBVIOUS
      <4>3. t \in Nat /\ s \in Nat
        BY <2>5, <3>1
      <4>4. amount <= s /\ totalSupply' + VIRTUAL_SHARES = s - amount
        BY <2>5, <3>1, <4>2
      <4> QED BY <4>1, <4>3, <4>4
    <3> HIDE DEF s, t, u
    <3>3. t * (s - amount) <= u * s
      BY <2>7, <3>2, LeavingNeverDilutes
    <3>4. u * s >= t * (totalSupply' + VIRTUAL_SHARES)
      BY <3>2, <3>3
    <3> QED BY <3>4 DEF s, t, u
  <2>8. ASSUME NEW assets \in Amounts \cup {0}, Deposit(lp, assets) PROVE Kept
    <3>1. SharesFor(assets, Down) \in Nat /\ SharesFor(assets, Down) * t <= assets * s
      BY <2>1, <2>4, <2>5, ConversionsRound
    <3> QED BY <2>5, <2>6, <2>8, <3>1 DEF Deposit
  <2>9. ASSUME NEW assets \in Amounts \cup {0}, Withdraw(lp, assets) PROVE Kept
    <3>1. SharesFor(assets, CeilDiv) \in Nat /\ assets * s <= SharesFor(assets, CeilDiv) * t
      BY <2>1, <2>4, <2>5, ConversionsRound
    <3> QED BY <2>5, <2>7, <2>9, <3>1 DEF Withdraw
  <2>10. ASSUME NEW amount \in ShareAmounts, Mint(lp, amount) PROVE Kept
    <3>1. AssetsFor(amount, CeilDiv) \in Nat /\ amount * t <= AssetsFor(amount, CeilDiv) * s
      BY <2>1, <2>4, <2>5, ConversionsRound
    <3> QED BY <2>5, <2>6, <2>10, <3>1 DEF Mint
  <2>11. ASSUME NEW amount \in ShareAmounts, Redeem(lp, amount) PROVE Kept
    <3>1. AssetsFor(amount, Down) \in Nat /\ AssetsFor(amount, Down) * s <= amount * t
      BY <2>1, <2>4, <2>5, ConversionsRound
    <3> QED BY <2>5, <2>7, <2>11, <3>1 DEF Redeem
  <2> QED BY <2>3, <2>8, <2>9, <2>10, <2>11
<1>2. SweepInv /\ [Next]_vars => [totalSupply' # totalSupply /\ Solvent => Kept]_vars
  BY <1>1
<1> QED BY <1>2, SweepInvHolds, PTL DEF Spec, EntryAndExitNeverDilute

=============================================================================
