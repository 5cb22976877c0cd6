------------------------- MODULE ClaimManagerProofs -------------------------
(***************************************************************************)
(* Proofs about ClaimManager, for every value of its constants.            *)
(***************************************************************************)
EXTENDS ClaimManager, SumFacts

USE DEF portfolioVars, ledger, claimVars, assessorVars, vars

-----------------------------------------------------------------------------
(***************************************************************************)
(* Types.                                                                  *)
(***************************************************************************)

LEMMA LedgerStepTypes ==
    ASSUME LedgerTypeOK, NEW amount \in Nat \ {0},
           \/ TakeReserve(amount)
           \/ ReleaseReserve(amount)
           \/ PayFromReserve(amount)
           \/ CashIn(amount)
           \/ LPExit(amount)
           \/ FeesOut(amount)
    PROVE  LedgerTypeOK'
<1>1. cash \in 0..MaxCash /\ reserved \in 0..MaxCash /\ MaxCash \in Nat
  BY LedgerAssumption DEF LedgerTypeOK
<1> QED
  BY <1>1
  DEF TakeReserve, ReleaseReserve, PayFromReserve, CashIn, LPExit, FeesOut,
      LedgerTypeOK

LEMMA ClockNat == ClaimTypeOK => blockTime \in Nat
BY MaxBlockTimeAssumption DEF ClaimTypeOK, BlockTimes

\* A call on one existing claim writes a record of the right type.
LEMMA ChangeClaimTypes ==
    ASSUME ClaimTypeOK, NEW c \in Claims, NEW from \in SUBSET ClaimStatus,
           NEW new \in Claim, ChangeClaim(c, from, new)
    PROVE  /\ claims' \in [Claims -> Claim]
           /\ UNCHANGED <<blockTime, portfolioVars, disputeWindow, assessorVars>>
BY DEF ChangeClaim, ClaimTypeOK

\* The calls on an existing claim, each with the record it writes.
LEMMA ClaimRecordTypes ==
    ASSUME ClaimTypeOK, NEW c \in Claims
    PROVE  /\ \A status \in ClaimStatus, frozen \in BOOLEAN :
                [claims[c] EXCEPT !.status = status, !.frozen = frozen] \in Claim
           /\ \A frozen \in BOOLEAN : [claims[c] EXCEPT !.frozen = frozen] \in Claim
           /\ \A status \in ClaimStatus : [claims[c] EXCEPT !.status = status] \in Claim
           /\ \A status \in ClaimStatus, amount \in Nat :
                [claims[c] EXCEPT !.status = status, !.approvedAmount = amount] \in Claim
BY DEF ClaimTypeOK, Claim

LEMMA InitTypes == Init => ClaimTypeOK
<1> SUFFICES ASSUME Init PROVE ClaimTypeOK
  OBVIOUS
<1>1. blockTime \in BlockTimes
  <2>1. blockTime = 1
    BY DEF Init, FirstBlock
  <2> QED BY <2>1, MaxBlockTimeAssumption DEF BlockTimes
<1>2. PortfolioTypeOK
  BY DEF Init, PortfolioInit, PortfolioTypeOK, PortfolioStatus
<1>3. LedgerTypeOK
  <2>1. cash = 0 /\ reserved = 0
    BY DEF Init, LedgerInit
  <2> QED BY <2>1, LedgerAssumption DEF LedgerTypeOK
<1>4. claims \in [Claims -> Claim]
  <2>1. claims = [c \in Claims |-> NoClaim]
    BY DEF Init
  <2>2. NoClaim \in Claim
    BY DEF NoClaim, Claim, ClaimStatus, ClaimType
  <2> QED BY <2>1, <2>2
<1>5. /\ disputeWindow \in DISPUTE_WINDOW_FLOOR..DISPUTE_WINDOW_CEILING
      /\ anomalyThresholdBps \in Nat
  <2>1. /\ disputeWindow = DEFAULT_DISPUTE_WINDOW
        /\ anomalyThresholdBps = DEFAULT_ANOMALY_THRESHOLD_BPS
    BY DEF Init
  <2> QED BY <2>1, ClaimAssumption
<1>6. /\ assessments \in [Claims -> Scores \cup {NoAssessment}]
      /\ receipts \in [Claims -> {"none", "live", "exercised"}]
  BY DEF Init
<1> QED BY <1>1, <1>2, <1>3, <1>4, <1>5, <1>6 DEF ClaimTypeOK

LEMMA ClaimStepTypes ==
    ASSUME ClaimTypeOK, ClaimStep
    PROVE  ClaimTypeOK'
<1> USE DEF ClaimTypeOK, PortfolioTypeOK, BlockTimes
<1>1. PICK c \in Claims :
        \/ \E f \in Portfolios, amount \in ClaimAmounts, type \in ClaimType :
              SubmitClaim(c, f, amount, type)
        \/ \E score \in Scores : PublishAssessment(c, score)
        \/ AttachAssessment(c)
        \/ DisputeClaim(c)
        \/ FreezeClaim(c)
        \/ UnfreezeClaim(c)
        \/ \E uphold \in BOOLEAN : ResolveDispute(c, uphold)
        \/ \E amount \in ClaimAmounts : ApproveClaim(c, amount)
        \/ RejectClaim(c)
        \/ ExecuteClaim(c)
  BY DEF ClaimStep
<1>2. \A amount \in ClaimAmounts : amount \in Nat \ {0}
  BY ClaimAssumption
<1>3. claims[c] \in Claim
  OBVIOUS
<1>4. ASSUME NEW f \in Portfolios, NEW amount \in ClaimAmounts,
             NEW type \in ClaimType, SubmitClaim(c, f, amount, type)
      PROVE  ClaimTypeOK'
  <2>1. blockTime \in Nat /\ blockTime + disputeWindow \in Nat
    BY ClockNat, ClaimAssumption
  <2>2. [status |-> "SUBMITTED", portfolio |-> f, requestedAmount |-> amount,
         approvedAmount |-> 0, claimType |-> type, submittedAt |-> blockTime,
         challengeDeadline |-> blockTime + disputeWindow, frozen |-> FALSE] \in Claim
    BY <1>2, <2>1 DEF Claim, ClaimStatus
  <2> QED BY <1>4, <2>2 DEF SubmitClaim, LedgerTypeOK
<1>5. ASSUME NEW score \in Scores, PublishAssessment(c, score)
      PROVE  ClaimTypeOK'
  BY <1>5 DEF PublishAssessment, LedgerTypeOK
<1>6. ASSUME NEW from \in SUBSET ClaimStatus, NEW new \in Claim,
             ChangeClaim(c, from, new), Untouched
      PROVE  ClaimTypeOK'
  BY <1>6 DEF ChangeClaim, Untouched, LedgerTypeOK
<1>7. CASE AttachAssessment(c)
  <2> DEFINE new == [claims[c] EXCEPT !.status = "ASSESSED",
                                      !.frozen = @ \/ IsAnomalous(c)]
  <2>1. new \in Claim
    BY <1>3 DEF Claim, ClaimStatus
  <2> HIDE DEF new
  <2>2. {"SUBMITTED"} \subseteq ClaimStatus
    BY DEF ClaimStatus
  <2>3. ChangeClaim(c, {"SUBMITTED"}, new) /\ Untouched
    BY <1>7 DEF AttachAssessment, new
  <2> QED BY <1>6, <2>1, <2>2, <2>3
<1>8. CASE DisputeClaim(c)
  BY <1>6, <1>8, ClaimRecordTypes DEF DisputeClaim, ClaimStatus
<1>9. CASE FreezeClaim(c) \/ UnfreezeClaim(c)
  BY <1>6, <1>9, ClaimRecordTypes DEF FreezeClaim, UnfreezeClaim
<1>10. ASSUME NEW uphold \in BOOLEAN, ResolveDispute(c, uphold)
       PROVE  ClaimTypeOK'
  <2>1. "REJECTED" \in ClaimStatus /\ "ASSESSED" \in ClaimStatus
        /\ {"DISPUTED"} \subseteq ClaimStatus
    BY DEF ClaimStatus
  <2> QED BY <1>6, <1>10, <2>1, ClaimRecordTypes DEF ResolveDispute
<1>11. ASSUME NEW amount \in ClaimAmounts, ApproveClaim(c, amount)
       PROVE  ClaimTypeOK'
  <2>1. LedgerTypeOK'
    BY <1>2, <1>11, LedgerStepTypes DEF ApproveClaim
  <2>2. [claims[c] EXCEPT !.status = "APPROVED", !.approvedAmount = amount] \in Claim
    BY <1>2, ClaimRecordTypes DEF ClaimStatus
  <2> QED BY <1>11, <2>1, <2>2 DEF ApproveClaim, ChangeClaim
<1>12. CASE RejectClaim(c)
  <2>1. CASE RejectPending(c)
    BY <1>6, <2>1, ClaimRecordTypes DEF RejectPending, ClaimStatus
  <2>2. CASE RejectApproved(c)
    <3>1. LedgerTypeOK'
      <4>1. /\ claims[c].approvedAmount \in Nat
            /\ reserved \in 0..MaxCash /\ cash \in 0..MaxCash /\ MaxCash \in Nat
        BY <1>3, LedgerAssumption DEF Claim, LedgerTypeOK
      <4> QED BY <2>2, <4>1 DEF RejectApproved, ReleaseReserve, LedgerTypeOK
    <3>2. [claims[c] EXCEPT !.status = "REJECTED", !.approvedAmount = 0] \in Claim
      BY ClaimRecordTypes DEF ClaimStatus
    <3> QED BY <2>2, <3>1, <3>2 DEF RejectApproved, ChangeClaim
  <2> QED BY <1>12, <2>1, <2>2 DEF RejectClaim
<1>13. CASE ExecuteClaim(c)
  <2>1. LedgerTypeOK'
    <3>1. /\ claims[c].approvedAmount \in Nat
          /\ reserved \in 0..MaxCash /\ cash \in 0..MaxCash /\ MaxCash \in Nat
      BY <1>3, LedgerAssumption DEF Claim, LedgerTypeOK
    <3> QED BY <1>13, <3>1 DEF ExecuteClaim, PayFromReserve, LedgerTypeOK
  <2>2. [claims[c] EXCEPT !.status = "PAID"] \in Claim
    BY ClaimRecordTypes DEF ClaimStatus
  <2> QED BY <1>13, <2>1, <2>2 DEF ExecuteClaim, ChangeClaim
<1> QED BY <1>1, <1>4, <1>5, <1>7, <1>8, <1>9, <1>10, <1>11, <1>12, <1>13

LEMMA NextTypes == ClaimTypeOK /\ [Next]_vars => ClaimTypeOK'
<1> SUFFICES ASSUME ClaimTypeOK, [Next]_vars PROVE ClaimTypeOK'
  OBVIOUS
<1> USE DEF ClaimTypeOK, PortfolioTypeOK, LedgerTypeOK, BlockTimes
<1>1. CASE ClaimStep
  BY <1>1, ClaimStepTypes
<1>2. CASE OwnerStep
  <2>1. \A threshold \in Thresholds : threshold \in Nat
    BY ClaimAssumption
  <2> QED BY <1>2, <2>1 DEF OwnerStep, SetDisputeWindow, SetAnomalyThreshold
<1>3. CASE Tick /\ UNCHANGED <<portfolioVars, ledger, claimVars, assessorVars,
                               receipts>>
  <2>1. blockTime' \in BlockTimes
    BY <1>3, MaxBlockTimeAssumption DEF Tick
  <2> QED BY <1>3, <2>1
<1>4. CASE PortfolioNext /\ UNCHANGED <<blockTime, ledger, claimVars, assessorVars,
                                        receipts>>
  <2>1. PortfolioTypeOK'
    BY <1>4
    DEF PortfolioStatus, PortfolioNext, SubmitPortfolio, StartReview,
        ApprovePortfolio, RejectPortfolio, ActivatePortfolio, PausePortfolio,
        UnpausePortfolio, MarkExpired, MovePortfolio
  <2> QED BY <1>4, <2>1
<1>5. CASE CashStep /\ UNCHANGED <<blockTime, portfolioVars, claimVars, assessorVars,
                                   receipts>>
  <2>1. LedgerTypeOK'
    BY <1>5, LedgerStepTypes, LedgerAssumption DEF CashStep
  <2> QED BY <1>5, <2>1
<1>6. CASE UNCHANGED vars
  BY <1>6
<1> QED BY <1>1, <1>2, <1>3, <1>4, <1>5, <1>6 DEF Next, WorldStep

\* Every record, receipt and amount of the claim path has its type in every
\* reachable state; in particular the vault's cash and reserves stay within what
\* they may be, whatever the order of approvals, payouts and LP exits.
THEOREM ClaimTypesHold == Spec => []ClaimTypeOK
BY InitTypes, NextTypes, PTL DEF Spec

-----------------------------------------------------------------------------
(***************************************************************************)
(* The challenge window.  AlwaysChallengeable is not inductive by itself:  *)
(* what an approval compares with is the deadline stored at submission, so *)
(* the invariant must remember that no deadline was ever stored closer     *)
(* than the floor.                                                         *)
(***************************************************************************)
WindowsKept ==
    \A c \in Claims :
        claims[c].status # "NONE" =>
            claims[c].challengeDeadline >= claims[c].submittedAt + DISPUTE_WINDOW_FLOOR

ClaimInv ==
    /\ ClaimTypeOK
    /\ WindowsKept
    /\ AlwaysChallengeable
    /\ DisputesStayFrozen
    /\ ReceiptsTrackPayouts

\* What the invariant says of one claim, given the record and the receipt of it
\* and the time.
ClaimGood(r, receipt, now) ==
    /\ r.status # "NONE" =>
          r.challengeDeadline >= r.submittedAt + DISPUTE_WINDOW_FLOOR
    /\ r.claimType = "NON_PARAMETRIC" /\ r.status \in {"APPROVED", "PAID"} =>
          now > r.submittedAt + DISPUTE_WINDOW_FLOOR
    /\ r.status = "DISPUTED" => r.frozen
    /\ receipt = "exercised" <=> r.status = "PAID"
    /\ r.status = "APPROVED" => receipt = "live"

LEMMA ClaimInvByClaim ==
    ClaimInv <=> /\ ClaimTypeOK
                 /\ \A c \in Claims : ClaimGood(claims[c], receipts[c], blockTime)
BY DEF ClaimInv, WindowsKept, AlwaysChallengeable, DisputesStayFrozen,
       ReceiptsTrackPayouts, ClaimGood

\* A step on one claim keeps the invariant if that claim's new record keeps it.
LEMMA OneClaimMoves ==
    ASSUME ClaimInv, ClaimTypeOK', NEW c \in Claims, NEW r, NEW receipt,
           claims' = [claims EXCEPT ![c] = r],
           receipts' = [receipts EXCEPT ![c] = receipt],
           blockTime' = blockTime,
           ClaimGood(r, receipt, blockTime)
    PROVE  ClaimInv'
<1>1. \A d \in Claims : ClaimGood(claims[d], receipts[d], blockTime)
  BY ClaimInvByClaim
<1>2. claims \in [Claims -> Claim] /\ DOMAIN receipts = Claims
  BY DEF ClaimInv, ClaimTypeOK
<1>3. \A d \in Claims : d # c => claims'[d] = claims[d] /\ receipts'[d] = receipts[d]
  BY <1>2
<1>4. claims'[c] = r /\ receipts'[c] = receipt
  BY <1>2
<1>5. ASSUME NEW d \in Claims
      PROVE  ClaimGood(claims'[d], receipts'[d], blockTime')
  BY <1>1, <1>3, <1>4
<1> QED
  BY <1>5
  DEF ClaimInv, WindowsKept, AlwaysChallengeable, DisputesStayFrozen,
      ReceiptsTrackPayouts, ClaimGood

LEMMA ReceiptUntouched ==
    ASSUME ClaimTypeOK, NEW c \in Claims, UNCHANGED receipts
    PROVE  receipts' = [receipts EXCEPT ![c] = receipts[c]]
BY DEF ClaimTypeOK

LEMMA ClaimInvInit == Init => ClaimInv
<1> SUFFICES ASSUME Init PROVE ClaimInv
  OBVIOUS
<1>1. ASSUME NEW c \in Claims PROVE claims[c] = NoClaim /\ receipts[c] = "none"
  BY DEF Init
<1> QED
  BY <1>1, InitTypes, ClaimInvByClaim DEF ClaimGood, NoClaim

LEMMA ClaimInvClaimStep ==
    ASSUME ClaimInv, ClaimStep, ClaimTypeOK'
    PROVE  ClaimInv'
<1>1. PICK c \in Claims :
        \/ \E f \in Portfolios, amount \in ClaimAmounts, type \in ClaimType :
              SubmitClaim(c, f, amount, type)
        \/ \E score \in Scores : PublishAssessment(c, score)
        \/ AttachAssessment(c)
        \/ DisputeClaim(c)
        \/ FreezeClaim(c)
        \/ UnfreezeClaim(c)
        \/ \E uphold \in BOOLEAN : ResolveDispute(c, uphold)
        \/ \E amount \in ClaimAmounts : ApproveClaim(c, amount)
        \/ RejectClaim(c)
        \/ ExecuteClaim(c)
  BY DEF ClaimStep
<1>2. /\ ClaimTypeOK
      /\ ClaimGood(claims[c], receipts[c], blockTime)
  BY ClaimInvByClaim
<1>3. claims[c] \in Claim /\ receipts[c] \in {"none", "live", "exercised"}
  BY <1>2 DEF ClaimTypeOK
<1>4. /\ blockTime \in Nat /\ disputeWindow \in Nat
      /\ DISPUTE_WINDOW_FLOOR \in Nat /\ disputeWindow >= DISPUTE_WINDOW_FLOOR
      /\ claims[c].submittedAt \in Nat /\ claims[c].challengeDeadline \in Nat
  BY <1>2, <1>3, ClockNat, ClaimAssumption DEF ClaimTypeOK, Claim
<1>5. ASSUME NEW f \in Portfolios, NEW amount \in ClaimAmounts,
             NEW type \in ClaimType, SubmitClaim(c, f, amount, type)
      PROVE  ClaimInv'
  <2> DEFINE r == [status |-> "SUBMITTED", portfolio |-> f, requestedAmount |-> amount,
                   approvedAmount |-> 0, claimType |-> type, submittedAt |-> blockTime,
                   challengeDeadline |-> blockTime + disputeWindow, frozen |-> FALSE]
  <2>1. ClaimGood(r, receipts[c], blockTime)
    BY <1>2, <1>3, <1>4, <1>5 DEF ClaimGood, SubmitClaim
  <2>2. claims' = [claims EXCEPT ![c] = r] /\ blockTime' = blockTime
    BY <1>5 DEF SubmitClaim
  <2>3. receipts' = [receipts EXCEPT ![c] = receipts[c]]
    BY <1>2, <1>5, ReceiptUntouched DEF SubmitClaim
  <2> HIDE DEF r
  <2> QED BY <2>1, <2>2, <2>3, OneClaimMoves
<1>6. ASSUME NEW score \in Scores, PublishAssessment(c, score)
      PROVE  ClaimInv'
  BY <1>6
  DEF PublishAssessment, ClaimInv, WindowsKept, AlwaysChallengeable,
      DisputesStayFrozen, ReceiptsTrackPayouts
<1>7. ASSUME NEW from, NEW r, ChangeClaim(c, from, r), Untouched,
             ClaimGood(r, receipts[c], blockTime)
      PROVE  ClaimInv'
  BY <1>2, <1>7, OneClaimMoves, ReceiptUntouched DEF ChangeClaim, Untouched
<1>8. CASE AttachAssessment(c)
  <2> DEFINE r == [claims[c] EXCEPT !.status = "ASSESSED",
                                    !.frozen = @ \/ IsAnomalous(c)]
  <2>1. ClaimGood(r, receipts[c], blockTime)
    BY <1>2, <1>3, <1>8 DEF ClaimGood, Claim, AttachAssessment, ChangeClaim
  <2> HIDE DEF r
  <2>2. ChangeClaim(c, {"SUBMITTED"}, r) /\ Untouched
    BY <1>8 DEF AttachAssessment, r
  <2> QED BY <1>7, <2>1, <2>2
<1>9. CASE DisputeClaim(c)
  <2> DEFINE r == [claims[c] EXCEPT !.status = "DISPUTED", !.frozen = TRUE]
  <2>1. ClaimGood(r, receipts[c], blockTime)
    BY <1>2, <1>3, <1>9 DEF ClaimGood, Claim, DisputeClaim, ChangeClaim
  <2> QED BY <1>7, <1>9, <2>1 DEF DisputeClaim
<1>10. CASE FreezeClaim(c)
  <2> DEFINE r == [claims[c] EXCEPT !.frozen = TRUE]
  <2>1. ClaimGood(r, receipts[c], blockTime)
    BY <1>2, <1>3, <1>10 DEF ClaimGood, Claim, FreezeClaim, ChangeClaim
  <2> QED BY <1>7, <1>10, <2>1 DEF FreezeClaim
<1>11. CASE UnfreezeClaim(c)
  <2> DEFINE r == [claims[c] EXCEPT !.frozen = FALSE]
  <2>1. ClaimGood(r, receipts[c], blockTime)
    BY <1>2, <1>3, <1>11 DEF ClaimGood, Claim, UnfreezeClaim, ChangeClaim
  <2> QED BY <1>7, <1>11, <2>1 DEF UnfreezeClaim
<1>12. ASSUME NEW uphold \in BOOLEAN, ResolveDispute(c, uphold)
       PROVE  ClaimInv'
  <2> DEFINE r == IF uphold THEN [claims[c] EXCEPT !.status = "REJECTED"]
                            ELSE [claims[c] EXCEPT !.status = "ASSESSED",
                                                   !.frozen = FALSE]
  <2>1. ClaimGood(r, receipts[c], blockTime)
    BY <1>2, <1>3, <1>12 DEF ClaimGood, Claim, ResolveDispute, ChangeClaim
  <2> QED BY <1>7, <1>12, <2>1 DEF ResolveDispute
<1>13. ASSUME NEW amount \in ClaimAmounts, ApproveClaim(c, amount)
       PROVE  ClaimInv'
  <2> DEFINE r == [claims[c] EXCEPT !.status = "APPROVED", !.approvedAmount = amount]
  <2>1. ClaimGood(r, "live", blockTime)
    BY <1>2, <1>3, <1>4, <1>13
    DEF ClaimGood, Claim, ApproveClaim, Approvable, ChangeClaim
  <2> QED BY <1>2, <1>13, <2>1, OneClaimMoves DEF ApproveClaim, ChangeClaim
<1>14. CASE RejectPending(c)
  <2> DEFINE r == [claims[c] EXCEPT !.status = "REJECTED"]
  <2>1. ClaimGood(r, receipts[c], blockTime)
    BY <1>2, <1>3, <1>14 DEF ClaimGood, Claim, RejectPending, ChangeClaim
  <2> QED BY <1>7, <1>14, <2>1 DEF RejectPending
<1>15. CASE RejectApproved(c)
  <2> DEFINE r == [claims[c] EXCEPT !.status = "REJECTED", !.approvedAmount = 0]
  <2>1. ClaimGood(r, receipts[c], blockTime)
    BY <1>2, <1>3, <1>15 DEF ClaimGood, Claim, RejectApproved, ChangeClaim
  <2> QED BY <1>2, <1>15, <2>1, OneClaimMoves, ReceiptUntouched
          DEF RejectApproved, ChangeClaim
<1>16. CASE ExecuteClaim(c)
  <2> DEFINE r == [claims[c] EXCEPT !.status = "PAID"]
  <2>1. ClaimGood(r, "exercised", blockTime)
    BY <1>2, <1>3, <1>16 DEF ClaimGood, Claim, ExecuteClaim, ChangeClaim
  <2> QED BY <1>2, <1>16, <2>1, OneClaimMoves DEF ExecuteClaim, ChangeClaim
<1> QED
  BY <1>1, <1>5, <1>6, <1>8, <1>9, <1>10, <1>11, <1>12, <1>13, <1>14, <1>15, <1>16
  DEF RejectClaim

LEMMA ClaimInvNext == ClaimInv /\ [Next]_vars => ClaimInv'
<1> SUFFICES ASSUME ClaimInv, [Next]_vars PROVE ClaimInv'
  OBVIOUS
<1>1. ClaimTypeOK /\ ClaimTypeOK'
  BY NextTypes DEF ClaimInv
<1>2. CASE ClaimStep
  BY <1>1, <1>2, ClaimInvClaimStep
<1>3. ASSUME UNCHANGED <<claims, receipts, blockTime>> PROVE ClaimInv'
  BY <1>1, <1>3
  DEF ClaimInv, WindowsKept, AlwaysChallengeable, DisputesStayFrozen,
      ReceiptsTrackPayouts
<1>4. CASE Tick /\ UNCHANGED <<portfolioVars, ledger, claimVars, assessorVars,
                               receipts>>
  <2>1. blockTime \in Nat /\ blockTime' = blockTime + 1
    BY <1>1, <1>4, ClockNat DEF Tick
  <2>2. \A c \in Claims : claims[c].submittedAt \in Nat
    BY <1>1 DEF ClaimTypeOK, Claim
  <2>3. DISPUTE_WINDOW_FLOOR \in Nat
    BY ClaimAssumption
  <2>4. AlwaysChallengeable'
    BY <1>4, <2>1, <2>2, <2>3 DEF ClaimInv, AlwaysChallengeable
  <2> QED BY <1>1, <1>4, <2>4
          DEF ClaimInv, WindowsKept, DisputesStayFrozen, ReceiptsTrackPayouts
<1>5. CASE OwnerStep
  BY <1>3, <1>5 DEF OwnerStep, SetDisputeWindow, SetAnomalyThreshold
<1>6. CASE WorldStep
  BY <1>3, <1>4, <1>6 DEF WorldStep
<1>7. CASE UNCHANGED vars
  BY <1>3, <1>7
<1> QED BY <1>2, <1>5, <1>6, <1>7 DEF Next

THEOREM ClaimInvHolds == Spec => []ClaimInv
BY ClaimInvInit, ClaimInvNext, PTL DEF Spec

\* "Non-parametric claims always remain challengeable": whatever the committee, the
\* Sentinel, the AI feed and the owner do, and whatever the window is moved to, no
\* such claim is approved or paid within the floor after its submission.
THEOREM ClaimsAlwaysChallengeable == Spec => []AlwaysChallengeable
BY ClaimInvHolds, PTL DEF ClaimInv

\* A receipt is exercised exactly when its claim is paid, and every approved claim
\* holds one that executeClaim() can still burn.
THEOREM ReceiptsFollowPayouts == Spec => []ReceiptsTrackPayouts
BY ClaimInvHolds, PTL DEF ClaimInv

\* A dispute keeps its claim frozen until the committee has resolved it.
THEOREM DisputesFreeze == Spec => []DisputesStayFrozen
BY ClaimInvHolds, PTL DEF ClaimInv
-----------------------------------------------------------------------------
(***************************************************************************)
(* Payouts.  Of all steps, only executeClaim() takes cash and reserve at   *)
(* once; what it takes and from which claim is then its own doing.         *)
(***************************************************************************)
Pays(c) ==
    /\ claims[c].status = "APPROVED"
    /\ ~claims[c].frozen
    /\ claims'[c].status = "PAID"
    /\ cash - cash' = claims[c].approvedAmount
    /\ reserved - reserved' = claims[c].approvedAmount

LEMMA LedgerNumbers ==
    ClaimTypeOK => cash \in Nat /\ reserved \in Nat
<1>1. MaxCash \in Nat
  BY LedgerAssumption
<1> QED BY <1>1 DEF ClaimTypeOK, LedgerTypeOK

LEMMA ExecutionPays ==
    ASSUME ClaimTypeOK, NEW c \in Claims, ExecuteClaim(c)
    PROVE  Pays(c)
<1>1. claims[c] \in Claim /\ claims[c].approvedAmount \in Nat
  BY DEF ClaimTypeOK, Claim
<1>2. cash \in Nat /\ reserved \in Nat
  BY LedgerNumbers
<1>3. claims'[c] = [claims[c] EXCEPT !.status = "PAID"]
  BY DEF ExecuteClaim, ChangeClaim, ClaimTypeOK
<1>4. claims'[c].status = "PAID"
  BY <1>1, <1>3 DEF Claim
<1>5. /\ cash' = cash - claims[c].approvedAmount
      /\ reserved' = reserved - claims[c].approvedAmount
  BY DEF ExecuteClaim, PayFromReserve
<1>6. claims[c].status = "APPROVED" /\ ~claims[c].frozen
  BY DEF ExecuteClaim, ChangeClaim
<1> QED BY <1>1, <1>2, <1>4, <1>5, <1>6 DEF Pays

LEMMA OnlyExecutionPays ==
    ASSUME ClaimTypeOK, [Next]_vars, cash' < cash, reserved' < reserved
    PROVE  \E c \in Claims : ExecuteClaim(c)
<1>0. cash \in Nat /\ reserved \in Nat
  BY LedgerNumbers
<1>1. cash' # cash /\ reserved' # reserved
  BY <1>0
<1>2. ~OwnerStep /\ ~UNCHANGED vars
  BY <1>1 DEF OwnerStep, SetDisputeWindow, SetAnomalyThreshold
<1>3. ~WorldStep
  BY <1>1 DEF WorldStep, CashStep, CashIn, LPExit, FeesOut
<1>4. CASE ClaimStep
  BY <1>1, <1>4
  DEF ClaimStep, SubmitClaim, PublishAssessment, AttachAssessment, DisputeClaim,
      FreezeClaim, UnfreezeClaim, ResolveDispute, ApproveClaim, RejectClaim,
      RejectApproved, RejectPending, TakeReserve, ReleaseReserve, Untouched
<1> QED BY <1>2, <1>3, <1>4 DEF Next

\* Cash reserved for claims leaves the vault only with the payout of one approved
\* claim that nobody has frozen, in exactly the amount the committee approved.
THEOREM PayoutsFollowApprovals == Spec => PayoutsAreApprovedClaims
<1>1. ASSUME ClaimTypeOK, [Next]_vars
      PROVE  (cash' < cash /\ reserved' < reserved) => \E c \in Claims : Pays(c)
  BY <1>1, OnlyExecutionPays, ExecutionPays
<1>2. ClaimTypeOK /\ [Next]_vars =>
        [ (cash' < cash /\ reserved' < reserved) =>
            \E c \in Claims :
               /\ claims[c].status = "APPROVED"
               /\ ~claims[c].frozen
               /\ claims'[c].status = "PAID"
               /\ cash - cash' = claims[c].approvedAmount
               /\ reserved - reserved' = claims[c].approvedAmount ]_vars
  BY <1>1 DEF Pays
<1> QED BY <1>2, ClaimTypesHold, PTL DEF Spec, PayoutsAreApprovedClaims

-----------------------------------------------------------------------------
(***************************************************************************)
(* Reserves.  The approved total is a sum over the claims, and every call  *)
(* changes one claim: the sum moves by what that claim adds to it.         *)
(***************************************************************************)
Standing(r) == IF r.status = "APPROVED" THEN r.approvedAmount ELSE 0
AllStanding == [c \in Claims |-> Standing(claims[c])]

LEMMA StandingTotal == ApprovedTotal = SumFunction(AllStanding)
BY DEF ApprovedTotal, AllStanding, Standing, Sum

LEMMA StandingNat == ClaimTypeOK => AllStanding \in [Claims -> Nat] /\ IsFiniteSet(Claims)
<1> SUFFICES ASSUME ClaimTypeOK, NEW c \in Claims PROVE Standing(claims[c]) \in Nat
  BY ClaimAssumption DEF AllStanding
<1>1. claims[c] \in Claim
  BY DEF ClaimTypeOK
<1> QED BY <1>1 DEF Standing, Claim

LEMMA StandingNatNext == ClaimTypeOK' => (AllStanding \in [Claims -> Nat])'
<1>1. ClaimTypeOK => AllStanding \in [Claims -> Nat]
  BY StandingNat
<1> QED BY <1>1, PTL

\* Claim and reserve move by the same amount.
LEMMA ReserveFollowsClaim ==
    ASSUME ClaimTypeOK, ClaimTypeOK', ReservesMatchClaims, NEW c \in Claims, NEW r,
           claims' = [claims EXCEPT ![c] = r],
           reserved' = reserved - Standing(claims[c]) + Standing(r)
    PROVE  ReservesMatchClaims'
<1>1. claims \in [Claims -> Claim]
  BY DEF ClaimTypeOK
<1>2. /\ AllStanding \in [Claims -> Nat] /\ AllStanding' \in [Claims -> Nat]
      /\ IsFiniteSet(Claims)
  BY StandingNat, StandingNatNext
<1>3. \A d \in Claims \ {c} : AllStanding'[d] = AllStanding[d]
  BY <1>1 DEF AllStanding
<1>4. AllStanding[c] = Standing(claims[c]) /\ AllStanding'[c] = Standing(r)
  BY <1>1 DEF AllStanding
<1>5. SumFunction(AllStanding') = SumFunction(AllStanding) - AllStanding[c] + AllStanding'[c]
  BY <1>2, <1>3, SumChanges
<1>6. reserved' = SumFunction(AllStanding')
  BY <1>4, <1>5, StandingTotal DEF ReservesMatchClaims
<1> QED BY <1>6 DEF ReservesMatchClaims, ApprovedTotal, AllStanding, Standing, Sum

\* A call that leaves the ledger alone leaves its claim's standing as it is.
LEMMA LedgerUntouched ==
    ASSUME ClaimTypeOK, ClaimTypeOK', ReservesMatchClaims, NEW c \in Claims, NEW r,
           claims' = [claims EXCEPT ![c] = r], UNCHANGED reserved,
           Standing(r) = Standing(claims[c])
    PROVE  ReservesMatchClaims'
<1>1. Standing(claims[c]) \in Nat /\ reserved \in Nat
  BY StandingNat, LedgerNumbers DEF AllStanding
<1>2. reserved' = reserved - Standing(claims[c]) + Standing(r)
  BY <1>1
<1> QED BY <1>2, ReserveFollowsClaim

LEMMA ReserveStep ==
    ASSUME ClaimTypeOK, ClaimTypeOK', ReservesMatchClaims, [Next]_vars
    PROVE  ReservesMatchClaims'
<1>1. CASE UNCHANGED <<claims, reserved>>
  BY <1>1 DEF ReservesMatchClaims, ApprovedTotal, Sum
<1>2. CASE ClaimStep
  <2>1. PICK c \in Claims :
          \/ \E f \in Portfolios, amount \in ClaimAmounts, type \in ClaimType :
                SubmitClaim(c, f, amount, type)
          \/ \E score \in Scores : PublishAssessment(c, score)
          \/ AttachAssessment(c)
          \/ DisputeClaim(c)
          \/ FreezeClaim(c)
          \/ UnfreezeClaim(c)
          \/ \E uphold \in BOOLEAN : ResolveDispute(c, uphold)
          \/ \E amount \in ClaimAmounts : ApproveClaim(c, amount)
          \/ RejectClaim(c)
          \/ ExecuteClaim(c)
    BY <1>2 DEF ClaimStep
  <2>2. /\ claims[c] \in Claim /\ reserved \in Nat
        /\ Standing(claims[c]) \in Nat
    BY StandingNat, LedgerNumbers DEF ClaimTypeOK, AllStanding
  <2>3. ASSUME NEW from, NEW r, ChangeClaim(c, from, r), UNCHANGED reserved,
               Standing(r) = Standing(claims[c])
        PROVE  ReservesMatchClaims'
    BY <2>3, LedgerUntouched DEF ChangeClaim
  <2>4. ASSUME NEW f \in Portfolios, NEW amount \in ClaimAmounts,
               NEW type \in ClaimType, SubmitClaim(c, f, amount, type)
        PROVE  ReservesMatchClaims'
    <3> DEFINE r == [status |-> "SUBMITTED", portfolio |-> f, requestedAmount |-> amount,
                     approvedAmount |-> 0, claimType |-> type, submittedAt |-> blockTime,
                     challengeDeadline |-> blockTime + disputeWindow, frozen |-> FALSE]
    <3>1. Standing(r) = 0 /\ Standing(claims[c]) = 0
      BY <2>4 DEF Standing, SubmitClaim
    <3>2. claims' = [claims EXCEPT ![c] = r] /\ UNCHANGED reserved
      BY <2>4 DEF SubmitClaim
    <3> HIDE DEF r
    <3> QED BY <3>1, <3>2, LedgerUntouched
  <2>5. CASE \E score \in Scores : PublishAssessment(c, score)
    BY <1>1, <2>5 DEF PublishAssessment
  <2>6. CASE AttachAssessment(c)
    <3> DEFINE r == [claims[c] EXCEPT !.status = "ASSESSED", !.frozen = @ \/ IsAnomalous(c)]
    <3>1. Standing(r) = 0 /\ Standing(claims[c]) = 0
      BY <2>2, <2>6 DEF Standing, AttachAssessment, ChangeClaim, Claim
    <3> HIDE DEF r
    <3>2. ChangeClaim(c, {"SUBMITTED"}, r) /\ UNCHANGED reserved
      BY <2>6 DEF AttachAssessment, Untouched, r
    <3> QED BY <2>3, <3>1, <3>2
  <2>7. CASE DisputeClaim(c)
    <3>1. Standing([claims[c] EXCEPT !.status = "DISPUTED", !.frozen = TRUE]) = 0
          /\ Standing(claims[c]) = 0
      BY <2>2, <2>7 DEF Standing, DisputeClaim, ChangeClaim, Claim
    <3> QED BY <2>3, <2>7, <3>1 DEF DisputeClaim, Untouched
  <2>8. CASE FreezeClaim(c) \/ UnfreezeClaim(c)
    <3>1. \A value \in BOOLEAN :
            Standing([claims[c] EXCEPT !.frozen = value]) = Standing(claims[c])
      BY <2>2 DEF Standing, Claim
    <3> QED BY <2>3, <2>8, <3>1 DEF FreezeClaim, UnfreezeClaim, Untouched
  <2>9. ASSUME NEW uphold \in BOOLEAN, ResolveDispute(c, uphold)
        PROVE  ReservesMatchClaims'
    <3> DEFINE r == IF uphold THEN [claims[c] EXCEPT !.status = "REJECTED"]
                    ELSE [claims[c] EXCEPT !.status = "ASSESSED", !.frozen = FALSE]
    <3>1. Standing(r) = 0 /\ Standing(claims[c]) = 0
      BY <2>2, <2>9 DEF Standing, ResolveDispute, ChangeClaim, Claim
    <3> HIDE DEF r
    <3>2. ChangeClaim(c, {"DISPUTED"}, r) /\ UNCHANGED reserved
      BY <2>9 DEF ResolveDispute, Untouched, r
    <3> QED BY <2>3, <3>1, <3>2
  <2>10. ASSUME NEW amount \in ClaimAmounts, ApproveClaim(c, amount)
         PROVE  ReservesMatchClaims'
    <3> DEFINE r == [claims[c] EXCEPT !.status = "APPROVED", !.approvedAmount = amount]
    <3>1. Standing(r) = amount /\ Standing(claims[c]) = 0 /\ amount \in Nat
      BY <2>2, <2>10, ClaimAssumption DEF Standing, ApproveClaim, ChangeClaim, Claim
    <3>2. claims' = [claims EXCEPT ![c] = r] /\ reserved' = reserved + amount
      BY <2>10 DEF ApproveClaim, ChangeClaim, TakeReserve
    <3> HIDE DEF r
    <3>3. reserved' = reserved - Standing(claims[c]) + Standing(r)
      BY <2>2, <3>1, <3>2
    <3> QED BY <3>2, <3>3, ReserveFollowsClaim
  <2>11. CASE RejectPending(c)
    <3>1. Standing([claims[c] EXCEPT !.status = "REJECTED"]) = 0 /\ Standing(claims[c]) = 0
      BY <2>2, <2>11 DEF Standing, RejectPending, ChangeClaim, Claim
    <3> QED BY <2>3, <2>11, <3>1 DEF RejectPending, Untouched
  <2>12. CASE RejectApproved(c) \/ ExecuteClaim(c)
    <3>1. PICK r \in {[claims[c] EXCEPT !.status = "REJECTED", !.approvedAmount = 0],
                      [claims[c] EXCEPT !.status = "PAID"]} :
            claims' = [claims EXCEPT ![c] = r]
      BY <2>12 DEF RejectApproved, ExecuteClaim, ChangeClaim
    <3>2. Standing(r) = 0 /\ Standing(claims[c]) = claims[c].approvedAmount
      BY <2>2, <2>12, <3>1 DEF Standing, RejectApproved, ExecuteClaim, ChangeClaim, Claim
    <3>3. reserved' = reserved - claims[c].approvedAmount
      BY <2>12 DEF RejectApproved, ExecuteClaim, ReleaseReserve, PayFromReserve
    <3>4. reserved' = reserved - Standing(claims[c]) + Standing(r)
      BY <2>2, <3>2, <3>3
    <3> QED BY <3>1, <3>4, ReserveFollowsClaim
  <2> QED BY <2>1, <2>4, <2>5, <2>6, <2>7, <2>8, <2>9, <2>10, <2>11, <2>12 DEF RejectClaim
<1>3. CASE OwnerStep
  BY <1>1, <1>3 DEF OwnerStep, SetDisputeWindow, SetAnomalyThreshold
<1>4. CASE WorldStep
  BY <1>1, <1>4 DEF WorldStep, CashStep, CashIn, LPExit, FeesOut
<1>5. CASE UNCHANGED vars
  BY <1>1, <1>5
<1> QED BY <1>2, <1>3, <1>4, <1>5 DEF Next

\* The vault reserves exactly what the committee has approved and not yet paid or
\* rejected, for any number of claims: approvals, rejections and payouts move claim and
\* reserve together, and nothing else moves either.
THEOREM ReservesAlwaysMatch == Spec => []ReservesMatchClaims
<1>1. ASSUME Init PROVE ReservesMatchClaims
  <2>1. AllStanding = [c \in Claims |-> 0]
    BY <1>1 DEF Init, NoClaim, AllStanding, Standing
  <2>2. ApprovedTotal = 0
    BY <2>1, StandingTotal, ClaimAssumption, SumOfZeros
  <2> QED BY <1>1, <2>2 DEF Init, LedgerInit, ReservesMatchClaims
<1>2. Init => ReservesMatchClaims
  BY <1>1
<1>3. ClaimTypeOK /\ ClaimTypeOK' /\ ReservesMatchClaims /\ [Next]_vars => ReservesMatchClaims'
  BY ReserveStep
<1> QED BY <1>2, <1>3, ClaimTypesHold, PTL DEF Spec

-----------------------------------------------------------------------------
(***************************************************************************)
(* Payability.  Without a management fee the ledger stays fully reserved,  *)
(* and what is reserved is what is approved.                               *)
(***************************************************************************)
LEMMA ReservedStep ==
    ASSUME ClaimTypeOK, FullyReserved, [Next]_vars
    PROVE  FullyReserved'
<1> SUFFICES ASSUME ~FeesCharged PROVE reserved' <= cash'
  BY DEF FullyReserved
<1>0. cash \in Nat /\ reserved \in Nat /\ reserved <= cash
  BY LedgerNumbers DEF FullyReserved
<1>1. CASE UNCHANGED ledger
  BY <1>0, <1>1
<1>2. ASSUME NEW amount \in Nat,
             \/ TakeReserve(amount) \/ ReleaseReserve(amount) \/ PayFromReserve(amount)
             \/ CashIn(amount) \/ LPExit(amount) \/ FeesOut(amount)
      PROVE  reserved' <= cash'
  BY <1>0, <1>2 DEF TakeReserve, ReleaseReserve, PayFromReserve, CashIn, LPExit, FeesOut
<1>3. ASSUME NEW c \in Claims
      PROVE  claims[c].approvedAmount \in Nat
  BY DEF ClaimTypeOK, Claim
<1>4. CASE ClaimStep
  <2>1. CASE \E c \in Claims, amount \in ClaimAmounts : ApproveClaim(c, amount)
    BY <1>2, <2>1, ClaimAssumption DEF ApproveClaim
  <2>2. CASE \E c \in Claims : RejectApproved(c)
    BY <1>2, <1>3, <2>2 DEF RejectApproved
  <2>3. CASE \E c \in Claims : ExecuteClaim(c)
    BY <1>2, <1>3, <2>3 DEF ExecuteClaim
  <2>4. \/ \E c \in Claims, amount \in ClaimAmounts : ApproveClaim(c, amount)
        \/ \E c \in Claims : RejectApproved(c)
        \/ \E c \in Claims : ExecuteClaim(c)
        \/ UNCHANGED ledger
    BY <1>4
    DEF ClaimStep, SubmitClaim, PublishAssessment, AttachAssessment, DisputeClaim,
        FreezeClaim, UnfreezeClaim, ResolveDispute, RejectClaim, RejectPending, Untouched
  <2> QED BY <1>1, <2>1, <2>2, <2>3, <2>4
<1>5. CASE OwnerStep
  BY <1>1, <1>5 DEF OwnerStep, SetDisputeWindow, SetAnomalyThreshold
<1>6. CASE WorldStep
  <2>1. CASE CashStep
    <3>1. PICK amount \in 1..MaxCash : CashIn(amount) \/ LPExit(amount) \/ FeesOut(amount)
      BY <2>1 DEF CashStep
    <3>2. amount \in Nat
      BY <3>1, LedgerAssumption
    <3> QED BY <1>2, <3>1, <3>2
  <2>2. CASE UNCHANGED ledger
    BY <1>1, <2>2
  <2> QED BY <1>6, <2>1, <2>2 DEF WorldStep
<1>7. CASE UNCHANGED vars
  BY <1>1, <1>7
<1> QED BY <1>4, <1>5, <1>6, <1>7 DEF Next

LEMMA ReservesCovered == Spec => []FullyReserved
<1>1. Init => FullyReserved
  BY DEF Init, LedgerInit, FullyReserved
<1>2. ClaimTypeOK /\ FullyReserved /\ [Next]_vars => FullyReserved'
  BY ReservedStep
<1> QED BY <1>1, <1>2, ClaimTypesHold, PTL DEF Spec

\* In a vault without a management fee, the cash covers all approved claims together: no
\* exit, approval, rejection or payout leaves one short.
THEOREM ApprovedAlwaysCovered == Spec => []ApprovedClaimsPayable
<1>1. ReservesMatchClaims /\ FullyReserved => ApprovedClaimsPayable
  BY DEF ReservesMatchClaims, FullyReserved, ApprovedClaimsPayable
<1> QED BY <1>1, ReservesAlwaysMatch, ReservesCovered, PTL
=============================================================================
