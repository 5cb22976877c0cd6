---------------------------- MODULE ClaimManager ----------------------------
(***************************************************************************)
(* ClaimManager.sol with the two contracts that exist only for it          *)
(* (AIAssessor.sol, an advisory store, and ClaimReceipt.sol, one soulbound *)
(* receipt per approval), over the portfolio registry and over the ledger  *)
(* VaultReserve the vault implements.                                      *)
(*                                                                         *)
(* The claim path spans four contracts and five independent actors: the    *)
(* cedant, the AI feed, the Sentinel, the Claims Committee and whoever     *)
(* executes.  The actors hold the roles the modifiers demand; their calls  *)
(* interleave freely.                                                      *)
(***************************************************************************)
EXTENDS PortfolioRegistry, VaultReserve, FiniteSets, Functions

CONSTANTS Claims,                    \* claim ids
          ClaimAmounts,              \* the amounts a claim may ask for
          DISPUTE_WINDOW_FLOOR, DISPUTE_WINDOW_CEILING, DEFAULT_DISPUTE_WINDOW,
          Scores,                    \* the anomaly scores the feed may publish
          ANOMALY_THRESHOLD_FLOOR_BPS, DEFAULT_ANOMALY_THRESHOLD_BPS, MAX_BPS,
          Thresholds                 \* the thresholds the owner may set

ASSUME ClaimAssumption ==
    /\ ClaimAmounts \subseteq Nat \ {0}
    /\ DISPUTE_WINDOW_FLOOR \in Nat \ {0}
    /\ DISPUTE_WINDOW_CEILING \in Nat
    /\ DEFAULT_DISPUTE_WINDOW \in DISPUTE_WINDOW_FLOOR..DISPUTE_WINDOW_CEILING
    /\ MAX_BPS \in Nat
    /\ Scores \subseteq 0..MAX_BPS
    /\ Thresholds \subseteq Nat
    /\ ANOMALY_THRESHOLD_FLOOR_BPS \in Nat
    /\ DEFAULT_ANOMALY_THRESHOLD_BPS \in Nat
    /\ IsFiniteSet(Claims)

VARIABLES claims,                    \* claims[c]: the claim's record
          disputeWindow,
          assessments,               \* AIAssessor: the score on file, if any
          anomalyThresholdBps,
          receipts                   \* ClaimReceipt: the receipt of claim c

claimVars    == <<claims, disputeWindow>>
assessorVars == <<assessments, anomalyThresholdBps>>
vars == <<blockTime, portfolioVars, ledger, claimVars, assessorVars, receipts>>

ClaimType   == {"NON_PARAMETRIC", "PARAMETRIC"}
ClaimStatus == {"NONE", "SUBMITTED", "ASSESSED", "DISPUTED",
                "APPROVED", "PAID", "REJECTED"}

NoPortfolio  == "no portfolio"
NoAssessment == -1

Claim == [status            : ClaimStatus,
          portfolio         : Portfolios \cup {NoPortfolio},
          requestedAmount   : Nat,
          approvedAmount    : Nat,
          claimType         : ClaimType,
          submittedAt       : Nat,
          challengeDeadline : Nat,
          frozen            : BOOLEAN]

NoClaim == [status |-> "NONE", portfolio |-> NoPortfolio,
            requestedAmount |-> 0, approvedAmount |-> 0,
            claimType |-> "NON_PARAMETRIC", submittedAt |-> 0,
            challengeDeadline |-> 0, frozen |-> FALSE]

ClaimTypeOK ==
    /\ blockTime \in BlockTimes
    /\ PortfolioTypeOK
    /\ LedgerTypeOK
    /\ claims \in [Claims -> Claim]
    /\ disputeWindow \in DISPUTE_WINDOW_FLOOR..DISPUTE_WINDOW_CEILING
    /\ assessments \in [Claims -> Scores \cup {NoAssessment}]
    /\ anomalyThresholdBps \in Nat
    /\ receipts \in [Claims -> {"none", "live", "exercised"}]

Init ==
    /\ FirstBlock
    /\ PortfolioInit
    /\ LedgerInit
    /\ claims = [c \in Claims |-> NoClaim]
    /\ disputeWindow = DEFAULT_DISPUTE_WINDOW
    /\ assessments = [c \in Claims |-> NoAssessment]
    /\ anomalyThresholdBps = DEFAULT_ANOMALY_THRESHOLD_BPS
    /\ receipts = [c \in Claims |-> "none"]

HasAssessment(c) == assessments[c] # NoAssessment
IsAnomalous(c)   == assessments[c] >= anomalyThresholdBps
Claimable(f)     == pfStatus[f] \in {"ACTIVE", "PAUSED", "EXPIRED"}

-----------------------------------------------------------------------------
\* The cedant of portfolio f submits claim c.
SubmitClaim(c, f, amount, type) ==
    /\ claims[c].status = "NONE"
    /\ Claimable(f)
    /\ amount <= pfTerms[f].coverageLimit
    /\ claims' = [claims EXCEPT ![c] =
                    [status            |-> "SUBMITTED",
                     portfolio         |-> f,
                     requestedAmount   |-> amount,
                     approvedAmount    |-> 0,
                     claimType         |-> type,
                     submittedAt       |-> blockTime,
                     challengeDeadline |-> blockTime + disputeWindow,
                     frozen            |-> FALSE]]
    /\ UNCHANGED <<blockTime, portfolioVars, ledger, disputeWindow,
                   assessorVars, receipts>>

\* Mutant: the floor is not enforced.
SetAnyDisputeWindow(window) ==
    /\ disputeWindow' = window - 1
    /\ UNCHANGED <<blockTime, portfolioVars, ledger, claims, assessorVars,
                   receipts>>

SetDisputeWindow(window) ==
    /\ window \in DISPUTE_WINDOW_FLOOR..DISPUTE_WINDOW_CEILING
    /\ disputeWindow' = window
    /\ UNCHANGED <<blockTime, portfolioVars, ledger, claims, assessorVars,
                   receipts>>

\* The feed may publish for any id, and again over what it published.
PublishAssessment(c, score) ==
    /\ assessments' = [assessments EXCEPT ![c] = score]
    /\ UNCHANGED <<blockTime, portfolioVars, ledger, claimVars,
                   anomalyThresholdBps, receipts>>

SetAnomalyThreshold(threshold) ==
    /\ threshold \in ANOMALY_THRESHOLD_FLOOR_BPS..MAX_BPS
    /\ anomalyThresholdBps' = threshold
    /\ UNCHANGED <<blockTime, portfolioVars, ledger, claimVars, assessments,
                   receipts>>

\* What the calls on one existing claim share: only its record changes.
ChangeClaim(c, from, new) ==
    /\ claims[c].status \in from
    /\ claims' = [claims EXCEPT ![c] = new]
    /\ UNCHANGED <<blockTime, portfolioVars, disputeWindow, assessorVars>>

Untouched == UNCHANGED <<ledger, receipts>>

AttachAssessment(c) ==
    /\ HasAssessment(c)
    /\ ChangeClaim(c, {"SUBMITTED"},
          [claims[c] EXCEPT !.status = "ASSESSED",
                            !.frozen = @ \/ IsAnomalous(c)])
    /\ Untouched

DisputeClaim(c) ==
    /\ ChangeClaim(c, {"SUBMITTED", "ASSESSED"},
          [claims[c] EXCEPT !.status = "DISPUTED", !.frozen = TRUE])
    /\ Untouched

FreezeClaim(c) ==
    /\ ChangeClaim(c, ClaimStatus \ {"NONE", "PAID", "REJECTED"},
          [claims[c] EXCEPT !.frozen = TRUE])
    /\ Untouched

\* Mutant: the status is not checked.
UnfreezeDisputed(c) ==
    /\ ChangeClaim(c, ClaimStatus \ {"NONE"}, [claims[c] EXCEPT !.frozen = FALSE])
    /\ Untouched

UnfreezeClaim(c) ==
    /\ ChangeClaim(c, ClaimStatus \ {"NONE", "DISPUTED"},
          [claims[c] EXCEPT !.frozen = FALSE])
    /\ Untouched

ResolveDispute(c, uphold) ==
    /\ ChangeClaim(c, {"DISPUTED"},
          IF uphold THEN [claims[c] EXCEPT !.status = "REJECTED"]
                    ELSE [claims[c] EXCEPT !.status = "ASSESSED",
                                           !.frozen = FALSE])
    /\ Untouched

-----------------------------------------------------------------------------
\* Mutant: the deadline block itself passes.
ApprovableAtDeadline(c) ==
    /\ ~claims[c].frozen
    /\ \/ claims[c].claimType = "PARAMETRIC"
       \/ /\ claims[c].status = "ASSESSED"
          /\ blockTime >= claims[c].challengeDeadline

\* What approveClaim() asks of the claim beyond its amount.
Approvable(c) ==
    /\ ~claims[c].frozen
    /\ \/ /\ claims[c].claimType = "NON_PARAMETRIC"
          /\ claims[c].status = "ASSESSED"
          /\ blockTime > claims[c].challengeDeadline
       \/ /\ claims[c].claimType = "PARAMETRIC"
          /\ claims[c].status \in {"SUBMITTED", "ASSESSED"}

\* Mutant: no receipt is minted.
ApproveWithoutReceipt(c, amount) ==
    /\ Approvable(c)
    /\ amount <= claims[c].requestedAmount
    /\ ChangeClaim(c, {"SUBMITTED", "ASSESSED"},
          [claims[c] EXCEPT !.status = "APPROVED", !.approvedAmount = amount])
    /\ TakeReserve(amount)
    /\ UNCHANGED receipts

ApproveClaim(c, amount) ==
    /\ Approvable(c)
    /\ amount <= claims[c].requestedAmount
    /\ ChangeClaim(c, {"SUBMITTED", "ASSESSED"},
          [claims[c] EXCEPT !.status = "APPROVED", !.approvedAmount = amount])
    /\ TakeReserve(amount)
    /\ receipts' = [receipts EXCEPT ![c] = "live"]

\* Mutant: the vault's reserve is not released.
RejectKeepingReserve(c) ==
    /\ ChangeClaim(c, {"APPROVED"},
          [claims[c] EXCEPT !.status = "REJECTED", !.approvedAmount = 0])
    /\ Untouched

RejectApproved(c) ==
    /\ ChangeClaim(c, {"APPROVED"},
          [claims[c] EXCEPT !.status = "REJECTED", !.approvedAmount = 0])
    /\ ReleaseReserve(claims[c].approvedAmount)
    /\ UNCHANGED receipts

RejectPending(c) ==
    /\ ChangeClaim(c, {"SUBMITTED", "ASSESSED", "DISPUTED"},
          [claims[c] EXCEPT !.status = "REJECTED"])
    /\ Untouched

RejectClaim(c) == RejectApproved(c) \/ RejectPending(c)

\* Mutants: the freeze is ignored; the receipt is not burned.
ExecuteFrozen(c) ==
    /\ ChangeClaim(c, {"APPROVED"}, [claims[c] EXCEPT !.status = "PAID"])
    /\ PayFromReserve(claims[c].approvedAmount)
    /\ receipts' = [receipts EXCEPT ![c] = "exercised"]
ExecuteKeepingReceipt(c) ==
    /\ ~claims[c].frozen
    /\ ChangeClaim(c, {"APPROVED"}, [claims[c] EXCEPT !.status = "PAID"])
    /\ PayFromReserve(claims[c].approvedAmount)
    /\ UNCHANGED receipts

ExecuteClaim(c) ==
    /\ ~claims[c].frozen
    /\ ChangeClaim(c, {"APPROVED"}, [claims[c] EXCEPT !.status = "PAID"])
    /\ PayFromReserve(claims[c].approvedAmount)
    /\ receipts[c] = "live"
    /\ receipts' = [receipts EXCEPT ![c] = "exercised"]

-----------------------------------------------------------------------------
ClaimStep ==
    \E c \in Claims :
        \/ \E f \in Portfolios, amount \in ClaimAmounts, type \in ClaimType :
              SubmitClaim(c, f, amount, type)
        \/ \E score \in Scores : PublishAssessment(c, score)
        \/ AttachAssessment(c)
        \/ DisputeClaim(c)
        \/ FreezeClaim(c)
        \/ UnfreezeClaim(c)
        \/ \E uphold \in BOOLEAN : ResolveDispute(c, uphold)
        \/ \E amount \in ClaimAmounts : ApproveClaim(c, amount)
        \/ RejectClaim(c)
        \/ ExecuteClaim(c)

OwnerStep ==
    \/ \E window \in DISPUTE_WINDOW_FLOOR..DISPUTE_WINDOW_CEILING :
          SetDisputeWindow(window)
    \/ \E threshold \in Thresholds : SetAnomalyThreshold(threshold)

WorldStep ==
    \/ Tick /\ UNCHANGED <<portfolioVars, ledger, claimVars, assessorVars,
                           receipts>>
    \/ PortfolioNext
         /\ UNCHANGED <<blockTime, ledger, claimVars, assessorVars, receipts>>
    \/ CashStep
         /\ UNCHANGED <<blockTime, portfolioVars, claimVars, assessorVars,
                        receipts>>

Next == ClaimStep \/ OwnerStep \/ WorldStep

Spec == Init /\ [][Next]_vars

\* executeClaim() is permissionless and a keeper sweeps it (ClaimsKeeper.s.sol),
\* so an executable claim does not wait for ever.
Fairness == \A c \in Claims : WF_vars(ExecuteClaim(c))
FairSpec == Spec /\ Fairness

-----------------------------------------------------------------------------
Sum(f) == SumFunction(f)
ApprovedTotal ==
    Sum([c \in Claims |-> IF claims[c].status = "APPROVED"
                            THEN claims[c].approvedAmount ELSE 0])

\* The vault reserves exactly what the committee has approved and not yet paid
\* or rejected: approveClaim(), rejectClaim() and executeClaim() move the claim
\* and the vault's reserve together, whatever the Sentinel does in between.
ReservesMatchClaims == reserved = ApprovedTotal

\* A receipt is exercised exactly when its claim is paid, and an approved claim
\* still holds an unexercised one, so a payout never reverts on its receipt.
ReceiptsTrackPayouts ==
    \A c \in Claims :
        /\ receipts[c] = "exercised" <=> claims[c].status = "PAID"
        /\ claims[c].status = "APPROVED" => receipts[c] = "live"

\* "Non-parametric claims always remain challengeable" (setDisputeWindow()): none
\* is approved or paid before the floor has passed since its submission, however
\* the owner moves the window meanwhile.
AlwaysChallengeable ==
    \A c \in Claims :
        /\ claims[c].claimType = "NON_PARAMETRIC"
        /\ claims[c].status \in {"APPROVED", "PAID"}
        => blockTime > claims[c].submittedAt + DISPUTE_WINDOW_FLOOR

\* A dispute holds the claim frozen until the committee resolves it: the
\* Sentinel's own unfreezeClaim() cannot lift it.
DisputesStayFrozen ==
    \A c \in Claims : claims[c].status = "DISPUTED" => claims[c].frozen

\* Reserved cash leaves the vault only for one approved claim that nobody has
\* frozen, in the amount the committee approved, and that claim is paid by it.
PayoutsAreApprovedClaims ==
    [][ (cash' < cash /\ reserved' < reserved) =>
          \E c \in Claims :
              /\ claims[c].status = "APPROVED"
              /\ ~claims[c].frozen
              /\ claims'[c].status = "PAID"
              /\ cash - cash' = claims[c].approvedAmount
              /\ reserved - reserved' = claims[c].approvedAmount ]_vars

\* In a vault without a management fee the cash covers all approved claims together:
\* the insolvency guard of reservePortfolioClaim() outlives every LP exit.
ApprovedClaimsPayable == ~FeesCharged => ApprovedTotal <= cash

\* In such a vault an approved claim is settled unless somebody freezes it.
ApprovedClaimsSettle ==
    \A c \in Claims :
        claims[c].status = "APPROVED" ~>
            \/ claims[c].status \in {"PAID", "REJECTED"}
            \/ claims[c].frozen

-----------------------------------------------------------------------------
\* What the documents say and the code does not do.

\* "Non-parametric claims additionally require an AI assessment on file"
\* (ClaimManager.sol:22-23).  A dispute resolved in the cedant's favour returns
\* a claim to ASSESSED that was never assessed.
AssessmentOnFile ==
    \A c \in Claims :
        /\ claims[c].claimType = "NON_PARAMETRIC"
        /\ claims[c].status \in {"APPROVED", "PAID"}
        => HasAssessment(c)

\* "Status flips back to ASSESSED and the dispute window restarts"
\* (docs/runbook/03-committee-actions.md): resolveDispute() leaves the deadline.
DisputeWindowRestarts ==
    [][ \A c \in Claims :
          claims[c].status = "DISPUTED" /\ claims'[c].status = "ASSESSED" =>
             claims'[c].challengeDeadline > blockTime ]_vars

\* A receipt represents "a claim draw-down right" (ClaimReceipt.sol), live until
\* payout: rejecting an approved claim leaves its receipt live.
LiveReceiptsCanBeDrawn ==
    \A c \in Claims :
        receipts[c] = "live" => claims[c].status = "APPROVED"
=============================================================================
