------------------------- MODULE PortfolioRegistry --------------------------
(***************************************************************************)
(* PortfolioRegistry.sol: the lifecycle of the ceded portfolios.  What a   *)
(* portfolio is called, its documents and its expected loss are data no    *)
(* other contract branches on; the model keeps its status, its cedant and  *)
(* its terms (coverage limit, inception and expiry, fixed at submission).  *)
(* This registry runs on the block clock, not on the virtual one.          *)
(***************************************************************************)
EXTENDS BlockClock, FiniteSets

CONSTANTS Portfolios,    \* portfolio ids
          Cedants,       \* the accounts with AUTHORIZED_CEDANT_ROLE
          Terms          \* the terms a cedant may submit

ASSUME PortfolioAssumption == IsFiniteSet(Portfolios)

ASSUME TermsAssumption ==
    \A t \in Terms : /\ t.coverageLimit \in Nat \ {0}
                     /\ t.inceptionTime \in Nat
                     /\ t.expiryTime \in Nat
                     /\ t.inceptionTime < t.expiryTime

VARIABLES pfStatus,      \* pfStatus[f]: "NONE" until f is submitted
          pfCedant,      \* pfCedant[f]: the cedant that submitted f
          pfTerms        \* pfTerms[f]: the terms it submitted

portfolioVars == <<pfStatus, pfCedant, pfTerms>>

PortfolioStatus == {"NONE", "SUBMITTED", "UNDER_REVIEW", "APPROVED",
                    "ACTIVE", "PAUSED", "EXPIRED", "REJECTED"}

NoTerms  == [coverageLimit |-> 0, inceptionTime |-> 0, expiryTime |-> 0]
NoCedant == "no cedant"

PortfolioTypeOK ==
    /\ pfStatus \in [Portfolios -> PortfolioStatus]
    /\ pfCedant \in [Portfolios -> Cedants \cup {NoCedant}]
    /\ pfTerms  \in [Portfolios -> Terms \cup {NoTerms}]

PortfolioInit ==
    /\ pfStatus = [f \in Portfolios |-> "NONE"]
    /\ pfCedant = [f \in Portfolios |-> NoCedant]
    /\ pfTerms  = [f \in Portfolios |-> NoTerms]

Submitted(f)     == pfStatus[f] # "NONE"
IsAllocatable(f) == pfStatus[f] \in {"APPROVED", "ACTIVE"}
CoverageOver(f)  == blockTime >= pfTerms[f].expiryTime

-----------------------------------------------------------------------------
\* A status change of f allowed only from the statuses in from.
MovePortfolio(f, from, to) ==
    /\ pfStatus[f] \in from
    /\ pfStatus' = [pfStatus EXCEPT ![f] = to]
    /\ UNCHANGED <<pfCedant, pfTerms>>

SubmitPortfolio(f, c, t) ==
    /\ pfStatus[f] = "NONE"
    /\ pfStatus' = [pfStatus EXCEPT ![f] = "SUBMITTED"]
    /\ pfCedant' = [pfCedant EXCEPT ![f] = c]
    /\ pfTerms'  = [pfTerms EXCEPT ![f] = t]

StartReview(f)      == MovePortfolio(f, {"SUBMITTED"}, "UNDER_REVIEW")
ApprovePortfolio(f) == MovePortfolio(f, {"UNDER_REVIEW"}, "APPROVED")
RejectPortfolio(f)  == MovePortfolio(f, {"SUBMITTED", "UNDER_REVIEW"}, "REJECTED")

ActivatePortfolio(f) == /\ ~CoverageOver(f)
                        /\ MovePortfolio(f, {"APPROVED"}, "ACTIVE")

PausePortfolio(f)   == MovePortfolio(f, {"ACTIVE"}, "PAUSED")
UnpausePortfolio(f) == MovePortfolio(f, {"PAUSED"}, "ACTIVE")

MarkExpired(f) == /\ CoverageOver(f)
                  /\ MovePortfolio(f, {"ACTIVE", "PAUSED"}, "EXPIRED")

PortfolioNext ==
    \E f \in Portfolios :
        \/ \E c \in Cedants, t \in Terms : SubmitPortfolio(f, c, t)
        \/ StartReview(f)
        \/ ApprovePortfolio(f)
        \/ RejectPortfolio(f)
        \/ ActivatePortfolio(f)
        \/ PausePortfolio(f)
        \/ UnpausePortfolio(f)
        \/ MarkExpired(f)
=============================================================================
