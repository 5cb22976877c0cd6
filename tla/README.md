# NextBlock: a TLA+ model of the protocol and its back office

This directory specifies the core contracts of NextBlock (`contracts/src`) and
the two groups of server routes that keep state of their own and run
concurrently (`app/src/app/api`: KYB review with its sanctions gate, and the
claim audit feed with the AI assessments drafted from it) in TLA+, checks them
with TLC on small instances and proves the results that matter most with TLAPS
for every instance. It is written for someone who has the repository open
beside it.

The contracts are sequential programs, but the protocol is not: a vault, a
claim and a redemption epoch are each moved by several independent parties
(LPs, cedant, AI feed, Sentinel, Claims Committee, allocator, owner, keepers),
whose transactions interleave freely over days, and time passes between any
two of them. Every action of a contract below is one transaction, run as a whole
or reverted; what the model explores is their order.

The server routes are the opposite. Each is a short program that awaits a
database, a provider or a chain endpoint several times; between two awaits other
instances of the same route run, any call may fail, and the instance itself may
die. There an action is what happens from one await to the next, and every call
in flight keeps what it has read in a record of its own.

## 1. Inventory

| Component | State it keeps | Operations | What makes it correct |
|---|---|---|---|
| **InsuranceVault** | one USDC balance, nbUSDC shares, UPR books, allocations, claim reserves, fee accrual | ERC-4626 entry and exit, premiums, allocation, claim reserve / release / payout, fees, expiry sweep | claims on the one balance never overlap; shares are priced fairly; the sweep drops nothing still earned |
| **ClaimManager** (+ AIAssessor, ClaimReceipt) | claims, dispute window, assessments, receipts | submit, assess, dispute, freeze, resolve, approve, reject, execute | vault reserve, claim and receipt agree; the challenge window cannot be escaped; approved claims get paid |
| **RedemptionQueue** | epochs, requests, escrow count, custody of shares and USDC | request, settle, claim, set duration, pause | what is held covers what is owed; settled epochs are final; nobody waits for ever |
| **PolicyRegistry** | policies, the virtual clock | register, activate, advance / lock the clock | one clock for all; it should not run backwards under anyone |
| **PortfolioRegistry** | portfolio status and terms | submit, review, approve, reject, activate, pause, expire | status changes follow the lifecycle |
| **ComplianceRegistry** | whitelist, KYC expiry, blocks, limits, venues | setters, `canReceive`, `canTransfer` | an LP may always exit unless blocked |
| **VaultAllocator** | proposals with an expiry, concentration limits | propose, split, execute, cancel, expire | limits hold when a proposal executes, not only when it was made |
| **PremiumDistributor** | split ratios, fees accrued per portfolio | receive, claim fees | the split conserves the premium |
| **LendingMarket**, NavShareOracle | supply and borrow shares, collateral, last accrual | supply, borrow, repay, liquidate, accrue, set parameters | the liquidity the books promise is there; no debt outlives its collateral; lenders lose to bad debt only |
| **NavOracle** | attestation per vault, pause, waiver | publish, pause, acknowledge | no unreviewed jump is ever published |
| **BordereauOracle** | assertions with a liveness window | propose, dispute, resolve, finalise | only unchallenged or upheld data is final |
| **AdapterRegistry** | adapter status and caps | register, activate, disable, deprecate | a disabled adapter stays so until reactivated |
| **VaultFactory**, VaultDeployer, ProtocolRoles, ProtocolTimelock | bindings and roles | create, bind, grant | each vault is bound once, to the right parties |
| keepers (`contracts/script`) | none | settle due epochs, execute approved claims | they make the liveness promises true |
| NextBlockLens, mocks | none of the protocol's | views | |
| **KYB review and sanctions screening** (`app/src/app/api/kyb`, `.../sanctions`, `lib/kyb`) | applications, nonces, screening runs, matches, review events | submit, issue nonce, review, monthly re-screen, resolve a match | nothing is approved unscreened; a decision stands; a signature counts once; no hit and no decision goes without a trace |
| **Claim audit feed and AI drafts** (`.../api/audit`, `.../api/ai`, `lib/audit`) | audit trail, cursors, pending assessments | refresh, draft, assess, publish | the trail is complete up to its cursor and is never undone; a claim is drafted once |
| other routes and pages | rows of notifications, bordereaux, intake, evidence | pages, routes | not protocol-critical: the contracts check again |
| indexer, sim | entities for display; none | event folding; load generation | the same |

How they interact:

    cedant --submit--> PortfolioRegistry        owner --advance/lock--> PolicyRegistry
       |                     | isAllocatable               | currentTime
       |                     v                             v
       +--premium--> PremiumDistributor --> InsuranceVault <--allocate-- VaultAllocator
       |                                     ^   ^    |
       +--claim--> ClaimManager --reserve/pay+   |    +-- nbUSDC, maxRedeem, redeem
                     |  ^                        |                 |
        AIAssessor --+  +-- Sentinel, Committee  LP <---claim--- RedemptionQueue
                     +--> ClaimReceipt           (ComplianceRegistry gates every share transfer)

    applicant --submit--> kyb_applications <--review (wallet + nonce, or session)-- KYC operator
                                |   ^                                              |
            monthly re-screen --+   +-- approve only after --> screening provider -+
                                |                                   | match
                                +------ hits ------> sanctions_matches <--resolve-- Sentinel

    ClaimManager, ClaimReceipt --logs--> audit refresh --> claim_audit_trail + audit_cursor
                                                                  | ClaimSubmitted
    operator --assess--> ai_assessments_pending <--draft-- AI refresh
                                 +--published--> AIAssessor (a Safe transaction)

Where it is hard:

- *One pot, many claims on it.* UPR, reserves, commitments, fees and shares are
  all claims on `balance`, and each guard of the vault subtracts a different
  selection of them (`_availableBuffer` no fees, `reservePortfolioClaim` no
  commitments and no fees, `totalAssets` no commitments).
- *Two clocks.* Policies and fees run on the owner's virtual clock, portfolios,
  claims and epochs on block time; and the virtual clock jumps back once.
- *Lazy sweeps.* Expiry is noticed by whichever call comes next, not by itself.
- *Three contracts per claim*, moved by five actors, with a deadline and a
  freeze that race the committee.
- *Two-step rounding* in the queue, over epochs open at the same time.
- *Rates that change under what they apply to*: epoch duration, dispute window,
  anomaly threshold.
- *Reads that are stale after an await*: a review decides on the status it read
  two providers ago; a re-screening on the matches it read before; a refresh on a
  cursor another refresh is moving.
- *Partial failure*: a route writes to up to four tables without a transaction,
  and some of its errors are logged, some answered and some never looked at.
- *A chain that reorganises* under a trail that only grows.
- *Two books of shares* in the lending market, each rounding up in one direction and
  down in the other, while interest moves assets that no cash follows.

The full list, each at its line, is under `hazards` in `PROJECT.json`.

## 2. Modules

| Module | Models | EXTENDS |
|---|---|---|
| `BlockClock` | `block.timestamp` | |
| `PolicyRegistry` | `PolicyRegistry.sol` | `BlockClock` |
| `PortfolioRegistry` | `PortfolioRegistry.sol` | `BlockClock` |
| `VaultReserve` | what the vault promises the claim path: an abstract ledger of cash and reserve | |
| `InsuranceVault` | `InsuranceVault.sol`, composed with both registries, one clock and the standing of its LPs; shown to implement `VaultReserve` | `PolicyRegistry`, `PortfolioRegistry` |
| `ClaimManager` | `ClaimManager.sol`, `AIAssessor.sol`, `ClaimReceipt.sol` over `PortfolioRegistry` and `VaultReserve` | both |
| `RedemptionQueue` | `RedemptionQueue.sol` and its keeper, against any liquidity and price | `BlockClock` |
| `LendingMarket` | `LendingMarket.sol` against any course of the price `NavShareOracle.sol` reads | `BlockClock` |
| `KybReview` | the KYB and sanctions routes on one database | |
| `ClaimFeed` | the audit refresh, the draft run, the assess and publish routes, the chain they read | |
| `InsuranceVaultProofs`, `ClaimManagerProofs`, `RedemptionQueueProofs`, `LendingMarketProofs`, `KybReviewProofs`, `ClaimFeedProofs` | theorems | the module they are about |
| `VaultSweepProofs` | theorems on the lazy sweep, the fee clock, and what rests on the unearned premium: commitments, fees, share price | `InsuranceVaultProofs` |
| `SumFacts` | lemmas on sums over finite sets, for the proofs of vault, claims and queue | |
| `MCInsuranceVault`, `MCClaimManager`, `MCRedemptionQueue`, `MCLendingMarket`, `MCKybReview`, `MCClaimFeed` | constants for TLC | the module they check |

The claim path is composed by contract: `ClaimManager` runs over the ledger
`VaultReserve`, and `VaultImplementsLedger` proves that the vault refines that
ledger. So what the ledger never does, the vault never does to the claims.

### InsuranceVault

The state has the names of the source. The arrays `_activePolicyIds`,
`_premiumPolicyIds` and `_premiumPortfolioIds` with their `tracked` maps are the
sets `activePolicies`, `premiumPolicies`, `premiumPortfolios`: their order
matters nowhere. `shares` is nbUSDC; `standing` and `investorLimit` are what
ComplianceRegistry answers of each LP, moved by the environment. A KYC that
expires is a standing that changes at any moment, which includes the moment it
really does.

Each external function is an action with its modifiers in it:
`checkExpiredPolicies` is `SweepExpired` (or, where the function adds to the
swept sets itself, those sets computed in one go), `_accrueFeesInternal` is
`AccrueFees`. The code's order is kept where it shows: `maxDeposit` and
`maxWithdraw` and the conversion are evaluated before the sweep and the
accrual, as ERC-4626 does; `depositPremium` looks for room after the sweep.
Unsigned subtractions of the source are guards (`FeeClockReadable`, the checked
subtractions of `DeallocateFromPortfolio` and `ReservePortfolioClaim`); the
source's explicit floors at zero are `Monus`. UPR rounds as in the source: down
per policy, up per portfolio.

Not modelled: `setClaimManager`, `assignSyndicate` and `setVaultAllocator` (the
bindings are fixed), `weightBps` and `totalAllocationWeight` (descriptive),
`totalDeployedCapital` and the legacy `claimed` flag (nothing ever sets them).
Integers are unbounded: the amounts of a run are far below 2^256.

### ClaimManager

`claims[c]` is the record of the source without hashes, identities and vault
address; `assessments[c]` is the anomaly score on file, the only part of an
assessment the contracts branch on; `receipts[c]` is none, live or exercised.
`ChangeClaim(c, from, new)` is the shape all calls share: check the status, then
write the record. `RejectClaim` has two disjuncts, one per branch of the source.
The environment (`WorldStep`) moves the clock, the portfolio lifecycle and the
vault's cash: LPs enter and leave, fees are collected if there are any.

### RedemptionQueue

`escrowedShares` (what the queue counts) and `shares[Queue]` (what it holds) are
separate variables, as they are in reality. `buffer` is the number of shares the
vault would redeem now and changes at any time; a settlement pays any of
`Prices`. `compliance[lp]` is eligible, delisted (may send, may not receive) or
blocked. A claim is one step with all its transfers, so a transfer that reverts
disables it.

### LendingMarket

The two books, the collateral and the parameters have the names of the source;
`cash` is the market's balance of USDC. A call is one action: `_accrue` is in it as
`SupplyAssets`, `BorrowAssets` and `SharesOf`, the books as they stand after it,
from which the call then computes. `depositCollateral`, `setRiskParams` and
`setCaps` do not accrue, in the source as here. Each conversion rounds as in the
source (`ToSupplyShares` down, `ToSupplySharesUp` up, and the same for debt), and
the checked subtractions of `repay` and `liquidate` are the guard `CanSettle`.

`price` is the attestation the oracle has, a NAV and a share supply, or `None`
while the feed is paused or stale: then whatever needs a price is disabled, and
what needs none, for lack of debt, is not. Who may call is not modelled: the
compliance gate, the liquidator and the governance roles keep callers away and
decide nothing else. USDC sent to the market by mistake is left out too, since no
code reads the balance.

### KybReview

One variable per table. `reviews[r]` is a call of the review route: `step` names
the await it stands at, and the rest is what it has in its local variables. The
steps of an approval are nonce (wallet reviews only), fetch, entity screening,
wallet screening, update, append; those of any other target go from fetch to
update. A call that fails and an instance that dies are different things:
`ReviewFails` is an answer, so somebody is told (`unrecorded` is the 500 after the
update, `unscreened` the 502 after a match that could not be stored); after
`ReviewDies` and `RescreenDies` nobody is. `diedAppending`, `diedStoring` and
`died` are the deaths that take something with them, an event or hits that were
in memory only. No action reads what such a record holds; it names the loss in the
properties. `consumeNonce` and `ApplyTransition` are single conditional updates and so single
steps. `ApplyTransition` does not ask how many rows it changed, as in the source.
`ReceiveWalletReview` stands for signature, time window and role check; a
signature binds application, target and nonce, so calls with one nonce agree on
both. The nonce is the only thing that tells a first delivery from a second.

`rescreens[c]` is an invocation of the monthly job. `page` is the set of approved
applications it read; paging is left out (its offset counts rows a later approval
may shift, by one page per hundred approvals). A provider never answers "match"
without naming one (`lib/sanctions/provider.ts`), so `result = "match"` and
`hits # {}` agree. `failed` records the inserts the job logs and passes over.

Not modelled: the rate limiter, the listing and status routes (read-only), the
e-mail on submission (best effort, after the write), the local nonce store used
without a database.

### ClaimFeed

`chain` is the sequence of blocks, each with at most one claim event; `Mine` and
`Reorganise` are the environment, and `final` the blocks deeper than `REORG_SAFETY`.
Of the claim's events three are kept, those that link a claim to its receipt
(`ReadReceiptLink` takes the newest `LinkRows` of them, 500 in the code); a log of
`ClaimReceipt` shares the block of the claim event. `refreshes[u]` is an invocation
of the audit refresh: block number, receipt link, then for each contract cursor,
logs, insert, cursor update per chunk. Each of these awaits may fail, with the
consequence it has in the source: a cursor that is absent or unread starts the scan
`Window` blocks back, unread logs end the contract's scan, a failed insert is logged
(`reported`) and the cursor moves all the same. `skipped` is a history variable,
read by no action: the logs below the start of a scan that had no cursor and that
neither the trail nor a log line accounts for. A first scan on a
longer chain leaves them out for good, and so does one that cannot read a cursor more
than `Window` blocks behind.

`assessors[a]` is a draft run: the submissions (rows of the trail) it still has to
draft, chosen when it started and taken oldest first. `AssessClaim` and
`StoreAssessment` are the two halves of the operator's route, with the check in the
first and the insert in the second; it takes any claim id, known to the chain or
not, and `maybeSingle` answers nothing when it finds several rows. `armed` is the
set of invocations at work in a behaviour, those that carry `CRON_SECRET`; it keeps
instances apart whose product TLC could not finish (see the bounds).

Assumed: no reorganisation is deeper than `REORG_SAFETY` (the code's own margin);
the endpoint never answers from below a block it has reported final.

## 3. Runs

All runs use `CHECK_DEADLOCK FALSE`: time is bounded, so every behaviour of a
run ends, which no behaviour of the contracts does.

| Run | Instance | Shows |
|---|---|---|
| `vault_claims` | 1 LP, 1 portfolio, fee 10%/year, 3 blocks | `VaultTypeOK`, `UprComplete`, `BooksBalance`, `ImplementsClaimLedger`, `OnlyFeesUncoverReserves`, `CommitmentsStayCovered`, `FeesOwedChangeOnlyWithTime` |
| `vault_policies` | 1 LP, 2 policies in a vault with room for 1, a clock that is advanced by 1 or 2 and locked | `FeeClockNeverAhead`, `UprComplete` |
| `vault_lps` | 2 LPs of any standing, amounts that do not divide, caps and limits, donations | `EntryAndExitNeverDilute` |
| `claims_settle` | 2 claims of 1 or 2 on 2 units of cash, no fee, keeper | `ReservesMatchClaims`, `ReceiptsTrackPayouts`, `ApprovedClaimsPayable`, `PayoutsAreApprovedClaims`, `ApprovedClaimsSettle` |
| `claims_window` | 1 claim, window 1..3, 3 scores, 6 blocks | `ClaimTypeOK`, `AlwaysChallengeable`, `DisputesStayFrozen` |
| `queue_safety` | 3 LPs, 2 epochs, durations 1 and 2, prices 1/2 and 3/2, pause, stray shares, blocked LPs | `QueueTypeOK`, `UsdcCoversClaims`, `CustodyCoversEscrow`, `DustIsBounded`, `SettlementsAreSpaced`, `SettledEpochsFinal` |
| `queue_progress` | 2 LPs, keeper | `RequestsAreServed` (`RequestsSettle` and `ClaimsSurvivePause`) |
| `lending` | 1 lender, 2 borrowers, amounts 1 and 2, a protocol fee of half the interest, no caps (a cap only refuses a call), a NAV that falls or goes stale, limits that tighten, 3 blocks | `LendingTypeOK`, `CashIsUnlent`, `NoNakedDebt`, `OnlyBadDebtCostsLenders` |
| `kyb_review` | 2 applications, one of them under review, 3 calls of the review route, 1 nonce, 1 re-screening, 1 hit | `KybTypeOK`, `ApprovedWereScreened`, `DecisionsAreFinal`, `SignaturesAreSingleUse`, `TransitionsLeaveATrace`, `HitsReachTheSentinel` |
| `claim_feed` | 1 claim, 3 blocks, the last of which may change; 2 overlapping refreshes, or 1 refresh with 2 draft runs, or with 1 and the operator | `FeedTypeOK`, `TrailMirrorsClaimManager`, `TrailHasNoGaps`, `TrailSurvivesReorganisation`, `AssessedClaimsGainNoDrafts` |

What `vault_policies` asks of the policies' half of `UprComplete`, `vault_claims`
asks of the portfolios' half, on its own clock.

Two runs expect a violation. Each states what a comment, a test or a runbook
of the repository says, and TLC shows what the code does instead:

| Run | The repository says | The code |
|---|---|---|
| `vault_fees_uncover` | claim reserves are always backed by cash (VaultInvariant.t.sol) | `claimFees` pays accrued fees out of reserved cash, because no guard counted them |
| `claims_unassessed` | a non-parametric claim needs an assessment | not after a dispute resolved for the cedant |

Twenty-two disagreements of the same kind are kept beside the runs, one
configuration each, and are reproduced by hand:
`tlc -config <name>.cfg <module>`, with the MC module of the component the name
begins with (`feed`: `MCClaimFeed`, `kyb`: `MCKybReview`, `lending`:
`MCLendingMarket`).

| Configuration | Property | The repository says | The code |
|---|---|---|---|
| `vault_clock_rewind` | `TotalAssetsNeverReverts` | `totalAssets` never reverts | after `lockRealTime` it does, until real time has passed the last accrual |
| `vault_stale_premium` | `PremiumPoliciesAreActive` | premium policies are active ones | a premium on a swept policy stays in the set for ever, and keeps its place |
| `vault_backdated_fee` | `FeesAccrueOnEveryOperation` | fees accrue on every state-changing operation | releasing a reserve accrues none |
| `claims_window_kept` | `DisputeWindowRestarts` | overruling a dispute restarts the window | the deadline stays |
| `claims_stale_receipt` | `LiveReceiptsCanBeDrawn` | a receipt is a draw-down right | that of a rejected claim stays live |
| `queue_duration_moved` | `OpenEpochMaturityFixed` | a new duration applies to future epochs | it moves the open one |
| `queue_short_notice` | `RequestsGiveNotice` | the duration is the least time a request waits | a request into an idle epoch may settle at once |
| `queue_dust` | `OpenEpochStaysEscrowed` | dust comes out of the epoch's own escrow | it comes out of the open epoch's |
| `queue_delisted` | `EveryClaimIsPaid` | nothing is locked for ever | a delisted LP's USDC is, with the share that cannot go back |
| `queue_stray` | `RequestsSettle` | "nothing is silently locked forever" (`RedemptionQueue.sol:25`) | dust leaves the open epoch one share short in `escrowedShares`; a share sent to the queue by mistake is then redeemed beyond that count, and `settleEpoch` reverts on its subtraction for good |
| `lending_last_repay` | `DebtsCanBeRepaid` | "Pass `type(uint256).max` to repay in full" (`LendingMarket.sol:422`) | debt rounds up: after a repayment in full, rounded up, has taken the last unit of `totalBorrowAssets`, the remaining debt of a fraction of a unit is owed as one, and repaying or writing it off reverts on the subtraction |
| `lending_worthless` | `BadDebtCanBeRealized` | "If collateral is exhausted while debt remains, the residual is socialized" (`LendingMarket.sol:448`) | collateral worth less than a unit divides by zero (`LendingMarket.sol:467`): the debt can be neither liquidated nor written off |
| `kyb_trail` | `TrailShowsTheDecision` | `kyb_review_events` is the trail of the review transitions (0001) | the update's row count is never asked (`review/route.ts:285`): the review that lost the race appends an event of a transition that did not happen |
| `kyb_open_match` | `OpenMatchesBlockApproval` | "a Sentinel resolves them ... before this endpoint will let the approve land" (`review/route.ts:141`) | the gate asks the provider, never `sanctions_matches`: when it answers "clear" the second time, an open match blocks nothing |
| `kyb_dead_review` | `EveryTransitionIsLogged` | "Append-only audit trail of KYB review transitions" (0001) | an instance that dies between the update and the event (`review/route.ts:285-312`) leaves a status with no event, no answer and no log |
| `kyb_dead_screening` | `EveryHitIsQueued` | "any NEW match becomes a `pending_sentinel` row" (`rescreen/route.ts`) | an instance that dies between the run's insert and the match's (`rescreen/route.ts:94-119`, and the review's gate alike) leaves the hit in the audit log of screenings and in no queue |
| `feed_receipts` | `TrailMirrorsClaimReceipt` | the trail mirrors the logs of both contracts (0006) | the link from receipts to claims is read before the scan that stores `ClaimApproved`: a receipt minted in the same scan is skipped, and the cursor passes it |
| `feed_failed_insert` | `CursorMovesOnSuccess` | the cursor "upserts on success" (0006) | a failed insert is logged and the cursor moves on: the logs are never read again |
| `feed_late_start` | `TrailMirrorsEveryLog` | the same mirror | a scan without a cursor starts 50,000 blocks back (`audit/claims/refresh/route.ts:122`), and later ones look only forward |
| `feed_two_drafts` | `OnePendingDraft` | "refuse to overwrite an already-pending assessment" (`assess/route.ts:74`) | the check and the insert are two calls; and once there are two rows, `maybeSingle` finds none |
| `feed_redraft` | `DraftedOnce` | "a late or duplicate call never double-processes" (`scheduled-jobs.yml`) | overlapping runs do, and so does one that cannot read the drafts there are |
| `feed_starved` | `DraftRunsCatchUp` | "oldest first so the cron eventually catches up" (`ai/refresh/route.ts:49`) | the oldest 100 rows are cut off before the assessed ones are dropped: after 100 assessed claims no run finds a claim to draft |

Why the bounds suffice. A property of the claim path, of the queue or of the share
price relates at most two claimants of one resource (two claims, two epochs, two
LPs), and its run has that many; rounding dust needs three LPs (two to share a
remainder, one to be short of it), which `queue_safety` and `queue_dust` have. In
`vault_claims` the claimants that compete for the balance are of different kinds
(LP, premium, commitment, reserve, fee), one of each, and the amounts are such that
two of them do not fit; what several portfolios add is a sum, and the proofs hold
for any number of portfolios. The amounts make divisions leave a remainder in the
runs about rounding and come out even in the others; that unearned premium stays
within what was received when it rounds rests on the theorem `BooksAlwaysBalance`.
In the vault runs one year is one block and the fee is one tenth of the base, the
highest rate the constructor admits, so fees reach a whole unit within a run; terms
last two or three blocks, so premiums are observed before, during and after their
term. Only `vault_lps` lets compliance take a standing away (`Standings`), for the
standing of an LP gates shares and nothing else. Names of bounds, which no code has:
`MaxBlockTime`, `MaxOffset`, `MaxBalance`, `MaxSupply`, `MaxPremium`, `MaxCash`,
`MaxEpochs`, `InitialShares`, `MaxSupplied`, `MaxShares`, `MaxCollateral`,
`MaxHeight`, `MaxDrafts`, `MaxBlind`, and the sets of requests, invocations and
nonces. Symmetry is declared only over identities no definition distinguishes, and
in no run that checks liveness.

In `kyb_review` two calls race and a third comes after them, a signature is
delivered up to three times, and the application that is not yet submitted may be
another one of the same applicant, so hits of one application can be mistaken for
those of the other. One application starts under review, with the event that says
so; every status is reached from there. In `claim_feed` a chunk is one block and
the margin one block, so three blocks give two chunks below the margin and one
above it; `Window` is zero, so a scan without a cursor skips whatever lies below the
final block, on a chain that is higher than the look-back, as every real one is. An
invocation that ends may start again, so two of them cover any number that run one
after the other beside another. `Deployments` keeps apart what does
not interact: draft runs and the operator read the trail and never write it, so
overlapping refreshes and overlapping drafts are explored in turn, not in product.

In `lending` two units of virtual shares and amounts of one and two make every
conversion after the first accrual leave a remainder; interest in a block is half
of the utilisation, so three blocks compound it. A lender meets the borrowers only
through totals, so one is enough, and it is also the recipient of the fee; two
borrowers are needed, one to leave a remainder for the other. `MaxShares` cuts off
the endless circles of small loans and repayments in which rounding drives up the
number of shares; the theorems have no such need.

### What the less obvious properties leave out

- `OnlyFeesUncoverReserves` exempts steps that collect a fee: this is what
  `vault_fees_uncover` refutes, and the theorem `NoFeeVaultStaysBacked` shows
  that nothing else is missing.
- `FeesOwedChangeOnlyWithTime` exempts two steps by name, a plain transfer of USDC
  and the release of a reserve: both change the assets the fee is computed from with
  no accrual before. The second is what `vault_backdated_fee` shows.
- `FeeClockNeverAhead` holds until `lockRealTime`; what happens there is
  `vault_clock_rewind`.
- `ApprovedClaimsPayable` speaks of cash. For some time after `lockRealTime` the accrual
  underflows and with it every payout reverts, whatever the fee
  (`InsuranceVault.sol:958`); the ledger under the claim path has no fee clock, so the
  claim runs do not show it. It passes as real time passes the last accrual.
- `CommitmentsStayCovered` exempts new reserves as well (a reserve above its
  portfolio's own allocation is taken from free cash that other commitments
  count on), and the clock going back.
- `EntryAndExitNeverDilute` speaks of vaults that are solvent before the step:
  behind the floor of `totalAssets` there is no share price to keep.
- `OnlyBadDebtCostsLenders` exempts the steps that end a debt without collateral
  for less than it was.
- `BooksBalance` includes `UprWithinPremiums`: what is unearned was received.
- `UprComplete` asks nothing of policies after `lockRealTime`, which makes
  expired policies unearned again after they have been swept.
- `TransitionsLeaveATrace` and `HitsReachTheSentinel` accept what has failed
  loudly (an answer 500 or 502, a logged insert), and of the silent losses exactly one
  each, by name: the death of the instance between its two writes. `kyb_dead_review`
  and `kyb_dead_screening` are the same properties without that one. What the two
  exclude is every other silent loss: a race, a stale read, a match of one application
  taken for another's.
- `TrailMirrorsClaimManager` and `TrailHasNoGaps` accept a row whose insert failed and
  was logged, and one that was more than `Window` blocks below the final ones when a
  scan began without a cursor; `feed_failed_insert` and `feed_late_start` each show
  one of the two.
- `AssessedClaimsGainNoDrafts` accepts the drafts of runs that had taken the claim up
  before it was assessed, by whomever, and one for each run that could not read the
  assessments; `feed_redraft` is the property without these two exceptions. A run that
  starts later and reads what there is, the operator's assessment included, adds none.

### Fairness

Safety needs none. The three liveness properties use what runs outside the
contracts:

- `ClaimManager!Fairness`: weak fairness of `executeClaim` for each claim. The
  function is permissionless and `ClaimsKeeper.s.sol` calls it on a schedule.
  Nothing is assumed of the committee or the Sentinel, so the property allows a
  claim to be frozen.
- `RedemptionQueue!KeeperSpec`: blocks keep coming, and the keeper
  (`RedemptionKeeper.settleIfDue`) settles a due, non-empty epoch if it is due
  again and again. Strong fairness, because the keeper runs periodically for
  ever while the Sentinel may pause and unpause between two of its runs. It is
  not assumed to settle an empty epoch: the script does not.
- `FairSpec` of the queue: an LP that can claim again and again does.

## 4. Proofs

Eight modules, the seven `*Proofs` and `SumFacts`, are checked by TLAPS with Z3,
Zenon and LS4, from the assumptions on constants stated in the modules
(`VaultAssumption`, `PolicyAssumption`, `PortfolioAssumption`, `ClaimAssumption`,
`QueueAssumption`, `MarketAssumption`, `KybAssumption`, `FeedAssumption`, ...) and
nothing else. Those that say a set is finite (LPs, policies, portfolios, claims,
accounts, invocations) only say that a sum over it is one: each of these exists
because of a finite number of calls. Every property of a passing run but the two
of liveness is the statement of a theorem.

| Theorem | Statement |
|---|---|
| `VaultTypesHold` | `Spec => []VaultTypeOK` |
| `ReservesStayCovered` | `Spec => OnlyFeesUncoverReserves` |
| `VaultImplementsLedger` | `Spec => ImplementsClaimLedger` |
| `BooksAlwaysBalance` | `Spec => []BooksBalance` |
| `CommitmentsStayBacked` | `Spec => CommitmentsStayCovered` |
| `FeesChangeOnlyWithTime` | `Spec => FeesOwedChangeOnlyWithTime` |
| `SharesNeverDiluted` | `Spec => EntryAndExitNeverDilute` |
| `NoFeeVaultStaysBacked` | `Spec => [](managementFeeBps = 0 => ClaimReservesBacked)` |
| `ClaimTypesHold` | `Spec => []ClaimTypeOK` |
| `ClaimsAlwaysChallengeable` | `Spec => []AlwaysChallengeable` |
| `ReceiptsFollowPayouts` | `Spec => []ReceiptsTrackPayouts` |
| `DisputesFreeze` | `Spec => []DisputesStayFrozen` |
| `PayoutsFollowApprovals` | `Spec => PayoutsAreApprovedClaims` |
| `ReservesAlwaysMatch` | `Spec => []ReservesMatchClaims` |
| `ApprovedAlwaysCovered` | `Spec => []ApprovedClaimsPayable` |
| `SweepKeepsUnearned` | `Spec => []UprComplete` |
| `FeeClockStaysBehind` | `Spec => []FeeClockNeverAhead` |
| `QueueTypesHold` | `Spec => []QueueTypeOK` |
| `CustodyHolds` | `Spec => []CustodyCoversEscrow` |
| `SettlementsKeepApart` | `Spec => []SettlementsAreSpaced` |
| `SettlementsFinal` | `Spec => SettledEpochsFinal` |
| `UsdcAlwaysCoversClaims` | `Spec => []UsdcCoversClaims` |
| `DustAlwaysBounded` | `Spec => []DustIsBounded` |
| `KybTypeCorrect` | `Spec => []KybTypeOK` |
| `DecisionsStand` | `Spec => DecisionsAreFinal` |
| `ApprovalsWereScreened` | `Spec => []ApprovedWereScreened` |
| `SignaturesUsedOnce` | `Spec => []SignaturesAreSingleUse` |
| `StatusesAreTraced` | `Spec => []TransitionsLeaveATrace` |
| `HitsAreNotLost` | `Spec => []HitsReachTheSentinel` |
| `TrailStaysTrue` | `Spec => []TrailSurvivesReorganisation` |
| `MirrorIsComplete` | `Spec => []TrailMirrorsClaimManager` |
| `MirrorHasNoGaps` | `Spec => []TrailHasNoGaps` |
| `FeedTypesHold` | `Spec => []FeedTypeOK` |
| `AssessedClaimsAreLeftAlone` | `Spec => AssessedClaimsGainNoDrafts` |
| `LendingTypesHold` | `Spec => []LendingTypeOK` |
| `LendersCashIsThere` | `Spec => []CashIsUnlent` |
| `DebtsKeepCollateral` | `Spec => []NoNakedDebt` |
| `LendersLoseToBadDebtOnly` | `Spec => OnlyBadDebtCostsLenders` |

Sums (`SumFacts`). Half of the properties add something up, and a sum is a
recursion over a set. The library's induction theorems take a predicate as their
parameter, which the provers cannot instantiate; `SubsetInduction` takes a *set* of
good subsets in its place, and follows from the minimal elements of the strict
subset ordering. The other obstacle is that the sum of the community modules folds
in an order it chooses; `SumIsUnits` therefore shows once that f sums to the number
of its units, the pairs of an x and a number from 1 to f[x], and from there
everything is about cardinalities: how a sum changes with one term (`SumChanges`),
that terms out of the set count nothing, that a sum over pairs is the sum of its rows.

The vault. The inductive invariant is `LedgerInv`: the types, "reserves never
exceed the most cash the vault may hold" and "a vault with rate zero has no fee
accrued". The second is needed because the ledger bounds what it reserves; it
holds because a reserve is taken only out of cash on hand, and is a fact about
the guard of `reservePortfolioClaim`, not about types. The third is needed for
the refinement at rate zero: `claimFees` must then be disabled, since the ledger
takes no fee. Each action is then classified by what it does to the pair
(balance, totalPendingClaims): `StepMoves` states that every step leaves both
alone, or is one step of the ledger. Both the action property and the refinement
follow from that one lemma, and `NoFeeVaultStaysBacked` from the lemma at rate
zero.

`BooksBalance` rests on `BooksInv`: each running total is the sum of its accounts,
a portfolio with an allocation has been submitted, and a policy that holds premium
has been added. The last two are what keeps a registration from changing
terms money already depends on. That what is unearned was received is a comparison
term by term (`UprWithin`).

Commitments, fees and share price compare a state with the next, so they need to
know what the unearned premium does in between: a step of an actor other than a
premium leaves it alone (`UprOfVaultStep`), since by `SweepInv` (below) whatever a
sweep drops was worth nothing; a premium raises it by at most what came in, provided
no premium that still earns was out of the set before; and it falls as the clock
runs forward (`UprOfWorldStep`). An accrual moves exactly what was owed from one
book to another and starts again from zero (`AccrualSettles`), so net assets do not
notice it. What an entry or exit moves is then the cash alone (`EntryMovesAssets`),
and each of the four conversions rounds to the side of those who stay
(`ConversionsRound`).

The claims. `ClaimInv` adds to the types `WindowsKept` (each claim in existence
has a deadline at least the floor after its submission, so that moving the
window afterwards changes nothing), that claims approved or paid have passed
their deadline, the receipt's correspondence to the claim's status and the
freeze of disputes. `AlwaysChallengeable` is not inductive without
`WindowsKept`: approval compares the block time with the stored deadline, not
with the floor.

`PayoutsFollowApprovals` looks at the whole step instead: `OnlyExecutionPays`
shows that a step in which both cash and reserve fall is an `executeClaim`, since
every other action of the claim path and of the ledger moves at most one of them
down, and `ExecutionPays` what such a step pays.

Of the claim path's sums, `ReservesAlwaysMatch` classifies each call by what it does
to the standing of its claim and shows that the reserve moves by the same amount.
`ApprovedAlwaysCovered` combines it with `ReservesCovered`, the invariant of the
ledger that without a fee cash covers the reserve.

The sweep (`VaultSweepProofs`). `UprComplete` is not inductive: that a premium out
of the set has nothing unearned now says nothing of the next block. `SweepInv`
says why it is out: its policy, added and active, is expired, or its portfolio's
cover is over (`PolicyPremiumsKept`, `PortfolioPremiumsKept`). Both last, because
time does not run backwards until the clock is locked and because no status
change of the registries makes an expired cover start again; `NothingEarnsNothing`,
`PolicyEarningEnds` and `PortfolioEarningEnds` turn them back into amounts of
zero. The fee clock is a conjunct of the same invariant.

The queue. `QueueInv` adds to the types that every LP's request is counted in the
total of its epoch (`RequestsCounted`) and that a settlement takes at most what was
requested (`SettledWithinRequests`): without them the subtractions of a claim
could not be typed. The splits are bounded by `SplitIsAtMost`, an arithmetic lemma
by itself. `SettlementInv` adds that only epochs before the open one are settled
and that an epoch opens when its predecessor settles, which is what separates two
settlements by a whole duration.

What the queue owes is a sum over requests, whose entries a request, a settlement
and a claim move differently: a claim takes one entry out, a settlement adds the row
of its epoch, and a request adds nothing until then. `EscrowInv` says that the count
of an epoch is the sum of its requests and that nothing of a later epoch is asked or
claimed. A settlement's row is split in two roundings; `AssetsSplit` bounds it by
the USDC that came in, and `SharesSplit` bounds what the epoch's LPs are owed in
shares by what the epoch counts and less than one for each LP but one. These two are
pure arithmetic, and the rest of the two theorems adds one row to a sum.

The review routes. `TypeInv` is `KybTypeOK` with the fact that a call past a step
has what that step read (`CallsOK`). Each property is then about calls in flight as
much as about tables, and each strengthening says what a call is owed or has earned:
`CallsWereScreened` (a call at the wallet screening has a clear entity on file, a
call at the update of an approval has both), `NonceInv` (the nonce of a call past it
is consumed, and no other call with that nonce is past it), the debt of an event
(`Owes`), and for the hits `Keeps` and `Carries`, the reviews and re-screenings a
hit may still be with when it is not yet queued. The final step is the same for
each: the runs and events only grow, a table row is written by one kind of step, and
that step takes its guard from the conditional update.

The feed. `StayInv` says that every row of the trail, and every row a call has read
and not yet inserted, is a log of a block that is already final; the logs of a range
of blocks are then a function of the final prefix alone (`LogsOf`, `SameUpTo`), and
no reorganisation reaches them. `MirrorInv` adds what a call may rely on: the blocks
below the chunk it holds are mirrored, and the insert mirrors or reports the chunk,
so that whatever cursor it sets passes mirrored blocks only, even when another call
has set a later one meanwhile. Where a scan has no cursor, the blocks below its start
are accounted for by `skipped` (`CursorSkips`), and `SkippedOld` says that what is
skipped was more than `Window` blocks below the final ones at that time, and so is for
ever after.

That an assessed claim gains no draft is a statement about one step. A run that reads the
assessments takes up no assessed claim; one that does not raises `blind`. A run that
stores a draft drops the claim from its work in the same step, because a claim is
submitted once on the chain and so has one row (`RowsAreSingle`): `drafted` grows by one
and `Drafting` loses that run, and the sum stays. No other step touches either
(`GainsNoDrafts` and the lemmas after it).

The lending market. `MarketInv` is the three properties together, since each needs
the others: a loan is checked against the books, and only `CashIsUnlent` makes that a
check against the USDC it is paid from, which the types need; and a write-off takes
as much off the suppliers' book as off the borrowers', which is floored at zero in
the source and never reaches the floor because cash is never negative. `NoNakedDebt`
rests on rounding: a debt of any shares is rounded up to at least one unit
(`RoundedUpIsSome`), no collateral is worth nothing, and so no position without
collateral passes a health check (`HealthNeedsCollateral`).

The price of a supply share is a quotient, compared by its products (`NoLower`),
which makes the comparison transitive (`PricesChain`). A call is then two moves, its
accrual and its own: interest raises assets, the protocol's fee issues shares for a
part of that interest, at the price the rest leaves, and rounds down
(`InterestIsFair`, `AccrualIsFair`), and issuing and burning at the current price
never lower it (`IssueIsFair`, `BurnIsFair`). What is left is a liquidation, which
costs only what it writes off (`LiquidateCosts`).

Only model-checked: liveness (`ApprovedClaimsSettle`, `RequestsAreServed`). Both
need fairness, and with it ENABLED, which the provers at hand do not handle. The
runs that expect a violation are TLC's as well.

## 5. Plan

Done: the registries, the vault, the claim path, the queue, the refinement of the
claim ledger, the review routes, the audit feed, the lending market, and the
theorems above.

Next, in this order:

1. `NavOracle` under the lending market, in place of its free `price`: the deviation
   guard, the pause and the one-shot waiver; staleness on the block clock.
2. `VaultAllocator` over the vault's capacity: expiry against execution, split
   legs, concentration limits at execution and the passive breach.
3. `PremiumDistributor`: conservation of the split, dust premiums.
4. `BordereauOracle`: nothing challenged becomes final before its resolution;
   what "latest" means.
5. `notifications/refresh`: the high-water mark advances past a notification
   whose insert failed (`route.ts:252`), and two runs may notify twice.
6. `ComplianceRegistry` as a module of its own (KYC expiry on the block clock),
   composed with the queue and the vault in place of `standing` and `compliance`.
7. The bindings (`setClaimManager`, factories, roles, timelock) and
   `AdapterRegistry`.
8. The queue over the vault proper: `buffer` refined by `_availableBuffer`.

To prove next: an abstract specification of what the queue promises an LP (what is
requested is paid once, at one price, or still held) with the queue shown to
implement it, and the same for the audit trail.

## 6. Not modelled

`NextBlockLens` (views only), the mocks, `LendingMarketFactory` (a list for
display), the deployment scripts (run once), the subgraph indexer and the simulation
(nothing trusts them), pages and read-only routes (they keep no state), the stores
of notifications, bordereaux, intake and evidence (see the plan for the first; the
others are single writes whose readers are people). The contracts of the plan above
are not modelled yet.
