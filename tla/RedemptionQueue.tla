-------------------------- MODULE RedemptionQueue --------------------------
(***************************************************************************)
(* RedemptionQueue.sol: LPs escrow vault shares into the open epoch, the   *)
(* keeper settles the epoch pro rata with whatever the vault can redeem,   *)
(* and each LP claims its USDC and what was not redeemed.                  *)
(*                                                                         *)
(* Of the vault the queue sees the share token, maxRedeem() and redeem();  *)
(* of the compliance registry it sees which share transfers revert.  Those *)
(* are the external part of the model: the vault's free buffer and the LPs' *)
(* eligibility change at any time, and a redemption pays any of Prices.    *)
(***************************************************************************)
EXTENDS BlockClock, FiniteSets, Functions

CONSTANTS LPs,
          InitialShares,       \* bound: the shares each LP starts with
          RequestSizes,        \* the sizes of a request
          EPOCH_FLOOR, EPOCH_CEILING, InitialDuration,
          MaxEpochs,           \* bound: the epochs a run settles
          Prices, PRICE_UNIT,  \* USDC a redeemed share pays: p / PRICE_UNIT
          Eligibilities,       \* the compliance states LPs move between
          StrayTransfers       \* whether an LP may send shares by mistake

ASSUME QueueAssumption ==
    /\ InitialShares \in Nat
    /\ RequestSizes \subseteq Nat \ {0}
    /\ EPOCH_FLOOR \in Nat \ {0}
    /\ EPOCH_CEILING \in Nat
    /\ InitialDuration \in EPOCH_FLOOR..EPOCH_CEILING
    /\ MaxEpochs \in Nat
    /\ Prices \subseteq Nat
    /\ PRICE_UNIT \in Nat \ {0}
    /\ Eligibilities \subseteq {"eligible", "delisted", "blocked"}
    /\ StrayTransfers \in BOOLEAN
    /\ IsFiniteSet(LPs) /\ "queue" \notin LPs

VARIABLES epochDuration, paused, currentEpochId, currentEpochStart,
          epochs,              \* epochs[e]: the accounting of epoch e
          sharesRequested,     \* sharesRequested[e][lp]
          claimed,             \* claimed[e][lp]
          escrowedShares,
          shares,              \* the share token's balances
          queueUsdc,           \* the queue's USDC balance
          buffer,              \* the shares the vault could redeem now
          compliance           \* compliance[lp]

config     == <<epochDuration, paused>>
openEpoch  == <<currentEpochId, currentEpochStart>>
accounting == <<epochs, sharesRequested, claimed, escrowedShares>>
world      == <<buffer, compliance>>
vars == <<blockTime, config, openEpoch, accounting, shares, queueUsdc, world>>

Queue       == "queue"
Epochs      == 0..MaxEpochs
TotalShares == InitialShares * Cardinality(LPs)

Epoch == [totalSharesRequested : Nat, settledShares : Nat,
          settledAssets : Nat, settledAt : Nat, settled : BOOLEAN]

NoEpoch == [totalSharesRequested |-> 0, settledShares |-> 0,
            settledAssets |-> 0, settledAt |-> 0, settled |-> FALSE]

QueueTypeOK ==
    /\ blockTime \in BlockTimes
    /\ epochDuration \in EPOCH_FLOOR..EPOCH_CEILING
    /\ paused \in BOOLEAN
    /\ currentEpochId \in Epochs
    /\ currentEpochStart \in BlockTimes
    /\ epochs \in [Epochs -> Epoch]
    /\ sharesRequested \in [Epochs -> [LPs -> Nat]]
    /\ claimed \in [Epochs -> [LPs -> BOOLEAN]]
    /\ escrowedShares \in Nat
    /\ shares \in [LPs \cup {Queue} -> Nat]
    /\ queueUsdc \in Nat
    /\ buffer \in 0..TotalShares
    /\ compliance \in [LPs -> {"eligible", "delisted", "blocked"}]

Init ==
    /\ FirstBlock
    /\ epochDuration = InitialDuration
    /\ paused = FALSE
    /\ currentEpochId = 0
    /\ currentEpochStart = blockTime
    /\ epochs = [e \in Epochs |-> NoEpoch]
    /\ sharesRequested = [e \in Epochs |-> [lp \in LPs |-> 0]]
    /\ claimed = [e \in Epochs |-> [lp \in LPs |-> FALSE]]
    /\ escrowedShares = 0
    /\ shares = [a \in LPs \cup {Queue} |-> IF a = Queue THEN 0 ELSE InitialShares]
    /\ queueUsdc = 0
    /\ buffer = 0
    /\ compliance = [lp \in LPs |-> "eligible"]

Least(a, b) == IF a <= b THEN a ELSE b
MaturesAt   == currentEpochStart + epochDuration

-----------------------------------------------------------------------------
\* The vault's share token: transfer() under the compliance gate of _update().
CanSend(lp)    == compliance[lp] # "blocked"
CanReceive(lp) == compliance[lp] = "eligible"

MoveShares(from, to, amount) ==
    /\ amount <= shares[from]
    /\ shares' = [shares EXCEPT ![from] = @ - amount, ![to] = @ + amount]

RequestRedemption(lp, amount) ==
    /\ ~paused
    /\ CanSend(lp)
    /\ MoveShares(lp, Queue, amount)
    /\ sharesRequested' = [sharesRequested EXCEPT ![currentEpochId][lp] = @ + amount]
    /\ epochs' = [epochs EXCEPT ![currentEpochId].totalSharesRequested = @ + amount]
    /\ escrowedShares' = escrowedShares + amount
    /\ UNCHANGED <<blockTime, config, openEpoch, claimed, queueUsdc, world>>

-----------------------------------------------------------------------------
\* vault.maxRedeem(queue): what the queue holds, up to the vault's buffer.
MaxRedeem == Least(shares[Queue], buffer)

Settleable == Least(MaxRedeem, epochs[currentEpochId].totalSharesRequested)

\* Mutant: the fresh epoch does not restart the notice period.
OpenNextEpochUnclocked ==
    /\ currentEpochId' = currentEpochId + 1
    /\ UNCHANGED currentEpochStart

\* Mutant: the settled epoch stays open.
OpenNextEpochInPlace ==
    /\ currentEpochId' = currentEpochId
    /\ currentEpochStart' = blockTime

OpenNextEpoch ==
    /\ currentEpochId' = currentEpochId + 1
    /\ currentEpochStart' = blockTime

\* The vault redeems what it can at the price of the moment; escrow is what is
\* left in escrow after it.
SettleOpenEpoch(price, escrow) ==
    LET assets == (Settleable * price) \div PRICE_UNIT
    IN  /\ ~paused
        /\ currentEpochId < MaxEpochs
        /\ ~epochs[currentEpochId].settled
        /\ blockTime >= MaturesAt
        /\ epochs' = [epochs EXCEPT ![currentEpochId] =
                        [@ EXCEPT !.settledShares = Settleable,
                                  !.settledAssets = assets,
                                  !.settledAt = blockTime,
                                  !.settled = TRUE]]
        /\ escrowedShares' = escrow
        /\ shares' = [shares EXCEPT ![Queue] = @ - Settleable]
        /\ queueUsdc' = queueUsdc + assets
        /\ buffer' = buffer - Settleable
        /\ OpenNextEpoch
        /\ UNCHANGED <<blockTime, config, sharesRequested, claimed, compliance>>

\* Mutants: the redeemed shares stay in the escrow count; their subtraction is
\* not checked; an epoch nothing can be redeemed for does not settle.
SettleKeepingEscrow(price) == SettleOpenEpoch(price, escrowedShares)
SettleUnchecked(price)     == SettleOpenEpoch(price, escrowedShares - Settleable)
SettleOnlyLiquid(price) ==
    /\ Settleable \in 1..escrowedShares
    /\ SettleOpenEpoch(price, escrowedShares - Settleable)

\* The subtraction from escrowedShares is checked: it reverts on underflow.
SettleEpoch(price) ==
    /\ Settleable <= escrowedShares
    /\ SettleOpenEpoch(price, escrowedShares - Settleable)

-----------------------------------------------------------------------------
\* What lp gets of epoch e, both rounded down: the shares settled for it and
\* the USDC of those shares.
UserSettledShares(e, lp) ==
    (sharesRequested[e][lp] * epochs[e].settledShares)
        \div epochs[e].totalSharesRequested

\* Mutant: rounded up.
AssetsDueRoundedUp(e, lp) ==
    IF UserSettledShares(e, lp) = 0 THEN 0
    ELSE (UserSettledShares(e, lp) * epochs[e].settledAssets
            + epochs[e].settledShares - 1) \div epochs[e].settledShares

AssetsDue(e, lp) ==
    IF UserSettledShares(e, lp) = 0 THEN 0
    ELSE (UserSettledShares(e, lp) * epochs[e].settledAssets)
            \div epochs[e].settledShares

\* Mutant: the whole request is returned.
SharesDueInFull(e, lp) == sharesRequested[e][lp]

SharesDue(e, lp) == sharesRequested[e][lp] - UserSettledShares(e, lp)

Unclaimed(e, lp) ==
    /\ epochs[e].settled
    /\ ~claimed[e][lp]
    /\ sharesRequested[e][lp] > 0

\* Mutant: pausing the queue pauses claims too.
ClaimUnlessPaused(e, lp) ==
    LET returned == Least(SharesDue(e, lp), escrowedShares)
    IN  /\ ~paused
        /\ Unclaimed(e, lp)
        /\ SharesDue(e, lp) > 0 => CanReceive(lp)
        /\ AssetsDue(e, lp) <= queueUsdc
        /\ claimed' = [claimed EXCEPT ![e][lp] = TRUE]
        /\ queueUsdc' = queueUsdc - AssetsDue(e, lp)
        /\ escrowedShares' = escrowedShares - returned
        /\ MoveShares(Queue, lp, returned)
        /\ UNCHANGED <<blockTime, config, openEpoch, epochs, sharesRequested,
                       world>>

\* Both transfers are in one call: if the shares cannot go back, neither does
\* the USDC.
Claim(e, lp) ==
    LET returned == Least(SharesDue(e, lp), escrowedShares)
    IN  /\ Unclaimed(e, lp)
        /\ SharesDue(e, lp) > 0 => CanReceive(lp)
        /\ AssetsDue(e, lp) <= queueUsdc
        /\ claimed' = [claimed EXCEPT ![e][lp] = TRUE]
        /\ queueUsdc' = queueUsdc - AssetsDue(e, lp)
        /\ escrowedShares' = escrowedShares - returned
        /\ MoveShares(Queue, lp, returned)
        /\ UNCHANGED <<blockTime, config, openEpoch, epochs, sharesRequested,
                       world>>

-----------------------------------------------------------------------------
SetEpochDuration(duration) ==
    /\ duration \in EPOCH_FLOOR..EPOCH_CEILING
    /\ epochDuration' = duration
    /\ UNCHANGED <<blockTime, paused, openEpoch, accounting, shares, queueUsdc,
                   world>>

SetPaused(value) ==
    /\ paused' = value
    /\ UNCHANGED <<blockTime, epochDuration, openEpoch, accounting, shares,
                   queueUsdc, world>>

\* The vault's liquidity and the registry's records move on their own.
BufferMoves ==
    /\ buffer' \in 0..TotalShares
    /\ UNCHANGED <<blockTime, config, openEpoch, accounting, shares, queueUsdc,
                   compliance>>

ComplianceMoves(lp, state) ==
    /\ compliance' = [compliance EXCEPT ![lp] = state]
    /\ UNCHANGED <<blockTime, config, openEpoch, accounting, shares, queueUsdc,
                   buffer>>

\* A plain transfer of shares to the queue, which is an approved venue.
StrayTransfer(lp) ==
    /\ StrayTransfers
    /\ CanSend(lp)
    /\ MoveShares(lp, Queue, 1)
    /\ UNCHANGED <<blockTime, config, openEpoch, accounting, queueUsdc, world>>

TimePasses ==
    /\ Tick
    /\ UNCHANGED <<config, openEpoch, accounting, shares, queueUsdc, world>>

-----------------------------------------------------------------------------
Settle == \E price \in Prices : SettleEpoch(price)

LPStep(lp) ==
    \/ \E amount \in RequestSizes : RequestRedemption(lp, amount)
    \/ \E e \in Epochs : Claim(e, lp)
    \/ StrayTransfer(lp)

Next ==
    \/ \E lp \in LPs : LPStep(lp)
    \/ Settle
    \/ \E duration \in EPOCH_FLOOR..EPOCH_CEILING : SetEpochDuration(duration)
    \/ \E value \in BOOLEAN : SetPaused(value)
    \/ BufferMoves
    \/ \E lp \in LPs, state \in Eligibilities : ComplianceMoves(lp, state)
    \/ TimePasses

Spec == Init /\ [][Next]_vars

\* RedemptionKeeper.s.sol leaves an empty epoch open.
KeeperSettles == epochs[currentEpochId].totalSharesRequested > 0 /\ Settle

\* Blocks keep coming, and the keeper settles what is due sooner or later: it
\* runs again and again, so a pause between two runs does not stop it.
KeeperSpec == Spec /\ WF_vars(TimePasses) /\ SF_vars(KeeperSettles)

\* Besides, an LP that can claim again and again does.
FairSpec == KeeperSpec /\ \A e \in Epochs, lp \in LPs : SF_vars(Claim(e, lp))

-----------------------------------------------------------------------------
Sum(f) == SumFunction(f)
Requests == Epochs \X LPs

\* What the queue still owes: the claims of settled epochs, and all of the
\* open epoch's requests.
OwedAssets == Sum([r \in Requests |->
                     IF Unclaimed(r[1], r[2]) THEN AssetsDue(r[1], r[2]) ELSE 0])
OwedShares == Sum([r \in Requests |->
                     IF Unclaimed(r[1], r[2]) THEN SharesDue(r[1], r[2]) ELSE 0])
                + epochs[currentEpochId].totalSharesRequested

\* claim() never runs out of USDC: whatever the order of the claims, across
\* epochs settled at different prices, what is left covers every claim to come.
UsdcCoversClaims == OwedAssets <= queueUsdc

\* The shares the queue counts as escrowed are in its custody, so the transfer
\* that ends claim() cannot fail for want of shares.
CustodyCoversEscrow == escrowedShares <= shares[Queue]

Requesters(e) == {lp \in LPs : sharesRequested[e][lp] > 0}
DustOf(e) == IF epochs[e].settled /\ Requesters(e) # {}
             THEN Cardinality(Requesters(e)) - 1 ELSE 0

\* The pro-rata rounding of claim() over-promises less than one share per
\* further LP of each settled epoch, and nothing else escapes the escrow count.
DustIsBounded == OwedShares <= escrowedShares + Sum([e \in Epochs |-> DustOf(e)])

\* Settlement is final: later requests, settlements and claims leave what every
\* LP of a settled epoch has coming untouched.
SettledEpochsFinal ==
    [][ \A e \in Epochs : epochs[e].settled =>
          /\ epochs'[e] = epochs[e]
          /\ sharesRequested'[e] = sharesRequested[e] ]_vars

\* Successive settlements are at least EPOCH_FLOOR apart, however the owner moves
\* the duration and the Sentinel the pause in between.
SettlementsAreSpaced ==
    \A e \in Epochs : e + 1 \in Epochs /\ epochs[e + 1].settled =>
        epochs[e].settledAt + EPOCH_FLOOR <= epochs[e + 1].settledAt

\* "Claims of already-settled epochs remain available" under a pause: an LP that
\* stays eligible gets its claim.
ClaimsSurvivePause ==
    \A e \in Epochs, lp \in LPs :
        Unclaimed(e, lp) ~> (claimed[e][lp] \/ ~CanReceive(lp))

\* "Nothing is silently locked forever": a requested epoch that can mature within
\* the run's clock is settled, unless the Sentinel keeps the queue paused.  A share
\* sent to the queue by mistake breaks it: the keeper then redeems shares that
\* rounding dust has taken out of escrowedShares, and the subtraction reverts.
MaturingRequest(e) ==
    /\ e = currentEpochId
    /\ e < MaxEpochs
    /\ MaturesAt <= MaxBlockTime
    /\ epochs[e].totalSharesRequested > 0

RequestsSettle ==
    ([]<>~paused) => \A e \in Epochs : MaturingRequest(e) ~> epochs[e].settled

\* From the request to the payment: what matures is settled, what is settled is paid.
RequestsAreServed == RequestsSettle /\ ClaimsSurvivePause

-----------------------------------------------------------------------------
\* What the documents say and the code does not do.

\* "Update the notice period for future epochs" (setEpochDuration()): the open
\* epoch's own maturity moves with it.
OpenEpochMaturityFixed ==
    [][ currentEpochId' = currentEpochId => MaturesAt' = MaturesAt ]_vars

\* "Notice period: minimum time a request waits before it can settle"
\* (epochDuration): a request joins an epoch that may already be mature.
RequestsGiveNotice ==
    [][ escrowedShares' > escrowedShares => MaturesAt >= blockTime + epochDuration ]_vars

\* "Cap to what's actually escrowed for this epoch" (claim()): the cap is the
\* escrow of all epochs, so rounding dust is taken from the open epoch.
OpenEpochStaysEscrowed ==
    epochs[currentEpochId].totalSharesRequested <= escrowedShares

\* "Nothing is silently locked forever" (RedemptionQueue.sol:24-25): an LP that lost
\* its eligibility cannot claim its USDC while any share would come back with it.
EveryClaimIsPaid ==
    \A e \in Epochs, lp \in LPs : Unclaimed(e, lp) ~> claimed[e][lp]
=============================================================================
