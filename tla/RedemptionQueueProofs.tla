------------------------ MODULE RedemptionQueueProofs ------------------------
(***************************************************************************)
(* Proofs about RedemptionQueue, for any number of LPs, epochs and shares, *)
(* any price, and any course of the vault's liquidity and of compliance.   *)
(***************************************************************************)
EXTENDS RedemptionQueue, SumFacts

USE DEF config, openEpoch, accounting, world, vars

-----------------------------------------------------------------------------
(***************************************************************************)
(* Arithmetic of a pro-rata split.                                         *)
(***************************************************************************)

LEMMA DivisionNat ==
    ASSUME NEW a \in Nat, NEW b \in Nat \ {0}
    PROVE  a \div b \in Nat
OBVIOUS

LEMMA ProductNat ==
    ASSUME NEW a \in Nat, NEW b \in Nat
    PROVE  a * b \in Nat
OBVIOUS

LEMMA ProductGrows ==
    ASSUME NEW a \in Nat, NEW s \in Nat, NEW t \in Nat, s <= t
    PROVE  a * s <= a * t
<1>1. t = s + (t - s) /\ t - s \in Nat
  OBVIOUS
<1>2. a * (s + (t - s)) = a * s + a * (t - s)
  OBVIOUS
<1>3. a * (t - s) \in Nat /\ a * s \in Nat
  BY <1>1, ProductNat
<1> QED BY <1>1, <1>2, <1>3

\* A share of at most the whole is at most what is split.
LEMMA SplitIsAtMost ==
    ASSUME NEW a \in Nat, NEW s \in Nat, NEW t \in Nat \ {0}, s <= t
    PROVE  (a * s) \div t <= a
<1>1. a * s <= a * t
  BY ProductGrows
<1> DEFINE p == a * s
           q == a * t
<1>2. p \in Nat /\ q \in Nat
  BY ProductNat
<1>3. p <= q
  BY <1>1
<1>4. p \div t \in Nat /\ t * (p \div t) <= p
  <2> HIDE DEF p, q
  <2> QED BY <1>2
<1>5. t * (p \div t) <= a * t
  BY <1>2, <1>3, <1>4, ProductNat
<1> HIDE DEF p, q
<1>6. SUFFICES ASSUME a < p \div t PROVE FALSE
  BY <1>4 DEF p
<1>7. t * (a + 1) <= t * (p \div t)
  BY <1>4, <1>6, ProductGrows
<1>8. t * (a + 1) = a * t + t
  OBVIOUS
<1>9. a * t \in Nat /\ t * (p \div t) \in Nat
  BY <1>4, ProductNat
<1> QED BY <1>5, <1>7, <1>8, <1>9

LEMMA LeastNat ==
    ASSUME NEW a \in Nat, NEW b \in Nat
    PROVE  /\ Least(a, b) \in Nat
           /\ Least(a, b) <= a
           /\ Least(a, b) <= b
BY DEF Least

-----------------------------------------------------------------------------
(***************************************************************************)
(* Types.  What a claim pays is a natural number because no LP requested   *)
(* more than its epoch counts, and no epoch settles more than it counts:   *)
(* the divisors of claim() are then positive where it divides.             *)
(***************************************************************************)

RequestsCounted ==
    \A e \in Epochs, lp \in LPs : sharesRequested[e][lp] <= epochs[e].totalSharesRequested

SettledWithinRequests ==
    \A e \in Epochs : epochs[e].settledShares <= epochs[e].totalSharesRequested

QueueInv == QueueTypeOK /\ RequestsCounted /\ SettledWithinRequests

LEMMA ConstantTypes ==
    /\ TotalShares \in Nat /\ InitialShares \in Nat /\ MaxEpochs \in Nat /\ MaxBlockTime \in Nat
    /\ EPOCH_FLOOR \in Nat /\ EPOCH_CEILING \in Nat /\ PRICE_UNIT \in Nat \ {0}
    /\ InitialDuration \in EPOCH_FLOOR..EPOCH_CEILING
    /\ Prices \subseteq Nat /\ RequestSizes \subseteq Nat \ {0}
    /\ Queue \notin LPs
<1>1. Cardinality(LPs) \in Nat
  BY QueueAssumption, FS_CardinalityType
<1>2. TotalShares \in Nat
  BY <1>1, QueueAssumption, ProductNat DEF TotalShares
<1> QED BY <1>2, QueueAssumption, MaxBlockTimeAssumption DEF Queue

\* The clock and the count of epochs are naturals.
LEMMA NumbersNat ==
    ASSUME QueueTypeOK
    PROVE  /\ blockTime \in Nat \ {0} /\ currentEpochStart \in Nat
           /\ epochDuration \in Nat /\ epochDuration >= EPOCH_FLOOR
           /\ currentEpochId \in Nat /\ buffer \in Nat /\ escrowedShares \in Nat
           /\ queueUsdc \in Nat /\ shares[Queue] \in Nat
BY ConstantTypes DEF QueueTypeOK, BlockTimes, Epochs

\* What a claim returns and pays is a natural number, and it returns no more than
\* was requested.
LEMMA ClaimAmounts ==
    ASSUME QueueInv, NEW e \in Epochs, NEW lp \in LPs, sharesRequested[e][lp] > 0
    PROVE  /\ UserSettledShares(e, lp) \in Nat
           /\ SharesDue(e, lp) \in Nat
           /\ AssetsDue(e, lp) \in Nat
<1> DEFINE requested == sharesRequested[e][lp]
           total == epochs[e].totalSharesRequested
           settled == epochs[e].settledShares
           assets == epochs[e].settledAssets
<1>1. /\ requested \in Nat /\ total \in Nat /\ settled \in Nat /\ assets \in Nat
      /\ requested <= total /\ settled <= total /\ requested > 0
  BY DEF QueueInv, QueueTypeOK, RequestsCounted, SettledWithinRequests, Epoch
<1>2. UserSettledShares(e, lp) = (requested * settled) \div total
  BY DEF UserSettledShares
<1> HIDE DEF requested, total, settled, assets
<1>3. total \in Nat \ {0}
  BY <1>1
<1>4. UserSettledShares(e, lp) \in Nat
  BY <1>1, <1>2, <1>3, ProductNat, DivisionNat
<1>5. UserSettledShares(e, lp) <= requested
  BY <1>1, <1>2, <1>3, SplitIsAtMost
<1>6. SharesDue(e, lp) \in Nat
  BY <1>1, <1>4, <1>5 DEF SharesDue, requested
<1>7. AssetsDue(e, lp) \in Nat
  <2>1. CASE UserSettledShares(e, lp) = 0
    BY <2>1 DEF AssetsDue
  <2>2. CASE UserSettledShares(e, lp) # 0
    <3>1. settled # 0
      <4>1. SUFFICES ASSUME settled = 0 PROVE FALSE
        OBVIOUS
      <4>2. requested * settled = 0
        BY <1>1, <4>1
      <4>3. 0 \div total = 0
        BY <1>3
      <4> QED BY <1>2, <2>2, <4>2, <4>3
    <3>2. settled \in Nat \ {0}
      BY <1>1, <3>1
    <3>3. (UserSettledShares(e, lp) * assets) \div settled \in Nat
      BY <1>1, <1>4, <3>2, ProductNat, DivisionNat
    <3> QED BY <2>2, <3>3 DEF AssetsDue, assets, settled
  <2> QED BY <2>1, <2>2
<1> QED BY <1>4, <1>6, <1>7

\* A settlement redeems no more than the queue holds, the vault has and the epoch
\* counts.
LEMMA SettleableBounds ==
    ASSUME QueueTypeOK
    PROVE  /\ Settleable \in Nat
           /\ Settleable <= shares[Queue]
           /\ Settleable <= buffer
           /\ Settleable <= epochs[currentEpochId].totalSharesRequested
<1>1. epochs[currentEpochId].totalSharesRequested \in Nat
  BY DEF QueueTypeOK, Epoch
<1>2. /\ MaxRedeem \in Nat
      /\ MaxRedeem <= shares[Queue]
      /\ MaxRedeem <= buffer
  BY NumbersNat, LeastNat DEF MaxRedeem
<1>3. /\ Settleable \in Nat
      /\ Settleable <= MaxRedeem
      /\ Settleable <= epochs[currentEpochId].totalSharesRequested
  BY <1>1, <1>2, LeastNat DEF Settleable
<1> QED BY <1>2, <1>3, NumbersNat

\* A transfer moves an amount from one balance to another.
LEMMA MovedShares ==
    ASSUME QueueTypeOK, NEW from \in LPs \cup {Queue}, NEW to \in LPs \cup {Queue}, from # to,
           NEW amount \in Nat, MoveShares(from, to, amount)
    PROVE  /\ shares' \in [LPs \cup {Queue} -> Nat]
           /\ shares'[from] = shares[from] - amount
           /\ shares'[to] = shares[to] + amount
BY DEF QueueTypeOK, MoveShares

LEMMA InitTypes == Init => QueueInv
<1> SUFFICES ASSUME Init PROVE QueueInv
  OBVIOUS
<1>1. blockTime \in BlockTimes /\ currentEpochStart \in BlockTimes
  <2>1. blockTime = 1 /\ currentEpochStart = 1
    BY DEF Init, FirstBlock
  <2> QED BY <2>1, MaxBlockTimeAssumption DEF BlockTimes
<1>2. NoEpoch \in Epoch
  BY DEF NoEpoch, Epoch
<1>3. epochs \in [Epochs -> Epoch] /\ \A e \in Epochs : epochs[e] = NoEpoch
  BY <1>2 DEF Init
<1>4. shares \in [LPs \cup {Queue} -> Nat]
  BY ConstantTypes DEF Init
<1>5. QueueTypeOK
  <2>1. 0 \in Epochs /\ 0 \in 0..TotalShares
    BY ConstantTypes DEF Epochs
  <2>2. /\ sharesRequested \in [Epochs -> [LPs -> Nat]]
        /\ claimed \in [Epochs -> [LPs -> BOOLEAN]]
        /\ compliance \in [LPs -> {"eligible", "delisted", "blocked"}]
    BY DEF Init
  <2>3. /\ epochDuration \in EPOCH_FLOOR..EPOCH_CEILING
        /\ paused \in BOOLEAN
        /\ currentEpochId \in Epochs
        /\ escrowedShares \in Nat /\ queueUsdc \in Nat
        /\ buffer \in 0..TotalShares
    BY <2>1, ConstantTypes DEF Init
  <2> QED BY <1>1, <1>3, <1>4, <2>2, <2>3 DEF QueueTypeOK
<1>6. RequestsCounted /\ SettledWithinRequests
  BY <1>3 DEF Init, RequestsCounted, SettledWithinRequests, NoEpoch
<1> QED BY <1>5, <1>6 DEF QueueInv

LEMMA RequestTypes ==
    ASSUME QueueInv, NEW lp \in LPs, NEW amount \in RequestSizes, RequestRedemption(lp, amount)
    PROVE  QueueInv'
<1> DEFINE e == currentEpochId
           total == epochs[e].totalSharesRequested
           requested == sharesRequested[e][lp]
<1>0. /\ QueueTypeOK /\ RequestsCounted /\ SettledWithinRequests
      /\ e \in Epochs /\ amount \in Nat
      /\ epochs \in [Epochs -> Epoch]
      /\ sharesRequested \in [Epochs -> [LPs -> Nat]]
      /\ epochs[e] \in Epoch /\ total \in Nat /\ requested \in Nat
  BY ConstantTypes DEF QueueInv, QueueTypeOK, Epoch
<1>1. /\ epochs' = [epochs EXCEPT ![e].totalSharesRequested = @ + amount]
      /\ sharesRequested' = [sharesRequested EXCEPT ![e][lp] = @ + amount]
  BY DEF RequestRedemption
<1>2. /\ epochs'[e] = [epochs[e] EXCEPT !.totalSharesRequested = @ + amount]
      /\ \A d \in Epochs \ {e} : epochs'[d] = epochs[d]
      /\ DOMAIN epochs' = Epochs /\ epochs' = [d \in Epochs |-> epochs'[d]]
  BY <1>0, <1>1
<1>3. /\ epochs'[e] \in Epoch
      /\ epochs'[e].totalSharesRequested = total + amount
      /\ epochs'[e].settledShares = epochs[e].settledShares
  BY <1>0, <1>2 DEF Epoch
<1>4. epochs' \in [Epochs -> Epoch]
  BY <1>0, <1>2, <1>3
<1>5. /\ sharesRequested' \in [Epochs -> [LPs -> Nat]]
      /\ sharesRequested'[e][lp] = requested + amount
      /\ \A d \in Epochs, q \in LPs : d # e \/ q # lp =>
            sharesRequested'[d][q] = sharesRequested[d][q]
  BY <1>0, <1>1
<1>6. shares' \in [LPs \cup {Queue} -> Nat]
  BY <1>0, ConstantTypes, MovedShares DEF RequestRedemption
<1>7. QueueTypeOK'
  BY <1>0, <1>4, <1>5, <1>6 DEF RequestRedemption, QueueTypeOK, BlockTimes
<1>8. RequestsCounted'
  <2> SUFFICES ASSUME NEW d \in Epochs, NEW q \in LPs
               PROVE  sharesRequested'[d][q] <= epochs'[d].totalSharesRequested
    BY DEF RequestsCounted
  <2>1. sharesRequested[d][q] <= epochs[d].totalSharesRequested
    BY <1>0 DEF RequestsCounted
  <2>2. sharesRequested[d][q] \in Nat
    BY <1>0
  <2> HIDE DEF total, requested
  <2>3. CASE d # e
    BY <1>2, <1>5, <2>1, <2>3
  <2>4. CASE d = e /\ q # lp
    BY <1>0, <1>3, <1>5, <2>1, <2>2, <2>4 DEF total
  <2>5. CASE d = e /\ q = lp
    BY <1>0, <1>3, <1>5, <2>1, <2>5 DEF total, requested
  <2> QED BY <2>3, <2>4, <2>5
<1>9. SettledWithinRequests'
  <2> SUFFICES ASSUME NEW d \in Epochs
               PROVE  epochs'[d].settledShares <= epochs'[d].totalSharesRequested
    BY DEF SettledWithinRequests
  <2>1. epochs[d].settledShares <= epochs[d].totalSharesRequested /\ epochs[d].settledShares \in Nat
    BY <1>0 DEF SettledWithinRequests, Epoch
  <2>2. CASE d # e
    BY <1>2, <2>1, <2>2
  <2>3. CASE d = e
    BY <1>0, <1>3, <2>1, <2>3
  <2> QED BY <2>2, <2>3
<1> QED BY <1>7, <1>8, <1>9 DEF QueueInv

LEMMA SettleTypes ==
    ASSUME QueueInv, NEW price \in Prices, SettleEpoch(price)
    PROVE  QueueInv'
<1> DEFINE e == currentEpochId
           assets == (Settleable * price) \div PRICE_UNIT
           new == [epochs[e] EXCEPT !.settledShares = Settleable, !.settledAssets = assets,
                                    !.settledAt = blockTime, !.settled = TRUE]
<1>0. /\ QueueTypeOK /\ RequestsCounted /\ SettledWithinRequests
      /\ e \in Epochs /\ epochs[e] \in Epoch
      /\ epochs \in [Epochs -> Epoch]
      /\ price \in Nat
  BY ConstantTypes DEF QueueInv, QueueTypeOK
<1>1. assets \in Nat
  BY <1>0, SettleableBounds, ProductNat, DivisionNat, ConstantTypes
<1>2. /\ epochs' = [epochs EXCEPT ![e] = new]
      /\ Settleable <= escrowedShares
      /\ escrowedShares' = escrowedShares - Settleable
      /\ shares' = [shares EXCEPT ![Queue] = @ - Settleable]
      /\ queueUsdc' = queueUsdc + assets
      /\ buffer' = buffer - Settleable
      /\ currentEpochId < MaxEpochs
      /\ currentEpochId' = currentEpochId + 1
      /\ currentEpochStart' = blockTime
      /\ UNCHANGED <<blockTime, config, sharesRequested, claimed, compliance>>
  BY DEF SettleEpoch, SettleOpenEpoch, OpenNextEpoch
<1> HIDE DEF assets
<1>3. /\ new \in Epoch
      /\ new.settledShares = Settleable
      /\ new.totalSharesRequested = epochs[e].totalSharesRequested
  BY <1>0, <1>1, SettleableBounds, NumbersNat DEF Epoch
<1> HIDE DEF new
<1>4. /\ epochs' \in [Epochs -> Epoch]
      /\ epochs'[e] = new
      /\ \A d \in Epochs \ {e} : epochs'[d] = epochs[d]
  BY <1>0, <1>2, <1>3
<1>5. shares' \in [LPs \cup {Queue} -> Nat]
  BY <1>0, <1>2, SettleableBounds, NumbersNat DEF QueueTypeOK
<1>6. currentEpochId' \in Epochs
  BY <1>0, <1>2, NumbersNat, ConstantTypes DEF Epochs
<1>7. buffer' \in 0..TotalShares
  BY <1>0, <1>2, SettleableBounds, ConstantTypes DEF QueueTypeOK
<1>8. escrowedShares' \in Nat /\ queueUsdc' \in Nat
  BY <1>0, <1>1, <1>2, SettleableBounds, NumbersNat
<1>9. QueueTypeOK'
  BY <1>0, <1>2, <1>4, <1>5, <1>6, <1>7, <1>8 DEF QueueTypeOK, BlockTimes
<1>10. RequestsCounted' /\ SettledWithinRequests'
  BY <1>0, <1>2, <1>3, <1>4, SettleableBounds DEF RequestsCounted, SettledWithinRequests
<1> QED BY <1>9, <1>10 DEF QueueInv

LEMMA ClaimTypes ==
    ASSUME QueueInv, NEW e \in Epochs, NEW lp \in LPs, Claim(e, lp)
    PROVE  QueueInv'
<1> DEFINE returned == Least(SharesDue(e, lp), escrowedShares)
<1>0. QueueTypeOK /\ RequestsCounted /\ SettledWithinRequests
  BY DEF QueueInv
<1>1. AssetsDue(e, lp) \in Nat /\ SharesDue(e, lp) \in Nat
  BY ClaimAmounts DEF Claim, Unclaimed
<1>2. returned \in Nat /\ returned <= escrowedShares
  BY <1>0, <1>1, NumbersNat, LeastNat
<1>3. /\ AssetsDue(e, lp) <= queueUsdc
      /\ claimed' = [claimed EXCEPT ![e][lp] = TRUE]
      /\ queueUsdc' = queueUsdc - AssetsDue(e, lp)
      /\ escrowedShares' = escrowedShares - returned
      /\ MoveShares(Queue, lp, returned)
      /\ UNCHANGED <<blockTime, config, openEpoch, epochs, sharesRequested, world>>
  BY DEF Claim
<1> HIDE DEF returned
<1>4. shares' \in [LPs \cup {Queue} -> Nat]
  BY <1>0, <1>2, <1>3, ConstantTypes, MovedShares
<1>5. queueUsdc' \in Nat /\ escrowedShares' \in Nat
  BY <1>0, <1>1, <1>2, <1>3, NumbersNat
<1>6. claimed' \in [Epochs -> [LPs -> BOOLEAN]]
  BY <1>0, <1>3 DEF QueueTypeOK
<1>7. QueueTypeOK'
  BY <1>0, <1>3, <1>4, <1>5, <1>6 DEF QueueTypeOK, BlockTimes
<1>8. RequestsCounted' /\ SettledWithinRequests'
  BY <1>0, <1>3 DEF RequestsCounted, SettledWithinRequests
<1> QED BY <1>7, <1>8 DEF QueueInv

LEMMA StepTypes == QueueInv /\ [Next]_vars => QueueInv'
<1> SUFFICES ASSUME QueueInv, [Next]_vars PROVE QueueInv'
  OBVIOUS
<1>0. QueueTypeOK /\ RequestsCounted /\ SettledWithinRequests
  BY DEF QueueInv
<1>1. ASSUME NEW lp \in LPs, StrayTransfer(lp) PROVE QueueInv'
  <2>1. shares' \in [LPs \cup {Queue} -> Nat]
    BY <1>0, <1>1, ConstantTypes, MovedShares DEF StrayTransfer
  <2>2. QueueTypeOK'
    BY <1>0, <1>1, <2>1 DEF StrayTransfer, QueueTypeOK, BlockTimes
  <2> QED BY <1>0, <1>1, <2>2 DEF StrayTransfer, QueueInv, RequestsCounted, SettledWithinRequests
<1>2. ASSUME NEW lp \in LPs, LPStep(lp) PROVE QueueInv'
  BY <1>1, <1>2, RequestTypes, ClaimTypes DEF LPStep
<1>3. ASSUME Settle PROVE QueueInv'
  BY <1>3, SettleTypes DEF Settle
<1>4. ASSUME \/ \E duration \in EPOCH_FLOOR..EPOCH_CEILING : SetEpochDuration(duration)
             \/ \E value \in BOOLEAN : SetPaused(value)
             \/ BufferMoves
             \/ UNCHANGED vars
      PROVE  QueueInv'
  <2>1. QueueTypeOK'
    BY <1>0, <1>4 DEF SetEpochDuration, SetPaused, BufferMoves, QueueTypeOK, BlockTimes
  <2> QED BY <1>0, <1>4, <2>1
      DEF SetEpochDuration, SetPaused, BufferMoves, QueueInv, RequestsCounted, SettledWithinRequests
<1>5. ASSUME NEW lp \in LPs, NEW state \in Eligibilities, ComplianceMoves(lp, state)
      PROVE  QueueInv'
  <2>1. state \in {"eligible", "delisted", "blocked"}
    BY QueueAssumption
  <2>2. QueueTypeOK'
    BY <1>0, <1>5, <2>1 DEF ComplianceMoves, QueueTypeOK, BlockTimes
  <2> QED BY <1>0, <1>5, <2>2 DEF ComplianceMoves, QueueInv, RequestsCounted, SettledWithinRequests
<1>6. ASSUME TimePasses PROVE QueueInv'
  <2>1. blockTime' \in BlockTimes
    BY <1>0, <1>6, ConstantTypes DEF TimePasses, Tick, QueueTypeOK, BlockTimes
  <2>2. QueueTypeOK'
    BY <1>0, <1>6, <2>1 DEF TimePasses, QueueTypeOK, BlockTimes
  <2> QED BY <1>0, <1>6, <2>2 DEF TimePasses, QueueInv, RequestsCounted, SettledWithinRequests
<1> QED BY <1>2, <1>3, <1>4, <1>5, <1>6 DEF Next

LEMMA InvHolds == Spec => []QueueInv
BY InitTypes, StepTypes, PTL DEF Spec

\* Every state of the queue is well typed: no subtraction of claim() or
\* settleEpoch() takes a balance, the escrow count or a request below zero.
THEOREM QueueTypesHold == Spec => []QueueTypeOK
<1>1. QueueInv => QueueTypeOK
  BY DEF QueueInv
<1> QED BY <1>1, InvHolds, PTL

-----------------------------------------------------------------------------
(***************************************************************************)
(* Custody.  What the queue counts as escrowed it holds: every step takes  *)
(* from both or from neither, and only a stray transfer adds to one alone. *)
(***************************************************************************)

LEMMA CustodyStep ==
    ASSUME QueueInv, CustodyCoversEscrow, [Next]_vars
    PROVE  CustodyCoversEscrow'
<1>0. /\ QueueTypeOK /\ shares \in [LPs \cup {Queue} -> Nat]
      /\ escrowedShares \in Nat /\ shares[Queue] \in Nat
      /\ escrowedShares <= shares[Queue]
  BY NumbersNat DEF QueueInv, QueueTypeOK, CustodyCoversEscrow
<1>1. ASSUME NEW lp \in LPs, NEW amount \in RequestSizes, RequestRedemption(lp, amount)
      PROVE  CustodyCoversEscrow'
  <2>1. shares'[Queue] = shares[Queue] + amount /\ amount \in Nat
    BY <1>0, <1>1, ConstantTypes, MovedShares DEF RequestRedemption
  <2> QED BY <1>0, <1>1, <2>1 DEF RequestRedemption, CustodyCoversEscrow
<1>2. ASSUME NEW price \in Prices, SettleEpoch(price)
      PROVE  CustodyCoversEscrow'
  <2>1. shares'[Queue] = shares[Queue] - Settleable
    BY <1>0, <1>2 DEF SettleEpoch, SettleOpenEpoch
  <2> QED BY <1>0, <1>2, <2>1, SettleableBounds DEF SettleEpoch, SettleOpenEpoch, CustodyCoversEscrow
<1>3. ASSUME NEW e \in Epochs, NEW lp \in LPs, Claim(e, lp)
      PROVE  CustodyCoversEscrow'
  <2> DEFINE returned == Least(SharesDue(e, lp), escrowedShares)
  <2>1. returned \in Nat
    BY <1>0, <1>3, ClaimAmounts, LeastNat DEF Claim, Unclaimed
  <2>2. MoveShares(Queue, lp, returned) /\ escrowedShares' = escrowedShares - returned
    BY <1>3 DEF Claim
  <2> HIDE DEF returned
  <2>3. shares'[Queue] = shares[Queue] - returned
    BY <1>0, <2>1, <2>2, ConstantTypes, MovedShares
  <2> QED BY <1>0, <2>1, <2>2, <2>3 DEF CustodyCoversEscrow
<1>4. ASSUME NEW lp \in LPs, StrayTransfer(lp)
      PROVE  CustodyCoversEscrow'
  <2>1. shares'[Queue] = shares[Queue] + 1
    BY <1>0, <1>4, ConstantTypes, MovedShares DEF StrayTransfer
  <2> QED BY <1>0, <1>4, <2>1 DEF StrayTransfer, CustodyCoversEscrow
<1>5. CASE UNCHANGED <<escrowedShares, shares>>
  BY <1>0, <1>5 DEF CustodyCoversEscrow
<1> QED
  BY <1>1, <1>2, <1>3, <1>4, <1>5
  DEF Next, LPStep, Settle, SetEpochDuration, SetPaused, BufferMoves, ComplianceMoves, TimePasses

\* The shares the queue counts as escrowed are in its custody, whatever is sent to
\* it, settled and claimed: the transfer that ends claim() never fails for want of
\* shares.
THEOREM CustodyHolds == Spec => []CustodyCoversEscrow
<1>1. Init => CustodyCoversEscrow
  BY ConstantTypes DEF Init, CustodyCoversEscrow
<1>2. QueueInv /\ CustodyCoversEscrow /\ [Next]_vars => CustodyCoversEscrow'
  BY CustodyStep
<1> QED BY <1>1, <1>2, InvHolds, PTL DEF Spec

-----------------------------------------------------------------------------
(***************************************************************************)
(* Settlement.  The settled epochs are those before the open one, and the  *)
(* open epoch started when the one before it was settled: this is what     *)
(* makes settlements final and keeps them apart.                           *)
(***************************************************************************)

SettledBeforeOpen == \A e \in Epochs : epochs[e].settled => e < currentEpochId

OpenedAtSettlement ==
    \A e \in Epochs : e + 1 = currentEpochId => epochs[e].settledAt = currentEpochStart

SettlementInv == SettledBeforeOpen /\ OpenedAtSettlement /\ SettlementsAreSpaced

\* A request writes the open epoch alone, and of it nothing a settlement wrote.
LEMMA RequestWrites ==
    ASSUME QueueInv, NEW lp \in LPs, NEW amount \in RequestSizes, RequestRedemption(lp, amount)
    PROVE  /\ \A e \in Epochs : /\ epochs'[e].settled = epochs[e].settled
                                /\ epochs'[e].settledAt = epochs[e].settledAt
           /\ \A e \in Epochs \ {currentEpochId} : /\ epochs'[e] = epochs[e]
                                                   /\ sharesRequested'[e] = sharesRequested[e]
           /\ UNCHANGED <<blockTime, openEpoch>>
<1>1. /\ epochs \in [Epochs -> Epoch] /\ currentEpochId \in Epochs
      /\ sharesRequested \in [Epochs -> [LPs -> Nat]]
  BY DEF QueueInv, QueueTypeOK
<1>2. epochs' = [epochs EXCEPT ![currentEpochId].totalSharesRequested = @ + amount]
  BY <1>1 DEF RequestRedemption
<1>3. \A e \in Epochs \ {currentEpochId} : epochs'[e] = epochs[e]
  BY <1>1, <1>2
<1>4. /\ epochs'[currentEpochId].settled = epochs[currentEpochId].settled
      /\ epochs'[currentEpochId].settledAt = epochs[currentEpochId].settledAt
  BY <1>1, <1>2 DEF Epoch
<1>5. \A e \in Epochs \ {currentEpochId} : sharesRequested'[e] = sharesRequested[e]
  BY <1>1 DEF RequestRedemption
<1> QED BY <1>3, <1>4, <1>5 DEF RequestRedemption

\* A settlement writes the open epoch alone.
LEMMA SettleWrites ==
    ASSUME QueueInv, NEW price \in Prices, SettleEpoch(price)
    PROVE  /\ epochs'[currentEpochId].settled
           /\ epochs'[currentEpochId].settledAt = blockTime
           /\ \A e \in Epochs \ {currentEpochId} : epochs'[e] = epochs[e]
           /\ ~epochs[currentEpochId].settled
           /\ blockTime >= currentEpochStart + epochDuration
           /\ currentEpochId' = currentEpochId + 1 /\ currentEpochStart' = blockTime
           /\ UNCHANGED sharesRequested
BY DEF QueueInv, QueueTypeOK, Epoch, SettleEpoch, SettleOpenEpoch, OpenNextEpoch, MaturesAt

\* Only requests and settlements write what these properties speak of.
LEMMA EpochWriters ==
    ASSUME [Next]_vars
    PROVE  \/ \E lp \in LPs, amount \in RequestSizes : RequestRedemption(lp, amount)
           \/ \E price \in Prices : SettleEpoch(price)
           \/ UNCHANGED <<openEpoch, epochs, sharesRequested>>
BY DEF Next, LPStep, Settle, Claim, StrayTransfer, SetEpochDuration, SetPaused, BufferMoves,
       ComplianceMoves, TimePasses

LEMMA SettlementStep ==
    ASSUME QueueInv, SettlementInv, [Next]_vars
    PROVE  SettlementInv'
<1>0. /\ QueueTypeOK /\ SettledBeforeOpen /\ OpenedAtSettlement /\ SettlementsAreSpaced
      /\ Epochs \subseteq Nat /\ currentEpochId \in Nat
      /\ \A e \in Epochs : epochs[e].settledAt \in Nat
  <2>1. epochs \in [Epochs -> Epoch]
    BY DEF QueueInv, QueueTypeOK
  <2>2. \A e \in Epochs : epochs[e].settledAt \in Nat
    BY <2>1 DEF Epoch
  <2> QED BY <2>2, NumbersNat DEF QueueInv, SettlementInv, Epochs
<1>1. ASSUME NEW lp \in LPs, NEW amount \in RequestSizes, RequestRedemption(lp, amount)
      PROVE  SettlementInv'
  BY <1>0, <1>1, RequestWrites DEF SettlementInv, SettledBeforeOpen, OpenedAtSettlement, SettlementsAreSpaced
<1>2. ASSUME NEW price \in Prices, SettleEpoch(price)
      PROVE  SettlementInv'
  <2>1. SettledBeforeOpen'
    <3> SUFFICES ASSUME NEW e \in Epochs, epochs'[e].settled PROVE e < currentEpochId + 1
      BY <1>2, SettleWrites DEF SettledBeforeOpen
    <3>1. CASE e = currentEpochId
      BY <1>0, <3>1
    <3>2. CASE e # currentEpochId
      <4>1. epochs[e].settled
        BY <1>2, <3>2, SettleWrites
      <4> QED BY <1>0, <4>1 DEF SettledBeforeOpen
    <3> QED BY <3>1, <3>2
  <2>2. OpenedAtSettlement'
    <3> SUFFICES ASSUME NEW e \in Epochs, e + 1 = currentEpochId'
                 PROVE  epochs'[e].settledAt = currentEpochStart'
      BY DEF OpenedAtSettlement
    <3>1. currentEpochId' = currentEpochId + 1
      BY <1>2, SettleWrites
    <3>2. e = currentEpochId
      BY <1>0, <3>1
    <3> QED BY <1>2, <3>2, SettleWrites
  <2>3. SettlementsAreSpaced'
    <3> SUFFICES ASSUME NEW e \in Epochs, e + 1 \in Epochs, epochs'[e + 1].settled
                 PROVE  epochs'[e].settledAt + EPOCH_FLOOR <= epochs'[e + 1].settledAt
      BY DEF SettlementsAreSpaced
    <3>1. CASE e + 1 = currentEpochId
      <4>1. epochs'[e].settledAt = currentEpochStart
        BY <1>0, <1>2, <3>1, SettleWrites DEF OpenedAtSettlement
      <4>2. epochs'[e + 1].settledAt = blockTime
        BY <1>2, <3>1, SettleWrites
      <4> QED BY <1>0, <1>2, <4>1, <4>2, SettleWrites, NumbersNat, ConstantTypes
    <3>2. CASE e + 1 # currentEpochId
      <4>1. epochs[e + 1].settled /\ epochs'[e + 1] = epochs[e + 1]
        BY <1>2, <3>2, SettleWrites
      <4>2. e + 1 < currentEpochId
        BY <1>0, <4>1 DEF SettledBeforeOpen
      <4>3. epochs'[e] = epochs[e]
        BY <1>0, <1>2, <4>2, SettleWrites
      <4> QED BY <1>0, <4>1, <4>3 DEF SettlementsAreSpaced
    <3> QED BY <3>1, <3>2
  <2> QED BY <2>1, <2>2, <2>3 DEF SettlementInv
<1>3. CASE UNCHANGED <<openEpoch, epochs, sharesRequested>>
  BY <1>0, <1>3 DEF SettlementInv, SettledBeforeOpen, OpenedAtSettlement, SettlementsAreSpaced
<1> QED BY <1>1, <1>2, <1>3, EpochWriters

LEMMA SettlementsHold == Spec => []SettlementInv
<1>1. Init => SettlementInv
  <2> SUFFICES ASSUME Init PROVE SettlementInv
    OBVIOUS
  <2>1. currentEpochId = 0 /\ \A e \in Epochs : ~epochs[e].settled
    BY DEF Init, NoEpoch
  <2>2. \A e \in Epochs : e + 1 # 0
    BY ConstantTypes DEF Epochs
  <2> QED BY <2>1, <2>2
      DEF SettlementInv, SettledBeforeOpen, OpenedAtSettlement, SettlementsAreSpaced
<1>2. QueueInv /\ SettlementInv /\ [Next]_vars => SettlementInv'
  BY SettlementStep
<1> QED BY <1>1, <1>2, InvHolds, PTL DEF Spec

\* However the owner moves the duration and the Sentinel the pause, two settlements
\* are at least EPOCH_FLOOR apart.
THEOREM SettlementsKeepApart == Spec => []SettlementsAreSpaced
<1>1. SettlementInv => SettlementsAreSpaced
  BY DEF SettlementInv
<1> QED BY <1>1, SettlementsHold, PTL

\* What every LP of a settled epoch has coming is never touched again.
THEOREM SettlementsFinal == Spec => SettledEpochsFinal
<1> DEFINE Final == \A e \in Epochs : epochs[e].settled =>
                      /\ epochs'[e] = epochs[e]
                      /\ sharesRequested'[e] = sharesRequested[e]
<1>1. ASSUME QueueInv, SettlementInv, [Next]_vars
      PROVE  [Final]_vars
  <2>0. currentEpochId \in Nat /\ ~epochs[currentEpochId].settled
    <3>1. currentEpochId \in Epochs /\ currentEpochId \in Nat
      BY <1>1, NumbersNat DEF QueueInv, QueueTypeOK
    <3> QED BY <1>1, <3>1 DEF SettlementInv, SettledBeforeOpen
  <2>1. CASE \E lp \in LPs, amount \in RequestSizes : RequestRedemption(lp, amount)
    BY <1>1, <2>0, <2>1, RequestWrites
  <2>2. CASE \E price \in Prices : SettleEpoch(price)
    BY <1>1, <2>0, <2>2, SettleWrites
  <2>3. CASE UNCHANGED <<openEpoch, epochs, sharesRequested>>
    BY <2>3
  <2> QED BY <1>1, <2>1, <2>2, <2>3, EpochWriters
<1>2. QueueInv /\ SettlementInv /\ [Next]_vars => [Final]_vars
  BY <1>1
<1> QED BY <1>2, InvHolds, SettlementsHold, PTL DEF Spec, SettledEpochsFinal
-----------------------------------------------------------------------------
(***************************************************************************)
(* A pro-rata split of k by the terms of f, each part rounded down.        *)
(***************************************************************************)

LEMMA ProductCancels ==
    ASSUME NEW a \in Nat, NEW b \in Nat, NEW d \in Nat \ {0}, d * a <= d * b
    PROVE  a <= b
<1> SUFFICES ASSUME b < a PROVE FALSE
  OBVIOUS
<1>1. d * (b + 1) <= d * a
  BY ProductGrows
<1>2. d * (b + 1) = d * b + d
  OBVIOUS
<1>3. d * a \in Nat /\ d * b \in Nat
  BY ProductNat
<1> QED BY <1>1, <1>2, <1>3

LEMMA DivisionBounds ==
    ASSUME NEW a \in Nat, NEW d \in Nat \ {0}
    PROVE  /\ a \div d \in Nat
           /\ d * (a \div d) <= a
           /\ a <= d * (a \div d) + (d - 1)
OBVIOUS

Parts(f, S, k, d) == [x \in S |-> (f[x] * k) \div d]

LEMMA PartsNat ==
    ASSUME NEW S, NEW f \in [S -> Nat], NEW k \in Nat, NEW d \in Nat \ {0}
    PROVE  /\ Parts(f, S, k, d) \in [S -> Nat]
           /\ \A x \in S : /\ f[x] * k \in Nat
                           /\ d * Parts(f, S, k, d)[x] <= f[x] * k
                           /\ f[x] * k <= d * Parts(f, S, k, d)[x] + (d - 1)
<1> SUFFICES ASSUME NEW x \in S
             PROVE  /\ f[x] * k \in Nat
                    /\ (f[x] * k) \div d \in Nat
                    /\ d * ((f[x] * k) \div d) <= f[x] * k
                    /\ f[x] * k <= d * ((f[x] * k) \div d) + (d - 1)
  BY DEF Parts
<1> DEFINE a == f[x] * k
<1>1. a \in Nat
  BY ProductNat
<1> HIDE DEF a
<1>2. a \div d \in Nat /\ d * (a \div d) <= a /\ a <= d * (a \div d) + (d - 1)
  BY <1>1, DivisionBounds
<1> QED BY <1>1, <1>2 DEF a

\* The parts of at most the whole are at most what is split.
LEMMA PartsFit ==
    ASSUME NEW S, IsFiniteSet(S), NEW f \in [S -> Nat], NEW k \in Nat, NEW d \in Nat \ {0},
           SumFunction(f) <= d
    PROVE  SumFunction(Parts(f, S, k, d)) <= k
<1> DEFINE g == Parts(f, S, k, d)
           left == [x \in S |-> g[x] * d]
           right == [x \in S |-> f[x] * k]
<1>1. g \in [S -> Nat] /\ \A x \in S : d * g[x] <= f[x] * k /\ f[x] * k \in Nat
  BY PartsNat
<1> HIDE DEF g
<1>2. /\ left \in [S -> Nat] /\ right \in [S -> Nat]
      /\ \A x \in S : left[x] <= right[x]
  <2> SUFFICES ASSUME NEW x \in S PROVE g[x] * d \in Nat /\ g[x] * d <= f[x] * k
    BY <1>1
  <2>1. g[x] \in Nat /\ g[x] * d = d * g[x]
    BY <1>1
  <2>2. g[x] * d \in Nat
    BY <2>1, ProductNat
  <2> QED BY <1>1, <2>1, <2>2
<1>3. SumFunction(left) <= SumFunction(right)
  <2> HIDE DEF left, right
  <2> QED BY <1>2, SumGrows
<1>4. SumFunction(left) = SumFunction(g) * d /\ SumFunction(right) = SumFunction(f) * k
  BY <1>1, SumOfMultiples
<1>5. SumFunction(g) \in Nat /\ SumFunction(f) \in Nat
  BY <1>1, SumNat
<1> HIDE DEF left, right
<1> DEFINE sg == SumFunction(g)
           sf == SumFunction(f)
<1>6. sg * d <= sf * k /\ sg \in Nat /\ sf \in Nat /\ sf <= d
  BY <1>3, <1>4, <1>5
<1> HIDE DEF sg, sf
<1>7. k * sf <= k * d
  BY <1>6, ProductGrows
<1>8. sg * d = d * sg /\ sf * k = k * sf /\ k * d = d * k
  BY <1>6
<1>9. d * sg \in Nat /\ k * sf \in Nat /\ k * d \in Nat
  BY <1>6, ProductNat
<1>10. d * sg <= d * k
  BY <1>6, <1>7, <1>8, <1>9
<1> QED BY <1>6, <1>10, ProductCancels DEF sg, g

\* The parts of the whole fall short of it by less than one per further part.
LEMMA PartsLoseLittle ==
    ASSUME NEW S, IsFiniteSet(S), NEW f \in [S -> Nat], NEW k \in Nat, NEW d \in Nat \ {0},
           SumFunction(f) = d
    PROVE  /\ Cardinality({x \in S : f[x] > 0}) \in Nat \ {0}
           /\ k <= SumFunction(Parts(f, S, k, d)) + (Cardinality({x \in S : f[x] > 0}) - 1)
<1> DEFINE g == Parts(f, S, k, d)
           some == {x \in S : f[x] > 0}
           mark == [x \in S |-> IF x \in some THEN 1 ELSE 0]
           n == Cardinality(some)
           whole == [x \in S |-> f[x] * k]
           multiple == [x \in S |-> g[x] * d]
           slack == [x \in S |-> mark[x] * (d - 1)]
           bound == [x \in S |-> multiple[x] + slack[x]]
<1>1. g \in [S -> Nat] /\ \A x \in S : f[x] * k <= d * g[x] + (d - 1) /\ f[x] * k \in Nat
  BY PartsNat
<1> HIDE DEF g
<1>2. some \in SUBSET S /\ mark \in [S -> Nat] /\ d - 1 \in Nat
  OBVIOUS
<1>3. SumFunction(mark) = n
  <2> HIDE DEF some
  <2> QED BY <1>2, SumOfMarks
<1>4. n \in Nat
  <2> HIDE DEF some
  <2> QED BY <1>2, FS_Subset, FS_CardinalityType
<1>5. n # 0
  <2> SUFFICES ASSUME n = 0 PROVE FALSE
    OBVIOUS
  <2>1. some = {}
    <3> HIDE DEF some
    <3>1. IsFiniteSet(some)
      BY <1>2, FS_Subset
    <3> QED BY <3>1, FS_EmptySet
  <2>2. f = [x \in S |-> 0]
    <3>1. \A x \in S : f[x] = 0
      BY <2>1
    <3> QED BY <3>1
  <2>3. SumFunction(f) = 0
    BY <2>2, SumOfZeros
  <2> QED BY <2>3
<1> HIDE DEF n
<1>6. whole \in [S -> Nat] /\ multiple \in [S -> Nat] /\ slack \in [S -> Nat]
  <2> SUFFICES ASSUME NEW x \in S
               PROVE  f[x] * k \in Nat /\ g[x] * d \in Nat /\ mark[x] * (d - 1) \in Nat
    OBVIOUS
  <2>1. g[x] \in Nat /\ mark[x] \in Nat
    BY <1>1, <1>2
  <2> HIDE DEF mark
  <2> QED BY <1>1, <1>2, <2>1, ProductNat
<1>7. \A x \in S : whole[x] <= bound[x]
  <2> SUFFICES ASSUME NEW x \in S PROVE f[x] * k <= g[x] * d + mark[x] * (d - 1)
    OBVIOUS
  <2>1. g[x] \in Nat /\ g[x] * d = d * g[x] /\ f[x] \in Nat
    BY <1>1
  <2>2. CASE f[x] > 0
    <3>1. mark[x] * (d - 1) = d - 1
      BY <1>2, <2>2
    <3> QED BY <1>1, <2>1, <3>1
  <2>3. CASE f[x] = 0
    <3>1. f[x] * k = 0 /\ mark[x] * (d - 1) = 0
      BY <1>2, <2>3
    <3>2. g[x] * d \in Nat
      BY <2>1, ProductNat
    <3> QED BY <3>1, <3>2
  <2> QED BY <2>1, <2>2, <2>3
<1>8. bound \in [S -> Nat]
  <2> HIDE DEF multiple, slack
  <2> QED BY <1>6
<1>9. SumFunction(whole) <= SumFunction(bound)
  <2> HIDE DEF whole, bound
  <2> QED BY <1>6, <1>7, <1>8, SumGrows
<1>10. SumFunction(bound) = SumFunction(multiple) + SumFunction(slack)
  <2> HIDE DEF multiple, slack
  <2> QED BY <1>6, SumOfSums
<1>11. SumFunction(whole) = d * k
  BY SumOfMultiples
<1>12. SumFunction(multiple) = SumFunction(g) * d
  BY <1>1, SumOfMultiples
<1>13. SumFunction(slack) = n * (d - 1)
  <2> HIDE DEF mark
  <2> QED BY <1>2, <1>3, SumOfMultiples
<1> DEFINE sg == SumFunction(g)
<1>14. sg \in Nat /\ d * k <= sg * d + n * (d - 1)
  BY <1>1, <1>9, <1>10, <1>11, <1>12, <1>13, SumNat
<1> HIDE DEF sg, whole, multiple, slack, bound, mark
<1>15. k < sg + n
  <2> SUFFICES ASSUME sg + n <= k PROVE FALSE
    BY <1>4, <1>14
  <2>1. d * (sg + n) <= d * k
    BY <1>4, <1>14, ProductGrows
  <2>2. d * (sg + n) = sg * d + n * (d - 1) + n
    <3>1. d * (sg + n) = d * sg + d * n
      BY <1>4, <1>14
    <3>2. n * (d - 1) = n * d - n
      BY <1>4
    <3>3. d * sg = sg * d /\ d * n = n * d
      BY <1>4, <1>14
    <3>4. d * sg \in Nat /\ d * n \in Nat
      BY <1>4, <1>14, ProductNat
    <3> QED BY <1>4, <3>1, <3>2, <3>3, <3>4
  <2>3. d * k \in Nat /\ sg * d \in Nat /\ n * (d - 1) \in Nat
    BY <1>2, <1>4, <1>14, ProductNat
  <2> QED BY <1>4, <1>5, <1>14, <2>1, <2>2, <2>3
<1> QED BY <1>4, <1>5, <1>14, <1>15 DEF sg, g, n
-----------------------------------------------------------------------------
(***************************************************************************)
(* The books of the epochs: what an epoch counts is the sum of its         *)
(* requests, and nothing is requested of a later epoch or claimed of an    *)
(* unsettled one.                                                          *)
(***************************************************************************)

RequestsAddUp ==
    \A e \in Epochs : SumFunction(sharesRequested[e]) = epochs[e].totalSharesRequested

LaterEpochsEmpty == \A e \in Epochs : e > currentEpochId => epochs[e] = NoEpoch

ClaimsFollowSettlement == \A e \in Epochs, lp \in LPs : claimed[e][lp] => epochs[e].settled

EscrowInv == RequestsAddUp /\ LaterEpochsEmpty /\ ClaimsFollowSettlement

\* A request adds to one request and to the count of the open epoch.
LEMMA RequestEffect ==
    ASSUME QueueInv, NEW lp \in LPs, NEW amount \in RequestSizes, RequestRedemption(lp, amount)
    PROVE  /\ amount \in Nat
           /\ epochs'[currentEpochId].totalSharesRequested
                = epochs[currentEpochId].totalSharesRequested + amount
           /\ sharesRequested'[currentEpochId][lp] = sharesRequested[currentEpochId][lp] + amount
           /\ \A q \in LPs \ {lp} :
                sharesRequested'[currentEpochId][q] = sharesRequested[currentEpochId][q]
           /\ escrowedShares' = escrowedShares + amount
           /\ UNCHANGED <<claimed, queueUsdc, currentEpochId>>
<1>1. /\ epochs \in [Epochs -> Epoch] /\ currentEpochId \in Epochs
      /\ sharesRequested \in [Epochs -> [LPs -> Nat]]
  BY DEF QueueInv, QueueTypeOK
<1>2. epochs'[currentEpochId].totalSharesRequested
        = epochs[currentEpochId].totalSharesRequested + amount
  BY <1>1 DEF RequestRedemption, Epoch
<1> QED BY <1>1, <1>2, ConstantTypes DEF RequestRedemption

\* A settlement writes the redeemed shares and what they paid.
LEMMA SettleEffect ==
    ASSUME QueueInv, NEW price \in Prices, SettleEpoch(price)
    PROVE  /\ epochs'[currentEpochId].totalSharesRequested
                = epochs[currentEpochId].totalSharesRequested
           /\ epochs'[currentEpochId].settledShares = Settleable
           /\ epochs'[currentEpochId].settledAssets \in Nat
           /\ queueUsdc' = queueUsdc + epochs'[currentEpochId].settledAssets
           /\ Settleable <= escrowedShares
           /\ escrowedShares' = escrowedShares - Settleable
           /\ currentEpochId' \in Epochs
           /\ UNCHANGED claimed
<1> DEFINE assets == (Settleable * price) \div PRICE_UNIT
<1>1. QueueTypeOK /\ epochs \in [Epochs -> Epoch] /\ currentEpochId \in Epochs /\ price \in Nat
  BY ConstantTypes DEF QueueInv, QueueTypeOK
<1>2. assets \in Nat
  BY <1>1, SettleableBounds, ProductNat, DivisionNat, ConstantTypes
<1>3. /\ epochs' = [epochs EXCEPT ![currentEpochId] =
                      [@ EXCEPT !.settledShares = Settleable, !.settledAssets = assets,
                                !.settledAt = blockTime, !.settled = TRUE]]
      /\ queueUsdc' = queueUsdc + assets
      /\ Settleable <= escrowedShares
      /\ escrowedShares' = escrowedShares - Settleable
      /\ currentEpochId' = currentEpochId + 1 /\ currentEpochId < MaxEpochs
      /\ UNCHANGED claimed
  BY DEF SettleEpoch, SettleOpenEpoch, OpenNextEpoch
<1>4. currentEpochId' \in Epochs
  <2>1. currentEpochId \in Nat /\ MaxEpochs \in Nat
    BY <1>1, NumbersNat, ConstantTypes
  <2> QED BY <1>3, <2>1 DEF Epochs
<1> HIDE DEF assets
<1> QED BY <1>1, <1>2, <1>3, <1>4 DEF Epoch

\* Only these three write what is owed and what it is paid from.
LEMMA EscrowWriters ==
    ASSUME [Next]_vars
    PROVE  \/ \E lp \in LPs, amount \in RequestSizes : RequestRedemption(lp, amount)
           \/ \E price \in Prices : SettleEpoch(price)
           \/ \E e \in Epochs, lp \in LPs : Claim(e, lp)
           \/ UNCHANGED <<accounting, queueUsdc, currentEpochId>>
BY DEF Next, LPStep, Settle, StrayTransfer, SetEpochDuration, SetPaused, BufferMoves,
       ComplianceMoves, TimePasses

LEMMA EscrowStep ==
    ASSUME QueueInv, SettlementInv, EscrowInv, [Next]_vars
    PROVE  EscrowInv'
<1>0. /\ epochs \in [Epochs -> Epoch] /\ currentEpochId \in Epochs
      /\ sharesRequested \in [Epochs -> [LPs -> Nat]]
      /\ claimed \in [Epochs -> [LPs -> BOOLEAN]]
      /\ Epochs \subseteq Nat /\ IsFiniteSet(LPs)
      /\ \A e \in Epochs : epochs[e].totalSharesRequested \in Nat
      /\ RequestsAddUp /\ LaterEpochsEmpty /\ ClaimsFollowSettlement
  <2>1. Epochs \subseteq Nat /\ IsFiniteSet(LPs)
    BY QueueAssumption DEF Epochs
  <2>2. /\ epochs \in [Epochs -> Epoch] /\ currentEpochId \in Epochs
        /\ sharesRequested \in [Epochs -> [LPs -> Nat]]
        /\ claimed \in [Epochs -> [LPs -> BOOLEAN]]
    BY DEF QueueInv, QueueTypeOK
  <2>3. \A e \in Epochs : epochs[e].totalSharesRequested \in Nat
    BY <2>2 DEF Epoch
  <2> QED BY <2>1, <2>2, <2>3 DEF EscrowInv
<1>1. ASSUME NEW lp \in LPs, NEW amount \in RequestSizes, RequestRedemption(lp, amount)
      PROVE  EscrowInv'
  <2> DEFINE c == currentEpochId
             before == sharesRequested[c]
             after == sharesRequested'[c]
  <2>1. SumFunction(after) = SumFunction(before) + amount
    <3>1. /\ before \in [LPs -> Nat] /\ after \in [LPs -> Nat] /\ amount \in Nat
          /\ after[lp] = before[lp] + amount
          /\ \A q \in LPs \ {lp} : after[q] = before[q]
      <4>1. sharesRequested' \in [Epochs -> [LPs -> Nat]]
        BY <1>1, RequestTypes DEF QueueInv, QueueTypeOK
      <4> QED BY <1>0, <1>1, <4>1, RequestEffect
    <3> HIDE DEF before, after
    <3>2. SumFunction(after) = SumFunction(before) - before[lp] + after[lp]
      BY <1>0, <3>1, SumChanges
    <3>3. SumFunction(before) \in Nat /\ before[lp] \in Nat
      BY <1>0, <3>1, SumNat
    <3> QED BY <3>1, <3>2, <3>3
  <2>2. RequestsAddUp'
    <3> SUFFICES ASSUME NEW e \in Epochs
                 PROVE  SumFunction(sharesRequested'[e]) = epochs'[e].totalSharesRequested
      BY DEF RequestsAddUp
    <3>1. SumFunction(sharesRequested[e]) = epochs[e].totalSharesRequested
      BY <1>0 DEF RequestsAddUp
    <3>2. CASE e = c
      BY <1>1, <2>1, <3>1, <3>2, RequestEffect
    <3>3. CASE e # c
      BY <1>1, <3>1, <3>3, RequestWrites
    <3> QED BY <3>2, <3>3
  <2>3. LaterEpochsEmpty'
    BY <1>0, <1>1, RequestWrites DEF LaterEpochsEmpty
  <2>4. ClaimsFollowSettlement'
    BY <1>0, <1>1, RequestWrites, RequestEffect DEF ClaimsFollowSettlement
  <2> QED BY <2>2, <2>3, <2>4 DEF EscrowInv
<1>2. ASSUME NEW price \in Prices, SettleEpoch(price)
      PROVE  EscrowInv'
  <2>1. RequestsAddUp'
    <3> SUFFICES ASSUME NEW e \in Epochs
                 PROVE  /\ sharesRequested'[e] = sharesRequested[e]
                        /\ epochs'[e].totalSharesRequested = epochs[e].totalSharesRequested
      BY <1>0 DEF RequestsAddUp
    <3> QED BY <1>2, SettleWrites, SettleEffect
  <2>2. LaterEpochsEmpty'
    BY <1>0, <1>2, SettleWrites DEF LaterEpochsEmpty
  <2>3. ClaimsFollowSettlement'
    BY <1>0, <1>2, SettleWrites, SettleEffect DEF ClaimsFollowSettlement
  <2> QED BY <2>1, <2>2, <2>3 DEF EscrowInv
<1>3. ASSUME NEW e \in Epochs, NEW lp \in LPs, Claim(e, lp)
      PROVE  EscrowInv'
  BY <1>0, <1>3
  DEF EscrowInv, RequestsAddUp, LaterEpochsEmpty, ClaimsFollowSettlement, Claim, Unclaimed
<1>4. CASE UNCHANGED <<accounting, queueUsdc, currentEpochId>>
  BY <1>0, <1>4 DEF EscrowInv, RequestsAddUp, LaterEpochsEmpty, ClaimsFollowSettlement
<1> QED BY <1>1, <1>2, <1>3, <1>4, EscrowWriters

LEMMA EscrowHolds == Spec => []EscrowInv
<1>1. Init => EscrowInv
  <2> SUFFICES ASSUME Init PROVE EscrowInv
    OBVIOUS
  <2>1. \A e \in Epochs : /\ epochs[e] = NoEpoch
                          /\ sharesRequested[e] = [lp \in LPs |-> 0]
                          /\ \A lp \in LPs : claimed[e][lp] = FALSE
    BY DEF Init
  <2>2. SumFunction([lp \in LPs |-> 0]) = 0
    BY QueueAssumption, SumOfZeros
  <2> QED BY <2>1, <2>2
      DEF EscrowInv, RequestsAddUp, LaterEpochsEmpty, ClaimsFollowSettlement, NoEpoch
<1>2. QueueInv /\ SettlementInv /\ EscrowInv /\ [Next]_vars => EscrowInv'
  BY EscrowStep
<1> QED BY <1>1, <1>2, InvHolds, SettlementsHold, PTL DEF Spec

\* The USDC of a settlement, split by what each LP requested of the epoch.
SplitAssets(req, L, settled, total, assets) ==
    [x \in L |-> IF req[x] > 0 /\ (req[x] * settled) \div total # 0
                 THEN (((req[x] * settled) \div total) * assets) \div settled ELSE 0]

LEMMA AssetsSplit ==
    ASSUME NEW L, IsFiniteSet(L), NEW req \in [L -> Nat], NEW total \in Nat,
           SumFunction(req) = total, NEW settled \in Nat, settled <= total, NEW assets \in Nat,
           NEW row \in [L -> Nat],
           row = SplitAssets(req, L, settled, total, assets)
    PROVE  SumFunction(row) <= assets
<1> USE DEF SplitAssets
<1>1. CASE settled = 0
  <2>1. \A x \in L : row[x] = 0
    <3> SUFFICES ASSUME NEW x \in L, req[x] > 0 PROVE (req[x] * settled) \div total = 0
      OBVIOUS
    <3>1. req[x] \in Nat /\ req[x] <= total
      BY TermWithinSum
    <3>2. req[x] * settled = 0 /\ total \in Nat \ {0}
      BY <1>1, <3>1
    <3>3. 0 \div total = 0
      BY <3>2
    <3> QED BY <3>2, <3>3
  <2>2. row = [x \in L |-> 0]
    BY <2>1
  <2> QED BY <2>2, SumOfZeros
<1>2. CASE settled # 0
  <2> DEFINE redeemed == Parts(req, L, settled, total)
             paid == Parts(redeemed, L, assets, settled)
  <2>1. total \in Nat \ {0} /\ settled \in Nat \ {0}
    BY <1>2
  <2>2. /\ redeemed \in [L -> Nat]
        /\ \A x \in L : redeemed[x] = (req[x] * settled) \div total
    BY <2>1, PartsNat DEF Parts
  <2>3. SumFunction(redeemed) <= settled
    BY <2>1, PartsFit
  <2> HIDE DEF redeemed
  <2>4. /\ paid \in [L -> Nat]
        /\ \A x \in L : paid[x] = (redeemed[x] * assets) \div settled
    <3>1. paid \in [L -> Nat]
      BY <2>1, <2>2, PartsNat
    <3> QED BY <3>1 DEF Parts
  <2>5. SumFunction(paid) <= assets
    BY <2>1, <2>2, <2>3, PartsFit
  <2> HIDE DEF paid
  <2>6. \A x \in L : row[x] <= paid[x]
    <3> SUFFICES ASSUME NEW x \in L PROVE row[x] <= paid[x]
      OBVIOUS
    <3>1. paid[x] \in Nat
      BY <2>4
    <3>2. row[x] = 0 \/ row[x] = (redeemed[x] * assets) \div settled
      BY <2>2
    <3> QED BY <2>4, <3>1, <3>2
  <2>7. SumFunction(row) <= SumFunction(paid)
    BY <2>4, <2>6, SumGrows
  <2>8. SumFunction(row) \in Nat /\ SumFunction(paid) \in Nat
    BY <2>4, SumNat
  <2> QED BY <2>5, <2>7, <2>8
<1> QED BY <1>1, <1>2

\* The shares of an epoch that were not redeemed, split likewise.
SplitShares(req, L, settled, total) ==
    [x \in L |-> IF req[x] > 0 THEN req[x] - (req[x] * settled) \div total ELSE 0]

LEMMA SharesSplit ==
    ASSUME NEW L, IsFiniteSet(L), NEW req \in [L -> Nat], NEW total \in Nat,
           SumFunction(req) = total, NEW settled \in Nat, settled <= total,
           NEW row \in [L -> Nat],
           row = SplitShares(req, L, settled, total)
    PROVE  LET some == {x \in L : req[x] > 0}
           IN  /\ (IF some # {} THEN Cardinality(some) - 1 ELSE 0) \in Nat
               /\ SumFunction(row) + settled
                    <= total + (IF some # {} THEN Cardinality(some) - 1 ELSE 0)
<1> DEFINE some == {x \in L : req[x] > 0}
<1> USE DEF SplitShares
<1>1. CASE total = 0
  <2>1. \A x \in L : req[x] = 0
    BY <1>1, TermWithinSum
  <2>2. row = [x \in L |-> 0] /\ some = {}
    BY <2>1
  <2>3. SumFunction(row) = 0
    BY <2>2, SumOfZeros
  <2>4. settled = 0
    BY <1>1
  <2> QED BY <1>1, <2>2, <2>3, <2>4
<1>2. CASE total # 0
  <2> DEFINE redeemed == Parts(req, L, settled, total)
  <2>1. total \in Nat \ {0}
    BY <1>2
  <2>2. /\ redeemed \in [L -> Nat]
        /\ \A x \in L : redeemed[x] = (req[x] * settled) \div total
    BY <2>1, PartsNat DEF Parts
  <2>3. /\ Cardinality(some) \in Nat \ {0}
        /\ settled <= SumFunction(redeemed) + (Cardinality(some) - 1)
    BY <2>1, PartsLoseLittle
  <2> HIDE DEF redeemed
  <2>4. \A x \in L : row[x] + redeemed[x] = req[x]
    <3> SUFFICES ASSUME NEW x \in L PROVE row[x] + redeemed[x] = req[x]
      OBVIOUS
    <3>1. req[x] \in Nat /\ redeemed[x] \in Nat /\ redeemed[x] = (req[x] * settled) \div total
      BY <2>2
    <3>2. CASE req[x] > 0
      BY <3>1, <3>2
    <3>3. CASE req[x] = 0
      <4>1. req[x] * settled = 0 /\ 0 \div total = 0
        BY <2>1, <3>3
      <4> QED BY <3>1, <3>3, <4>1
    <3> QED BY <3>1, <3>2, <3>3
  <2>5. [x \in L |-> row[x] + redeemed[x]] = req
    BY <2>4
  <2>6. SumFunction([x \in L |-> row[x] + redeemed[x]])
          = SumFunction(row) + SumFunction(redeemed)
    <3>1. row \in [L -> Nat] /\ redeemed \in [L -> Nat]
      BY <2>2
    <3> QED BY <3>1, SumOfSums
  <2>7. SumFunction(row) + SumFunction(redeemed) = total
    BY <2>5, <2>6
  <2>8. SumFunction(row) \in Nat /\ SumFunction(redeemed) \in Nat
    BY <2>2, SumNat
  <2>9. some # {}
    <3>1. Cardinality({}) = 0
      BY FS_EmptySet
    <3> QED BY <2>3, <3>1
  <2> HIDE DEF some
  <2>10. (IF some # {} THEN Cardinality(some) - 1 ELSE 0) = Cardinality(some) - 1
    BY <2>9
  <2>11. SumFunction(row) + settled <= total + (Cardinality(some) - 1)
    BY <2>3, <2>7, <2>8
  <2> QED BY <2>3, <2>10, <2>11 DEF some
<1> QED BY <1>1, <1>2

-----------------------------------------------------------------------------
(***************************************************************************)
(* What the queue owes, request by request.  A settlement adds one row to  *)
(* it, a claim takes one request out.                                      *)
(***************************************************************************)

AssetsOwed ==
    [r \in Requests |-> IF Unclaimed(r[1], r[2]) THEN AssetsDue(r[1], r[2]) ELSE 0]
SharesOwed ==
    [r \in Requests |-> IF Unclaimed(r[1], r[2]) THEN SharesDue(r[1], r[2]) ELSE 0]

LEMMA OwedNat ==
    QueueInv => AssetsOwed \in [Requests -> Nat] /\ SharesOwed \in [Requests -> Nat]
<1> SUFFICES ASSUME QueueInv, NEW e \in Epochs, NEW lp \in LPs, Unclaimed(e, lp)
             PROVE  AssetsDue(e, lp) \in Nat /\ SharesDue(e, lp) \in Nat
  BY DEF AssetsOwed, SharesOwed, Requests
<1> QED BY ClaimAmounts DEF Unclaimed

LEMMA OwedNatNext ==
    QueueInv' => (AssetsOwed \in [Requests -> Nat] /\ SharesOwed \in [Requests -> Nat])'
BY OwedNat, PTL

LEMMA RequestsFinite ==
    IsFiniteSet(Epochs) /\ IsFiniteSet(LPs) /\ IsFiniteSet(Requests) /\ Epochs \subseteq Nat
<1>1. IsFiniteSet(Epochs)
  BY ConstantTypes, FS_Interval DEF Epochs
<1>2. IsFiniteSet(LPs) /\ Epochs \subseteq Nat
  BY QueueAssumption DEF Epochs
<1>3. IsFiniteSet(Requests)
  BY <1>1, <1>2, FS_Product DEF Requests
<1> QED BY <1>1, <1>2, <1>3

\* A request owes nothing yet.
LEMMA RequestOwes ==
    ASSUME QueueInv, SettlementInv, NEW lp \in LPs, NEW amount \in RequestSizes,
           RequestRedemption(lp, amount)
    PROVE  AssetsOwed' = AssetsOwed /\ SharesOwed' = SharesOwed
<1>1. currentEpochId \in Epochs /\ currentEpochId \in Nat
  BY NumbersNat DEF QueueInv, QueueTypeOK
<1>2. ~epochs[currentEpochId].settled /\ ~epochs'[currentEpochId].settled
  BY <1>1, RequestWrites DEF SettlementInv, SettledBeforeOpen
<1>3. ASSUME NEW e \in Epochs, NEW q \in LPs
      PROVE  /\ Unclaimed(e, q)' = Unclaimed(e, q)
             /\ Unclaimed(e, q) => /\ AssetsDue(e, q)' = AssetsDue(e, q)
                                   /\ SharesDue(e, q)' = SharesDue(e, q)
  <2>1. CASE e = currentEpochId
    BY <1>2, <2>1 DEF Unclaimed
  <2>2. CASE e # currentEpochId
    <3>1. /\ epochs'[e] = epochs[e] /\ sharesRequested'[e] = sharesRequested[e]
          /\ claimed' = claimed
      BY <2>2, RequestWrites, RequestEffect
    <3> QED BY <3>1 DEF Unclaimed, AssetsDue, SharesDue, UserSettledShares
  <2> QED BY <2>1, <2>2
<1> QED BY <1>3 DEF AssetsOwed, SharesOwed, Requests

\* A claim takes what it pays and returns out of what is owed.
LEMMA ClaimOwes ==
    ASSUME QueueInv, QueueInv', NEW e \in Epochs, NEW lp \in LPs, Claim(e, lp)
    PROVE  /\ SumFunction(AssetsOwed') = SumFunction(AssetsOwed) - AssetsDue(e, lp)
           /\ SumFunction(SharesOwed') = SumFunction(SharesOwed) - SharesDue(e, lp)
<1> DEFINE r == <<e, lp>>
<1>1. /\ AssetsOwed \in [Requests -> Nat] /\ SharesOwed \in [Requests -> Nat]
      /\ IsFiniteSet(Requests) /\ r \in Requests
  BY OwedNat, RequestsFinite DEF Requests
<1>2. AssetsOwed' \in [Requests -> Nat] /\ SharesOwed' \in [Requests -> Nat]
  BY OwedNatNext
<1>3. /\ Unclaimed(e, lp) /\ claimed' = [claimed EXCEPT ![e][lp] = TRUE]
      /\ UNCHANGED <<epochs, sharesRequested>>
      /\ claimed \in [Epochs -> [LPs -> BOOLEAN]]
  BY DEF Claim, QueueInv, QueueTypeOK
<1>4. AssetsOwed[r] = AssetsDue(e, lp) /\ SharesOwed[r] = SharesDue(e, lp)
  BY <1>1, <1>3 DEF AssetsOwed, SharesOwed
<1>5. AssetsOwed'[r] = 0 /\ SharesOwed'[r] = 0
  <2>1. ~Unclaimed(e, lp)'
    BY <1>3 DEF Unclaimed
  <2> QED BY <1>1, <2>1 DEF AssetsOwed, SharesOwed
<1>6. \A q \in Requests \ {r} : AssetsOwed'[q] = AssetsOwed[q] /\ SharesOwed'[q] = SharesOwed[q]
  <2> SUFFICES ASSUME NEW d \in Epochs, NEW l \in LPs, d # e \/ l # lp
               PROVE  /\ Unclaimed(d, l)' = Unclaimed(d, l)
                      /\ AssetsDue(d, l)' = AssetsDue(d, l)
                      /\ SharesDue(d, l)' = SharesDue(d, l)
    BY DEF AssetsOwed, SharesOwed, Requests
  <2>1. claimed'[d][l] = claimed[d][l]
    BY <1>3
  <2> QED BY <1>3, <2>1 DEF Unclaimed, AssetsDue, SharesDue, UserSettledShares
<1> HIDE DEF r
<1>7. /\ SumFunction(AssetsOwed') = SumFunction(AssetsOwed) - AssetsOwed[r] + AssetsOwed'[r]
      /\ SumFunction(SharesOwed') = SumFunction(SharesOwed) - SharesOwed[r] + SharesOwed'[r]
  BY <1>1, <1>2, <1>6, SumChanges
<1>8. /\ SumFunction(AssetsOwed) \in Nat /\ SumFunction(SharesOwed) \in Nat
      /\ AssetsOwed[r] \in Nat /\ SharesOwed[r] \in Nat
  BY <1>1, SumNat
<1> QED BY <1>4, <1>5, <1>7, <1>8

\* A settlement adds the row of its epoch: at most the USDC it paid, and at most the
\* shares it left but for the dust of the split.
LEMMA SettleOwes ==
    ASSUME QueueInv, QueueInv', SettlementInv, EscrowInv, NEW price \in Prices,
           SettleEpoch(price), NEW c \in Epochs, c = currentEpochId
    PROVE  /\ SumFunction(AssetsOwed') <= SumFunction(AssetsOwed) + epochs'[c].settledAssets
           /\ SumFunction(SharesOwed') + Settleable <=
                SumFunction(SharesOwed) + epochs[c].totalSharesRequested + DustOf(c)'
           /\ DustOf(c)' \in Nat
<1> DEFINE req == sharesRequested[c]
           total == epochs[c].totalSharesRequested
           paid == epochs'[c].settledAssets
           assets == Row(AssetsOwed', c, LPs)
           left == Row(SharesOwed', c, LPs)
<1>1. /\ AssetsOwed \in [Requests -> Nat] /\ SharesOwed \in [Requests -> Nat]
      /\ IsFiniteSet(Epochs) /\ IsFiniteSet(LPs) /\ Requests = Epochs \X LPs /\ c \in Epochs /\ c \in Nat
      /\ req \in [LPs -> Nat] /\ SumFunction(req) = total /\ total \in Nat
  <2>1. c \in Epochs /\ c \in Nat /\ req \in [LPs -> Nat] /\ total \in Nat
    BY NumbersNat DEF QueueInv, QueueTypeOK, Epoch
  <2> QED BY <2>1, OwedNat, RequestsFinite DEF Requests, EscrowInv, RequestsAddUp
<1>2. AssetsOwed' \in [Requests -> Nat] /\ SharesOwed' \in [Requests -> Nat]
  BY OwedNatNext
<1>3. /\ ~epochs[c].settled /\ epochs'[c].settled
      /\ epochs'[c].totalSharesRequested = total
      /\ epochs'[c].settledShares = Settleable
      /\ Settleable \in Nat /\ Settleable <= total /\ paid \in Nat
      /\ UNCHANGED <<sharesRequested, claimed>>
      /\ \A lp \in LPs : ~claimed[c][lp]
  <2>1. \A lp \in LPs : ~claimed[c][lp]
    BY <1>1, SettleWrites DEF EscrowInv, ClaimsFollowSettlement
  <2> QED BY <1>1, <2>1, SettleWrites, SettleEffect, SettleableBounds DEF QueueInv
<1>4. \A e \in Epochs \ {c}, lp \in LPs : /\ AssetsOwed'[<<e, lp>>] = AssetsOwed[<<e, lp>>]
                                          /\ SharesOwed'[<<e, lp>>] = SharesOwed[<<e, lp>>]
  <2> SUFFICES ASSUME NEW e \in Epochs \ {c}, NEW lp \in LPs
               PROVE  /\ Unclaimed(e, lp)' = Unclaimed(e, lp)
                      /\ AssetsDue(e, lp)' = AssetsDue(e, lp)
                      /\ SharesDue(e, lp)' = SharesDue(e, lp)
    BY DEF AssetsOwed, SharesOwed, Requests
  <2>1. epochs'[e] = epochs[e]
    BY SettleWrites
  <2> QED BY <1>3, <2>1 DEF Unclaimed, AssetsDue, SharesDue, UserSettledShares
<1>5. /\ Row(AssetsOwed, c, LPs) = [lp \in LPs |-> 0]
      /\ Row(SharesOwed, c, LPs) = [lp \in LPs |-> 0]
  <2>1. \A lp \in LPs : ~Unclaimed(c, lp)
    BY <1>3 DEF Unclaimed
  <2> QED BY <1>1, <2>1 DEF Row, AssetsOwed, SharesOwed, Requests
<1>6. ASSUME NEW lp \in LPs
      PROVE  /\ assets[lp] =
                  IF req[lp] > 0 /\ (req[lp] * Settleable) \div total # 0
                  THEN (((req[lp] * Settleable) \div total) * paid) \div Settleable ELSE 0
             /\ left[lp] =
                  IF req[lp] > 0 THEN req[lp] - (req[lp] * Settleable) \div total ELSE 0
  <2>1. Unclaimed(c, lp)' <=> req[lp] > 0
    BY <1>1, <1>3 DEF Unclaimed
  <2> DEFINE redeemed == (req[lp] * Settleable) \div total
             due == IF redeemed = 0 THEN 0 ELSE (redeemed * paid) \div Settleable
  <2>2. sharesRequested'[c][lp] = req[lp]
    BY <1>3
  <2>3. /\ assets[lp] = IF req[lp] > 0 THEN due ELSE 0
        /\ left[lp] = IF req[lp] > 0 THEN req[lp] - redeemed ELSE 0
    <3>1. <<c, lp>> \in Requests /\ <<c, lp>>[1] = c /\ <<c, lp>>[2] = lp
      BY <1>1 DEF Requests
    <3>2. /\ assets[lp] = AssetsOwed'[<<c, lp>>]
          /\ left[lp] = SharesOwed'[<<c, lp>>]
      BY DEF Row
    <3>3. /\ AssetsDue(c, lp)' = due
          /\ SharesDue(c, lp)' = req[lp] - redeemed
      BY <1>3, <2>2 DEF AssetsDue, SharesDue, UserSettledShares
    <3> HIDE DEF assets, left, due, redeemed, req
    <3>4. AssetsOwed'[<<c, lp>>] = IF req[lp] > 0 THEN due ELSE 0
      BY <2>1, <3>1, <3>3 DEF AssetsOwed
    <3>5. SharesOwed'[<<c, lp>>] = IF req[lp] > 0 THEN req[lp] - redeemed ELSE 0
      BY <2>1, <3>1, <3>3 DEF SharesOwed
    <3> QED BY <3>2, <3>4, <3>5
  <2> HIDE DEF assets, left
  <2> QED BY <2>3
<1>7. /\ SumFunction(AssetsOwed') = SumFunction(AssetsOwed) - 0 + SumFunction(assets)
      /\ SumFunction(SharesOwed') = SumFunction(SharesOwed) - 0 + SumFunction(left)
      /\ assets \in [LPs -> Nat] /\ left \in [LPs -> Nat]
  <2>1. SumFunction([lp \in LPs |-> 0]) = 0
    BY <1>1, SumOfZeros
  <2>2. ASSUME NEW f, NEW g, OneRowApart(f, g, Epochs, LPs, c),
               Row(f, c, LPs) = [lp \in LPs |-> 0]
        PROVE  /\ SumFunction(g) = SumFunction(f) - 0 + SumFunction(Row(g, c, LPs))
               /\ Row(g, c, LPs) \in [LPs -> Nat]
    <3> HIDE DEF req, total, paid
    <3>1. /\ SumFunction(g) = SumFunction(f) - SumFunction(Row(f, c, LPs))
                                + SumFunction(Row(g, c, LPs))
          /\ Row(g, c, LPs) \in [LPs -> Nat]
      BY <1>1, <2>2, SumRowChanges
    <3> QED BY <2>1, <2>2, <3>1
  <2> HIDE DEF req, total, paid
  <2>3. /\ OneRowApart(AssetsOwed, AssetsOwed', Epochs, LPs, c)
        /\ OneRowApart(SharesOwed, SharesOwed', Epochs, LPs, c)
    BY <1>1, <1>2, <1>4 DEF OneRowApart
  <2> QED BY <1>5, <2>2, <2>3
<1>13. /\ assets = SplitAssets(req, LPs, Settleable, total, paid)
       /\ left = SplitShares(req, LPs, Settleable, total)
  <2> HIDE DEF assets, left, req, total, paid
  <2>1. assets = [lp \in LPs |-> assets[lp]] /\ left = [lp \in LPs |-> left[lp]]
    BY <1>7
  <2> QED BY <1>6, <2>1 DEF SplitAssets, SplitShares
<1>8. SumFunction(AssetsOwed) \in Nat /\ SumFunction(SharesOwed) \in Nat
  BY OwedNat, RequestsFinite, SumNat
<1> HIDE DEF assets, left
<1> HIDE DEF req, total, paid
<1>9. SumFunction(assets) <= paid /\ SumFunction(assets) \in Nat
  BY <1>1, <1>3, <1>7, <1>13, AssetsSplit, SumNat
<1> DEFINE dust == IF {lp \in LPs : req[lp] > 0} # {}
                   THEN Cardinality({lp \in LPs : req[lp] > 0}) - 1 ELSE 0
<1>10. dust \in Nat /\ SumFunction(left) + Settleable <= total + dust
  BY <1>1, <1>3, <1>7, <1>13, SharesSplit
<1>11. DustOf(c)' = dust
  BY <1>3 DEF DustOf, Requesters, req
<1>12. SumFunction(left) \in Nat
  BY <1>1, <1>7, SumNat
<1> HIDE DEF dust
<1> QED BY <1>1, <1>3, <1>7, <1>8, <1>9, <1>10, <1>11, <1>12 DEF total, paid

-----------------------------------------------------------------------------
(***************************************************************************)
(* Solvency of the queue.                                                  *)
(***************************************************************************)

LEMMA OwedAssetsSum == OwedAssets = SumFunction(AssetsOwed)
BY DEF OwedAssets, AssetsOwed, Sum

LEMMA UsdcStep ==
    ASSUME QueueInv, QueueInv', SettlementInv, EscrowInv, UsdcCoversClaims, [Next]_vars
    PROVE  UsdcCoversClaims'
<1>0. /\ SumFunction(AssetsOwed) \in Nat /\ queueUsdc \in Nat
      /\ SumFunction(AssetsOwed) <= queueUsdc
  BY OwedNat, RequestsFinite, SumNat, NumbersNat, OwedAssetsSum
  DEF UsdcCoversClaims, QueueInv
<1>1. SUFFICES SumFunction(AssetsOwed') <= queueUsdc'
  BY DEF UsdcCoversClaims, OwedAssets, AssetsOwed, Sum
<1>2. ASSUME NEW lp \in LPs, NEW amount \in RequestSizes, RequestRedemption(lp, amount)
      PROVE  SumFunction(AssetsOwed') <= queueUsdc'
  BY <1>0, <1>2, RequestOwes, RequestEffect
<1>3. ASSUME NEW price \in Prices, SettleEpoch(price)
      PROVE  SumFunction(AssetsOwed') <= queueUsdc'
  <2>1. PICK c \in Epochs : c = currentEpochId
    BY DEF QueueInv, QueueTypeOK
  <2>2. /\ SumFunction(AssetsOwed') <= SumFunction(AssetsOwed) + epochs'[c].settledAssets
        /\ queueUsdc' = queueUsdc + epochs'[c].settledAssets /\ epochs'[c].settledAssets \in Nat
    BY <1>3, <2>1, SettleOwes, SettleEffect
  <2>3. SumFunction(AssetsOwed') \in Nat
    BY OwedNatNext, RequestsFinite, SumNat
  <2> QED BY <1>0, <2>2, <2>3
<1>4. ASSUME NEW e \in Epochs, NEW lp \in LPs, Claim(e, lp)
      PROVE  SumFunction(AssetsOwed') <= queueUsdc'
  <2>1. AssetsDue(e, lp) \in Nat /\ queueUsdc' = queueUsdc - AssetsDue(e, lp)
    BY <1>4, ClaimAmounts DEF Claim, Unclaimed
  <2> QED BY <1>0, <1>4, <2>1, ClaimOwes
<1>5. ASSUME UNCHANGED <<accounting, queueUsdc, currentEpochId>>
      PROVE  SumFunction(AssetsOwed') <= queueUsdc'
  <2>1. AssetsOwed' = AssetsOwed
    BY <1>5 DEF AssetsOwed, Unclaimed, AssetsDue, UserSettledShares
  <2> QED BY <1>0, <1>5, <2>1
<1> QED BY <1>2, <1>3, <1>4, <1>5, EscrowWriters

\* claim() never runs out of USDC: in every state, what the queue holds covers every
\* claim still to come, whatever the prices of the settlements, the order of the claims
\* and the number of epochs and LPs.
THEOREM UsdcAlwaysCoversClaims == Spec => []UsdcCoversClaims
<1>1. ASSUME Init PROVE UsdcCoversClaims
  <2>1. \A e \in Epochs, lp \in LPs : ~Unclaimed(e, lp)
    BY <1>1 DEF Init, NoEpoch, Unclaimed
  <2>2. AssetsOwed = [r \in Requests |-> 0]
    BY <2>1 DEF AssetsOwed, Requests
  <2>3. OwedAssets = 0
    BY <2>2, OwedAssetsSum, RequestsFinite, SumOfZeros
  <2> QED BY <1>1, <2>3 DEF Init, UsdcCoversClaims
<1>2. QueueInv /\ QueueInv' /\ SettlementInv /\ EscrowInv /\ UsdcCoversClaims /\ [Next]_vars
        => UsdcCoversClaims'
  BY UsdcStep
<1>3. Init => UsdcCoversClaims
  BY <1>1
<1> QED BY <1>2, <1>3, InvHolds, SettlementsHold, EscrowHolds, PTL DEF Spec

-----------------------------------------------------------------------------
(***************************************************************************)
(* Dust.  DustIsBounded with what is owed and the dust as sums of their    *)
(* own.                                                                    *)
(***************************************************************************)

AllDust == [e \in Epochs |-> DustOf(e)]

LEMMA DustNat == AllDust \in [Epochs -> Nat]
<1> SUFFICES ASSUME NEW e \in Epochs PROVE DustOf(e) \in Nat
  BY DEF AllDust
<1>1. Requesters(e) \in SUBSET LPs
  BY DEF Requesters
<1> HIDE DEF Requesters
<1>2. IsFiniteSet(Requesters(e)) /\ Cardinality(Requesters(e)) \in Nat
  BY <1>1, QueueAssumption, FS_Subset, FS_CardinalityType
<1>3. Requesters(e) # {} => Cardinality(Requesters(e)) # 0
  BY <1>2, FS_EmptySet
<1> QED BY <1>2, <1>3 DEF DustOf

LEMMA DustNatNext == (AllDust \in [Epochs -> Nat])'
BY DustNat, PTL

DustCounted ==
    SumFunction(SharesOwed) + epochs[currentEpochId].totalSharesRequested
        <= escrowedShares + SumFunction(AllDust)

LEMMA DustSums == DustIsBounded <=> DustCounted
BY DEF DustIsBounded, DustCounted, OwedShares, SharesOwed, AllDust, Sum

LEMMA DustStep ==
    ASSUME QueueInv, QueueInv', SettlementInv, EscrowInv, DustCounted, [Next]_vars
    PROVE  DustCounted'
<1> DEFINE owed == SumFunction(SharesOwed)
           total == epochs[currentEpochId].totalSharesRequested
           dust == SumFunction(AllDust)
<1>0. /\ owed \in Nat /\ total \in Nat /\ dust \in Nat /\ escrowedShares \in Nat
      /\ owed + total <= escrowedShares + dust
      /\ escrowedShares' \in Nat
  <2>1. total \in Nat /\ escrowedShares \in Nat
    BY NumbersNat DEF QueueInv, QueueTypeOK, Epoch
  <2>2. owed \in Nat /\ dust \in Nat
    BY OwedNat, DustNat, RequestsFinite, SumNat
  <2> QED BY <2>1, <2>2 DEF DustCounted, QueueInv, QueueTypeOK
<1>1. ASSUME UNCHANGED <<epochs, sharesRequested>>
      PROVE  AllDust' = AllDust
  BY <1>1 DEF AllDust, DustOf, Requesters
<1>2. ASSUME NEW lp \in LPs, NEW amount \in RequestSizes, RequestRedemption(lp, amount)
      PROVE  DustCounted'
  <2>1. AllDust' = AllDust
    <3> SUFFICES ASSUME NEW e \in Epochs PROVE DustOf(e)' = DustOf(e)
      BY DEF AllDust
    <3>1. CASE e = currentEpochId
      <4>1. currentEpochId \in Nat /\ ~epochs[e].settled /\ ~epochs'[e].settled
        BY <1>2, <3>1, NumbersNat, RequestWrites
        DEF QueueInv, SettlementInv, SettledBeforeOpen
      <4> QED BY <4>1 DEF DustOf
    <3>2. CASE e # currentEpochId
      BY <1>2, <3>2, RequestWrites DEF DustOf, Requesters
    <3> QED BY <3>1, <3>2
  <2>2. /\ SharesOwed' = SharesOwed /\ amount \in Nat
        /\ epochs'[currentEpochId'].totalSharesRequested = total + amount
        /\ escrowedShares' = escrowedShares + amount
    BY <1>2, RequestOwes, RequestEffect
  <2> HIDE DEF total
  <2> QED BY <1>0, <2>1, <2>2 DEF DustCounted
<1>3. ASSUME NEW price \in Prices, SettleEpoch(price)
      PROVE  DustCounted'
  <2>1. PICK c \in Epochs : c = currentEpochId
    BY DEF QueueInv, QueueTypeOK
  <2>2. /\ SumFunction(SharesOwed') + Settleable <= owed + total + DustOf(c)'
        /\ DustOf(c)' \in Nat
    BY <1>3, <2>1, SettleOwes
  <2>3. /\ Settleable \in Nat /\ Settleable <= escrowedShares
        /\ escrowedShares' = escrowedShares - Settleable
        /\ currentEpochId' \in Epochs /\ currentEpochId' = c + 1 /\ c \in Nat
    BY <1>3, <2>1, SettleEffect, SettleWrites, SettleableBounds, NumbersNat DEF QueueInv
  <2>4. epochs'[currentEpochId'].totalSharesRequested = 0
    <3>1. epochs[c + 1] = NoEpoch
      BY <2>1, <2>3 DEF EscrowInv, LaterEpochsEmpty
    <3>2. epochs'[c + 1] = epochs[c + 1]
      BY <1>3, <2>1, <2>3, SettleWrites
    <3> QED BY <2>3, <3>1, <3>2 DEF NoEpoch
  <2>5. SumFunction(AllDust') = dust + DustOf(c)'
    <3>1. DustOf(c) = 0
      BY <1>3, <2>1, SettleWrites DEF DustOf
    <3>2. \A e \in Epochs \ {c} : AllDust'[e] = AllDust[e]
      <4> SUFFICES ASSUME NEW e \in Epochs \ {c} PROVE DustOf(e)' = DustOf(e)
        BY DEF AllDust
      <4> QED BY <1>3, <2>1, SettleWrites DEF DustOf, Requesters
    <3>3. AllDust[c] = 0 /\ AllDust'[c] = DustOf(c)'
      BY <3>1 DEF AllDust
    <3>4. SumFunction(AllDust') = SumFunction(AllDust) - AllDust[c] + AllDust'[c]
      BY <3>2, DustNat, DustNatNext, RequestsFinite, SumChanges
    <3> HIDE DEF dust
    <3> QED BY <1>0, <3>3, <3>4 DEF dust
  <2>6. SumFunction(SharesOwed') \in Nat
    BY OwedNatNext, RequestsFinite, SumNat
  <2> HIDE DEF owed, total, dust
  <2>7. SumFunction(SharesOwed') + 0 <= escrowedShares' + SumFunction(AllDust')
    BY <1>0, <2>2, <2>3, <2>5, <2>6
  <2> QED BY <2>4, <2>7 DEF DustCounted
<1>4. ASSUME NEW e \in Epochs, NEW lp \in LPs, Claim(e, lp)
      PROVE  DustCounted'
  <2> DEFINE due == SharesDue(e, lp)
             returned == Least(due, escrowedShares)
  <2>1. /\ due \in Nat /\ escrowedShares' = escrowedShares - returned
        /\ UNCHANGED <<epochs, sharesRequested, currentEpochId>>
    BY <1>4, ClaimAmounts DEF Claim, Unclaimed
  <2>2. SumFunction(SharesOwed') = owed - due /\ AllDust' = AllDust
    BY <1>1, <1>4, <2>1, ClaimOwes
  <2>3. SumFunction(SharesOwed') \in Nat
    BY OwedNatNext, RequestsFinite, SumNat
  <2>4. epochs'[currentEpochId'].totalSharesRequested = total
    BY <2>1
  <2> HIDE DEF owed, total, due
  <2>5. (owed - due) + total <= escrowedShares' + dust
    \* Either all that is due comes back, or all that is escrowed: owed and total
    \* are then within the dust.
    <3>1. CASE due <= escrowedShares
      BY <1>0, <2>1, <3>1 DEF Least
    <3>2. CASE ~(due <= escrowedShares)
      BY <1>0, <2>1, <3>2 DEF Least
    <3> QED BY <3>1, <3>2
  <2> QED BY <2>2, <2>4, <2>5 DEF DustCounted
<1>5. ASSUME UNCHANGED <<accounting, queueUsdc, currentEpochId>>
      PROVE  DustCounted'
  <2>1. SharesOwed' = SharesOwed /\ AllDust' = AllDust
    BY <1>1, <1>5 DEF SharesOwed, Unclaimed, SharesDue, UserSettledShares
  <2> QED BY <1>0, <1>5, <2>1 DEF DustCounted
<1> QED BY <1>2, <1>3, <1>4, <1>5, EscrowWriters

\* The rounding of claim() over-promises less than one share per further LP of each
\* settled epoch, for any number of epochs and LPs, and nothing else escapes the escrow
\* count, the cap of claim() by all that is escrowed included.
THEOREM DustAlwaysBounded == Spec => []DustIsBounded
<1>1. ASSUME Init PROVE DustCounted
  <2>1. \A e \in Epochs : epochs[e] = NoEpoch
    BY <1>1 DEF Init
  <2>2. SharesOwed = [r \in Requests |-> 0]
    BY <2>1 DEF NoEpoch, Unclaimed, SharesOwed, Requests
  <2>3. SumFunction(SharesOwed) = 0
    BY <2>2, RequestsFinite, SumOfZeros
  <2>4. epochs[currentEpochId].totalSharesRequested = 0 /\ escrowedShares = 0
    <3>1. 0 \in Epochs
      BY ConstantTypes DEF Epochs
    <3> QED BY <1>1, <2>1, <3>1 DEF Init, NoEpoch
  <2>5. SumFunction(AllDust) \in Nat
    BY DustNat, RequestsFinite, SumNat
  <2> QED BY <2>3, <2>4, <2>5 DEF DustCounted
<1>2. QueueInv /\ QueueInv' /\ SettlementInv /\ EscrowInv /\ DustCounted /\ [Next]_vars
        => DustCounted'
  BY DustStep
<1>3. Init => DustCounted
  BY <1>1
<1>4. Spec => []DustCounted
  BY <1>2, <1>3, InvHolds, SettlementsHold, EscrowHolds, PTL DEF Spec
<1> QED BY <1>4, DustSums, PTL
=============================================================================
