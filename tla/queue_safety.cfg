SPECIFICATION Spec
CONSTANTS
    lp1 = lp1  lp2 = lp2  lp3 = lp3
    LPs = {lp1, lp2, lp3}
    InitialShares = 1
    RequestSizes = {1}
    EPOCH_FLOOR = 1
    EPOCH_CEILING = 2
    InitialDuration = 1
    MaxEpochs = 2
    Prices = {1, 3}
    PRICE_UNIT = 2
    Eligibilities = {"eligible", "blocked"}
    StrayTransfers = TRUE
    MaxBlockTime = 3
SYMMETRY LPSymmetry
INVARIANTS
    QueueTypeOK
    UsdcCoversClaims
    CustodyCoversEscrow
    DustIsBounded
    SettlementsAreSpaced
PROPERTIES
    SettledEpochsFinal
CHECK_DEADLOCK FALSE
