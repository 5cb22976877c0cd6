SPECIFICATION KeeperSpec
CONSTANTS
    lp1 = lp1  lp2 = lp2  lp3 = lp3
    LPs = {lp1, lp2, lp3}
    InitialShares = 1
    RequestSizes = {1}
    EPOCH_FLOOR = 1
    EPOCH_CEILING = 1
    InitialDuration = 1
    MaxEpochs = 2
    Prices = {2}
    PRICE_UNIT = 2
    Eligibilities = {}
    StrayTransfers = TRUE
    MaxBlockTime = 3
PROPERTIES
    RequestsSettle
CHECK_DEADLOCK FALSE
