SPECIFICATION Spec
CONSTANTS
    lp1 = lp1  lp2 = lp2  lp3 = lp3
    LPs = {lp1}
    InitialShares = 1
    RequestSizes = {1}
    EPOCH_FLOOR = 1
    EPOCH_CEILING = 2
    InitialDuration = 2
    MaxEpochs = 2
    Prices = {2}
    PRICE_UNIT = 2
    Eligibilities = {}
    StrayTransfers = FALSE
    MaxBlockTime = 4
PROPERTIES
    RequestsGiveNotice
CHECK_DEADLOCK FALSE
