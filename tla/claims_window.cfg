SPECIFICATION Spec
CONSTANTS
    k1 = k1  k2 = k2  f1 = f1  c1 = c1
    Portfolios = {f1}
    Cedants = {c1}
    Terms <- OneTerm
    Claims = {k1}
    ClaimAmounts = {1, 2}
    DISPUTE_WINDOW_FLOOR = 1
    DISPUTE_WINDOW_CEILING = 3
    DEFAULT_DISPUTE_WINDOW = 2
    Scores = {0, 6, 10}
    MAX_BPS = 10
    ANOMALY_THRESHOLD_FLOOR_BPS = 5
    DEFAULT_ANOMALY_THRESHOLD_BPS = 8
    Thresholds = {5}
    MaxCash = 2
    FeesCharged = TRUE
    MaxBlockTime = 6
INVARIANTS
    ClaimTypeOK
    AlwaysChallengeable
    DisputesStayFrozen
CHECK_DEADLOCK FALSE
