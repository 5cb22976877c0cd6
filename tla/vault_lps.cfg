SPECIFICATION Spec
CONSTANTS
    lp1 = lp1  lp2 = lp2  f1 = f1  f2 = f2  p1 = p1  p2 = p2  c1 = c1
    LPs = {lp1, lp2}
    Policies = {}
    Portfolios = {}
    Cedants = {c1}
    Terms <- YearOne
    Durations = {}
    OffsetSteps = {}
    MaxOffset = 0
    Amounts = {4, 7}
    ShareAmounts = {3}
    DepositCaps = {0, 9}
    InvestorLimits = {0, 5}
    Standings = {"eligible", "exit only", "blocked"}
    VIRTUAL_SHARES = 1
    BASIS_POINTS = 10
    SECONDS_PER_YEAR = 1
    bufferRatioBps = 2
    managementFeeBps = 1
    MAX_ACTIVE_POLICIES = 2
    MAX_PREMIUM_PORTFOLIOS = 1
    MaxBlockTime = 3
    MaxBalance = 14
    MaxSupply = 20
    MaxPremium = 10
PROPERTIES
    EntryAndExitNeverDilute
SYMMETRY LPSymmetry
CHECK_DEADLOCK FALSE
