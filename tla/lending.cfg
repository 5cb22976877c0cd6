SPECIFICATION Spec
SYMMETRY BorrowerSymmetry
CONSTANTS
    lender = lender  b1 = b1  b2 = b2
    Accounts = {lender, b1, b2}
    Lenders = {lender}
    Borrowers = {b1, b2}
    feeRecipient = lender
    Amounts = {1, 2}
    MaxSupplied = 3
    MaxShares = 8
    MaxCollateral = 2
    Prices <- AnyPrice
    RiskParams <- LooseOrTight
    Caps <- NoCaps
    ProtocolFees = {5}
    baseRate = 0
    slope = 1
    WAD = 2
    MAX_BPS = 10
    VIRTUAL_SHARES = 2
    VIRTUAL_ASSETS = 1
    MaxBlockTime = 3
    None = None
INVARIANTS
    LendingTypeOK
    CashIsUnlent
    NoNakedDebt
PROPERTIES
    OnlyBadDebtCostsLenders
CHECK_DEADLOCK FALSE
