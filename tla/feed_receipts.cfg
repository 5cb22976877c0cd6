SPECIFICATION Spec
CONSTANTS
    c1 = c1  c2 = c2  u1 = u1  u2 = u2  u3 = u3  i1 = i1  i2 = i2  q1 = q1
    Claims = {c1}
    Refreshes = {u1, u2, u3}
    Assessors = {i1, i2}
    Calls = {q1}
    Deployments <- OverlapOrDraft
    REORG_SAFETY = 1
    MAX_BLOCK_RANGE_PER_RUN = 1
    Window = 4
    MAX_CLAIMS_PER_RUN = 1
    Overfetch = 2
    LinkRows = 1
    MaxHeight = 3
    MaxDrafts = 2
    MaxBlind = 1
    None = None
INVARIANTS
    TrailMirrorsClaimReceipt
CHECK_DEADLOCK FALSE
