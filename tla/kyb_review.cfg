SPECIFICATION Spec
CONSTANTS
    a1 = a1  a2 = a2  w1 = w1  w2 = w2  r1 = r1  r2 = r2  r3 = r3  c1 = c1  n1 = n1  h1 = h1
    Applications = {a1, a2}
    Applicants = {w1, w2}
    InitialApplications <- OneUnderReview
    Requests = {r1, r2, r3}
    Rescreens = {c1}
    Nonces = {n1}
    Hits = {h1}
    None = None
SYMMETRY Interchangeable
INVARIANTS
    KybTypeOK
    ApprovedWereScreened
    SignaturesAreSingleUse
    TransitionsLeaveATrace
    HitsReachTheSentinel
PROPERTIES
    DecisionsAreFinal
CHECK_DEADLOCK FALSE
