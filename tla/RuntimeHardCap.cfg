\* Two requests under one request budget with a hard limit of one.
SPECIFICATION Spec
CONSTANTS
    r1 = r1
    r2 = r2
    r3 = r3
    Requests <- TwoRequests
    Turns <- NoneSet
    Streaming <- NoneSet
    Routed <- TwoRequests
    RequestId <- OwnId
    Tokens <- OneToken
    BodyBytes <- OneToken
    NB = 1
    BKind <- OneRequestBudget
    BLimit <- OneLimit
    BMatch <- OneMatch
    BPeriod <- OnePeriod
    BThresholds <- NoThreshold
    BEnforced <- FirstPolicy
    Forceable <- NoneSet
    NQ = 0
    QKind <- NoPolicies
    QLimit <- NoPolicies
    QBurst <- NoPolicies
    QLoss <- NoPolicies
    QMatch <- NoPolicies
    QSlot <- NoPolicies
    LeaseTTL = 2
    RequestTimeout = 1
    LastArrival = 1
    MayLoseHotState = FALSE
INVARIANT HardRequestCap
