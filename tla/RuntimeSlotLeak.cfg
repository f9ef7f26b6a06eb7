\* Two requests under one concurrency quota with one slot.
SPECIFICATION FairSpec
CONSTANTS
    r1 = r1
    r2 = r2
    r3 = r3
    Requests <- TwoRequests
    Turns <- NoneSet
    Streaming <- NoneSet
    Routed <- TwoRequests
    RequestId <- OwnId
    Tokens <- OneToken
    BodyBytes <- OneToken
    NB = 0
    BKind <- NoPolicies
    BLimit <- NoPolicies
    BMatch <- NoPolicies
    BPeriod <- NoPolicies
    BThresholds <- NoPolicies
    BEnforced <- NoneSet
    Forceable <- NoneSet
    NQ = 1
    QKind <- OneConcurrency
    QLimit <- OneLimit
    QBurst <- OneBurst
    QLoss <- OneLoss
    QMatch <- OneMatch
    QSlot <- OnePeriod
    LeaseTTL = 2
    RequestTimeout = 1
    LastArrival = 1
    MayLoseHotState = FALSE
PROPERTY ConcurrencySlotsReclaimed
