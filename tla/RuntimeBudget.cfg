\* A request and a WebSocket turn under two request budget policies and no quota policy.
SPECIFICATION FairSpec
CONSTANTS
    r1 = r1
    r2 = r2
    r3 = r3
    Requests <- TwoRequests
    Turns <- BudgetTurns
    Streaming <- NoneSet
    Routed <- TwoRequests
    RequestId <- OwnId
    Tokens <- OneToken
    BodyBytes <- OneToken
    NB = 2
    BKind <- BudgetKinds
    BLimit <- BudgetLimits
    BMatch <- BudgetMatches
    BPeriod <- BudgetPeriods
    BThresholds <- BudgetThresholds
    BEnforced <- BudgetEnforced
    Forceable <- NoneSet
    NQ = 0
    QKind <- NoPolicies
    QLimit <- NoPolicies
    QBurst <- NoPolicies
    QLoss <- NoPolicies
    QMatch <- NoPolicies
    QSlot <- NoPolicies
    LeaseTTL = 2
    RequestTimeout = 1
    LastArrival = 1
    MayLoseHotState = FALSE
INVARIANTS
    TypeOK
    BudgetCounterExact
    ReservedWithinHardLimit
    ActiveLeaseNotExpired
PROPERTIES
    BudgetReservationsReclaimed
