\* Two requests under quota policies of every kind, with the hot state lost and
\* regained, and a turn of a WebSocket that may outlive its budget lease.
SPECIFICATION Spec
CONSTANTS
    r1 = r1
    r2 = r2
    r3 = r3
    Requests <- TwoRequests
    Turns <- QuotaStreaming
    Streaming <- QuotaStreaming
    Routed <- QuotaRouted
    RequestId <- OwnId
    Tokens <- OneToken
    BodyBytes <- OneToken
    NB = 2
    BKind <- SideKinds
    BLimit <- SideLimits
    BMatch <- SideMatches
    BPeriod <- SidePeriods
    BThresholds <- SideThresholds
    BEnforced <- SideEnforced
    Forceable <- SideForceable
    NQ = 6
    QKind <- QuotaKindTable
    QLimit <- QuotaLimits
    QBurst <- QuotaBursts
    QLoss <- QuotaLosses
    QMatch <- QuotaMatches
    QSlot <- QuotaSlots
    LeaseTTL = 1
    RequestTimeout = 1
    LastArrival = 0
    MayLoseHotState = TRUE
INVARIANTS
    ConcurrencyCounterExact
    ConcurrencyWithinLimit
    RateWithinLimit
    LossAllowanceBounded
    AnsweredHoldsNothing
