\* A webhook and a local sink, and an administrator.
SPECIFICATION FairSpec
CONSTANTS
    x1 = x1
    x2 = x2
    b1 = b1
    b2 = b2
    s1 = s1
    s2 = s2
    Sources <- MCSources
    Causes <- MCCauses
    Cause <- MCCause
    Subs <- MCSubs
    Matches <- MCMatches
    Sinks <- MCSinks
    SubSink <- TwoSinks
    SinkKind <- MCSinkKind
    Managed <- MCManaged
    MaxAttempts <- OneOrTwo
    DefaultMax = 2
    BatchLimit = 2
    AdminLimit = 2
INVARIANTS
    TypeOK
    BatchIsCurrent
    AttemptsBounded
    DeliveredWasAcknowledged
PROPERTIES
    SettledIsFinal
    EventsSettle
\* The system is quiet when no event is due and nobody acts.
CHECK_DEADLOCK FALSE
