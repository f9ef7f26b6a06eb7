\* A Responses WebSocket with two turns.
SPECIFICATION Spec
CONSTANTS
    Admins = {x, y}
    TenantOf <- MCTenantOf
    ActorOf <- MCActorOf
    Keys = {k1, k2}
    IdempotencyTtl = 3
    MaxVersion = 2
    MaxDiagnostics = 1
    MaxSnapshots = 5
    LocalEnvironment = TRUE
    Documents <- MCDocuments
    Workers = {"w"}
    BucketWidth <- MCBucketWidth
    UsageScanLimit = 2
    Seed <- MCSeed
    Requests <- MCRequests
    Scenarios <- TurnScenarios
INVARIANTS
    EveryTurnCharged
SYMMETRY Symmetry
CHECK_DEADLOCK FALSE
