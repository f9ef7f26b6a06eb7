\* Every admin handler, two requests in flight.
SPECIFICATION Spec
CONSTANTS
    Admins = {x, y}
    TenantOf <- MCTenantOf
    Keys = {"k1"}
    IdempotencyTtl = 1
    MaxVersion = 2
    MaxDiagnostics = 1
    LocalEnvironment = TRUE
    Seed <- MCSeed
    Requests <- MCRequests
    Scenarios <- MCScenarios
INVARIANTS
    TypeOK
    ReferencesConsistent
    DryRunMatchesStore
    AuditTrailComplete
    OncePerKey
    FreezeBounded
    CodexCredentialConsistent
    AnswersStayInTenant
SYMMETRY Symmetry
CHECK_DEADLOCK FALSE
