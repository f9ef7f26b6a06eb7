\* Logins, sessions, invitations, API keys and the admins, two requests in flight.
SPECIFICATION Spec
CONSTANTS
    Admins = {x, y}
    TenantOf <- MCTenantOf
    Keys = {"k1"}
    IdempotencyTtl = 1
    MaxVersion = 2
    MaxDiagnostics = 1
    SessionTtl = 2
    AttemptTtl = 1
    FailedWindow = 1
    MaxFailed = 1
    Subjects = {1, 3}
    SingleUser <- MCSingleUser
    Seed <- MCSeed
    Requests <- MCRequests
    Scenarios <- MCScenarios
INVARIANTS
    TypeOK
    OneLoginPerAttempt
    EarlierSessionsRevoked
    InvitationAdmitsOne
    FailedAuthBounded
PROPERTIES
    RevokedStaysRevoked
SYMMETRY Symmetry
CHECK_DEADLOCK FALSE
