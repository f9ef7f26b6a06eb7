\* The platform service, two requests in flight, in memory and in Postgres.
SPECIFICATION Spec
CONSTANTS
    Clients = {c1, c2}
    Seed <- MCSeed
    Scenarios <- MCScenarios
    Requests <- MCRequests
    Personal <- MCPersonal
    SingleUser <- MCSingleUser
    AttemptTtl = 1
    MaxVersion = 2
INVARIANTS
    TypeOK
    ShutOutHolds
    InvitationAdmitsOnce
    AnswersStayInTenant
PROPERTIES
    LoginSpec
SYMMETRY Symmetry
CHECK_DEADLOCK FALSE
