SPECIFICATION ProgressSpec
CONSTANTS
    \* Enrollment
    MaxEnrollments = 2
    MaxAgents = 2
    Installs = {i}
    Calls = {k, l}
    Names = {n}
    MaxEnrollmentFaults = 2
    NoCall = NoCall
    NoName = NoName
    \* CredentialRotation
    MaxCredentials = 2
    Conns = {c1}
    NoConn = NoConn
    MaxFaults = 2
    StoreMayFail = TRUE
    \* TerminalSession
    TerminalRequests = {h1, h2}
    Janitor = janitor
    ServerGivesUp = TRUE
    MaxCallFailures = 1
    MaxCrashes = 1
    \* MetricsForwarding
    Forwards = {f1, f2}
    IngestStreams = {1, 2}
    NoStream = NoStream
    NoForward = NoForward
    MaxForwardFaults = 1
CHECK_DEADLOCK FALSE
PROPERTIES
    RegistrationReachesAgent
    RevokedAgentIsDisconnected
    AgentReconnects
    ExpiredGrantsNothing
    MetricsKeepFlowing
