SPECIFICATION ServicesSpec
CONSTANTS
    s1 = s1
    s2 = s2
    s3 = s3
    u1 = u1
    u2 = u2
    p1 = p1
    p2 = p2
    k1 = k1
    k2 = k2
    k3 = k3
    \* AITurns
    AISessions = {s1, s2, s3}
    TurnsOf <- TurnsOfSessions
    StepsOf <- OneStep
    Branches = {}
    TurnRequests = {q1, q2}
    TurnLimit = 2
    Kinds = {"write", "sensitive"}
    EndMayFail = TRUE
    MaxChanges = 1
    MaxTurnFaults = 1
    \* MutationReplay
    MutationStreams = {m1, m2, m3}
    Keys = {k1, k2}
    Bodies = {b1, b2}
    MaxEntries = 1
    MaxCommits = 2
    MaxRestarts = 1
    \* PodAccess
    Pods = {p1, p2}
    PARequests = {k1, k2, k3}
    RequestOf <- PodRequests
    MaxPending = 2
    MaxActive = 1
    MaxConnections = 0
    MaxTickets = 3
    MaxGrants = 0
    \* TerminalSession
    TerminalRequests = {h1, h2}
    Janitor = janitor
    ServerGivesUp = FALSE
    MaxCallFailures = 0
    MaxCrashes = 1
    \* RowLocks
    Backends = {d1, d2, d3}
    \* AdministratorAccounts
    Users = {u1, u2}
    Transactions = {t1, t2}
    MaxFailures = 2
    \* LoginSessions
    Logins = {l1, l2, l3}
    MaxFailedLoginAttempts = 2
    MaxPasswords = 2
    \* ResourceCache
    Objects = {1, 2, 3}
    Amounts = {1, 2}
    Gone = Gone
    Ceiling = 100
    Readers = {r1, r2}
    Limits = {1, 2}
    MaxPaging = 1
    MaxEvents = 1
    \* ClusterOverview
    OverviewClusters = {c1, c2}
    Callers = {v1, v2}
    MaxCachedClusters = 1
    MaxLoads = 3
    \* ClusterLimiter
    NoBudget = NoBudget
    Series = {x, y}
    BatchSizes = {1, 2}
    SampleRate = 1
    BurstWindow = 4
    MaxActiveSeries = 2
    SeriesWindow = 1
    MaxTime = 4
    \* MetricsForwarding
    Forwards = {f1, f2}
    IngestStreams = {1, 2}
    NoStream = NoStream
    NoForward = NoForward
    MaxForwardFaults = 2
CHECK_DEADLOCK FALSE
INVARIANTS
    ServicesTypeOK
    WorkBelongsToRunningTurn
    QuotaHolds
    PerformedOnce
    AnswersAreDue
    OnlyLatestAccess
    OnlyLateCompletionDeadlocks
    SomeAdministratorRemains
    TotalsMatchItems
    WalkIsComplete
    RefusalsAreJustified
    OnlyUnsentAreOrphaned
    SessionsAreCurrent
    OverviewGoesForward
