SPECIFICATION SessionsSpec
CONSTANTS
    MaxSessions = 2
    Requests = {r1, r2, r3}
    GlobalSlots = 2
    SessionSlots = 1
    \* PodAccess
    u1 = u1
    u2 = u2
    p1 = p1
    k1 = k1
    k2 = k2
    Pods = {p1}
    PARequests = {k1, k2}
    RequestOf <- PodRequests
    MaxPending = 2
    MaxActive = 1
    MaxConnections = 1
    MaxTickets = 2
    MaxGrants = 1
    \* PodPortForward
    Window = 1
    ClientLimit = 1
    PodLimit = 1
    MaxClientChunks = 2
    MaxPodChunks = 2
    \* AITurns
    s1 = s1
    AISessions = {s1}
    TurnsOf <- OneTurn
    StepsOf <- StepsOfBranches
    Branches = {"b1", "b2"}
    TurnRequests = {q1}
    TurnLimit = 1
    Kinds = {"write", "sensitive", "delegate"}
    EndMayFail = FALSE
    MaxChanges = 1
    MaxTurnFaults = 1
CHECK_DEADLOCK FALSE
INVARIANTS
    SessionsTypeOK
    SlotsAccounted
    ExitEndsTransfer
    PerformedAsDecided
PROPERTIES
    ReplacedIsClosed
    ImplementsGracefulDrain
    ShutdownCompletes
    RevokedAccessEnds
    ForwardsEnd
    TurnEnds
