SPECIFICATION AgentsSpec
CONSTANTS
    \* ConnectionRegistry
    a1 = a1
    a2 = a2
    c1 = c1
    c2 = c2
    MaxSessions = 3
    Agents = {a1, a2}
    Clusters = {c1, c2}
    AgentOf <- Churn
    ClusterOf <- OwnClusters
    MaxConcurrentAgents = 2
    MaxRemembered = 1
    Subscribers = {"u"}
    ChannelSize = 1
    MaxRevocations = 1
    \* Enrollment
    MaxEnrollments = 2
    MaxAgents = 3
    Installs = {i, j}
    Calls = {k, l}
    Names = {n, m}
    MaxFaults = 1
    NoCall = NoCall
    NoName = NoName
SYMMETRY Symmetry
INVARIANTS
    TypeOK
    RowsAgree
    RoutesAreRegistered
    ReasonNotWeaker
    EventsConverge
PROPERTY ImplementsOneTimeGrant
