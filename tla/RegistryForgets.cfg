SPECIFICATION CRSpec
CONSTANTS
    a1 = a1
    a2 = a2
    c1 = c1
    c2 = c2
    MaxSessions = 3
    Agents = {a1, a2}
    Clusters = {c1, c2}
    AgentOf <- Churn
    ClusterOf <- OwnClusters
    MaxConcurrentAgents = 2
    MaxRemembered = 1
    Subscribers = {}
    ChannelSize = 0
    MaxRevocations = 0
CHECK_DEADLOCK FALSE
INVARIANT MemoryIsBounded
