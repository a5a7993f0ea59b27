SPECIFICATION CRSpec
CONSTANTS
    a1 = a1
    a2 = a2
    c1 = c1
    c2 = c2
    MaxSessions = 2
    Agents = {a1, a2}
    Clusters = {c1, c2}
    AgentOf <- Successor
    ClusterOf <- SharedCluster
    MaxConcurrentAgents = 2
    MaxRemembered = 1
    Subscribers = {}
    ChannelSize = 0
    MaxRevocations = 1
CHECK_DEADLOCK FALSE
INVARIANT ConnectedClusterIsRouted
