SPECIFICATION Spec
CONSTANTS
    a1 = a1
    a2 = a2
    a3 = a3
    Agents <- TwoAgents
    Protocols <- BothProtocols
    PoolSize = 2
    MaxEnds = 1
INVARIANTS
    ListeningIsConnected
CHECK_DEADLOCK FALSE
