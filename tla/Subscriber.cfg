SPECIFICATION FairSpec
CONSTANTS
    a1 = a1
    a2 = a2
    a3 = a3
    Agents <- ThreeAgents
    Protocols <- BothProtocols
    PoolSize = 2
    MaxEnds = 1
INVARIANTS
    SubscriberTypeOK
    VerdictIsRight
PROPERTIES
    VerdictComes
CHECK_DEADLOCK FALSE
