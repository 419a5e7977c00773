SPECIFICATION FairTrackingSpec
CONSTANTS
    u1 = u1
    w1 = w1
    w2 = w2
    Users <- OneUser
    Workers <- TwoWorkers
    MaxDispatchSize = 2
    MaxFailures = 1
    MaxMessages = 3
    MaxToggles = 0
    MaxLost = 1
INVARIANTS
    TrackingTypeOK
    EachCountedOnce
    AckedWasReceived
PROPERTIES
    InTimeIsAcknowledged
CHECK_DEADLOCK FALSE
