SPECIFICATION TrackingSpec
CONSTANTS
    u1 = u1
    w1 = w1
    w2 = w2
    Users <- OneUser
    Workers <- OneWorker
    MaxDispatchSize = 2
    MaxFailures = 0
    MaxMessages = 3
    MaxToggles = 0
    MaxLost = 0
INVARIANTS
    ListedIsNotReceived
CHECK_DEADLOCK FALSE
