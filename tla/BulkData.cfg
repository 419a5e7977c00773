SPECIFICATION FairSpec
CONSTANTS
    w1 = w1
    w2 = w2
    e1 = e1
    e2 = e2
    e3 = e3
    e4 = e4
    Workers <- TwoWorkers
    Items <- FourItems
    MaxDispatchSize = 2
    MaxFailures = 2
INVARIANTS
    BulkTypeOK
    NothingLost
    NothingTwice
    DeliveredAtMostOnce
    LossBounded
PROPERTIES
    ImplementsDelivery
    EventuallySettled
CHECK_DEADLOCK FALSE
