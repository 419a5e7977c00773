SPECIFICATION FairSpec
CONSTANTS
    u1 = u1
    w1 = w1
    w2 = w2
    Users <- OneUser
    Workers <- TwoWorkers
    MaxDispatchSize = 2
    MaxFailures = 1
    MaxMessages = 3
    MaxToggles = 2
INVARIANTS
    TypeOK
    CompleteMeansAll
    TrackedBeforePublished
    NeverOlder
PROPERTIES
    RestIsForGood
    CompletesUnlessPaused
CHECK_DEADLOCK FALSE
