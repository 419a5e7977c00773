SPECIFICATION FairSpec
CONSTANTS
    u1 = u1
    w1 = w1
    w2 = w2
    Users <- OneUser
    Workers <- TwoWorkers
    MaxDispatchSize = 1
    MaxFailures = 0
    MaxMessages = 2
    MaxToggles = 2
PROPERTIES
    ResumeResumes
CHECK_DEADLOCK FALSE
