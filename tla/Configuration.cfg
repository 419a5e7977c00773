SPECIFICATION FairSpec
CONSTANTS
    p1 = p1
    p2 = p2
    r1 = r1
    r2 = r2
    Pages <- TwoPages
    Requests <- TwoRequests
    Inputs = {"plain", "wide"}
    Wide = {"wide"}
    Programs = {"subscriber"}
    MaxClicks = 4
    MaxFailures = 1
INVARIANTS
    ConfigurationTypeOK
    RunsWithOneConfig
    NoChangeLost
    FormFits
PROPERTIES
    LoadingEnds
CHECK_DEADLOCK FALSE
