SPECIFICATION FairSpec
CONSTANTS
    p1 = p1
    p2 = p2
    r1 = r1
    r2 = r2
    r3 = r3
    Pages <- TwoPages
    Requests <- TwoRequests
    MaxClicks = 4
INVARIANTS
    ConsoleTypeOK
    WaitSerializes
    StatsButtonFits
    PauseButtonRecovers
PROPERTIES
    WaitEnds
    LaterRecordingsWrite
CONSTRAINT Patient
CHECK_DEADLOCK FALSE
