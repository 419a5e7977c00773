SPECIFICATION Spec
CONSTANTS
    p1 = p1
    p2 = p2
    r1 = r1
    r2 = r2
    r3 = r3
    Pages <- OnePage
    Requests <- ThreeRequests
    MaxClicks = 3
INVARIANTS
    OneRecording
CHECK_DEADLOCK FALSE
