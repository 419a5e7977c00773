SPECIFICATION TableSpec
CONSTANTS
    h1 = h1
    h2 = h2
    ann = ann
    bob = bob
    a1 = a1
    q1 = q1
    Handlers <- TwoHandlers
    Users <- TwoUsers
    Batches <- TwoBatches
    Registered <- BothUsers
    MaxResets = 1
    Asks <- OneAsk
    MaxClicks = 2
SYMMETRY SetOfHandlers
INVARIANTS
    TableTypeOK
    NeverOvercounts
PROPERTIES
    QuietTotals
    ClearShows
    ListIsFresh
CHECK_DEADLOCK FALSE
