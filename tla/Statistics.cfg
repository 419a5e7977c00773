SPECIFICATION Spec
CONSTANTS
    h1 = h1
    h2 = h2
    ann = ann
    bob = bob
    a1 = a1
    a2 = a2
    b1 = b1
    Handlers <- TwoHandlers
    Users <- TwoUsers
    Batches <- FourBatches
    Registered <- BothUsers
    MaxResets = 1
SYMMETRY SetOfHandlers
INVARIANTS
    StatisticsTypeOK
    Accurate
    NoCrossTalk
CHECK_DEADLOCK FALSE
