CONSTANTS
    NumBlocks = 4
    DiskFails = TRUE
    MaxLoss = 3
    MaxEarly = 2
SPECIFICATION FairSpec
CHECK_DEADLOCK FALSE
INVARIANTS AckedIsStored NothingMissing
PROPERTIES ServedEnds
