CONSTANTS
    NumBlocks = 3
    DiskFails = FALSE
    MaxLoss = 1
    MaxEarly = 1
SPECIFICATION Spec
CHECK_DEADLOCK FALSE
INVARIANTS FileIntact
