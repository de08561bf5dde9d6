CONSTANTS
    Procs = {p1, p2, p3}
    MAX_TRIES = 2
    MaxFiles = 3
    MaxCalls = 4
    MaxUnlinks = 1
    MaxFaults = 1
SPECIFICATION FairSpec
INVARIANTS OpenedIsInitialized OneFile
PROPERTIES OpenReturns
CHECK_DEADLOCK FALSE
