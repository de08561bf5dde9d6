CONSTANTS
    c1 = c1
    c2 = c2
    c3 = c3
    Clients = {c1, c2, c3}
    NULL = NULL
    Listening = 3
    MaxFd = 5
    BUFFER_SIZE = 1
    Backlog = 1
    SockCap = 1
    MaxSend = 1
    MaxSignals = 1
    MallocFails = TRUE
SPECIFICATION Spec
SYMMETRY ClientSymmetry
INVARIANTS TypeOK TablesAgree WriteInterest ReadinessNotStale BuffersFit
PROPERTIES RefinesRelay
