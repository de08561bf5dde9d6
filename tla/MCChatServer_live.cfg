CONSTANTS
    c1 = c1
    c2 = c2
    Clients = {c1, c2}
    NULL = NULL
    Listening = 3
    MaxFd = 5
    BUFFER_SIZE = 2
    Backlog = 2
    SockCap = 2
    MaxSend = 2
    MaxSignals = 1
    MallocFails = FALSE
SPECIFICATION FairSpec
INVARIANTS StreamIntact
PROPERTIES ExitsAfterSignal InputIsRelayed OutputIsSent
