CONSTANTS
    Programs = {"poll"}
    Clients = {c1, c2}
    NULL = NULL
    DANGLING = DANGLING
    Listening = 3
    MaxFd = 5
    TableSize = 4
    MaxEvents = 2
    BUFFER_SIZE = 1
    MaxAlloc = 8
    Backlog = 2
    MaxFaults = 0
    MaxSend = 2
SPECIFICATION Spec
INVARIANTS ReadyToRead
