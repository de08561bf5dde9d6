CONSTANTS
    Programs = {"poll", "select", "epoll", "epollnew"}
    Clients = {c1, c2}
    NULL = NULL
    DANGLING = DANGLING
    Listening = 3
    MaxFd = 5
    TableSize = 4
    MaxEvents = 2
    BUFFER_SIZE = 1
    MaxAlloc = 2
    Backlog = 2
    MaxFaults = 1
    MaxSend = 2
SPECIFICATION FairSpec
INVARIANTS TableMatches EventsNotStale
PROPERTIES ClosedOnlyByPeer ExitsAfterSignal InputIsRead
