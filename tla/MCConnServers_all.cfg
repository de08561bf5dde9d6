CONSTANTS
    Programs = {"iterative", "fork", "thread", "prefork", "echo"}
    Clients = {c1, c2, c3}
    NULL = NULL
    PROCESS_NUM = 2
    Workers = {1, 2, 3}
    MaxHeld = 2
    Backlog = 2
    MaxFaults = 1
SPECIFICATION FairSpec
INVARIANTS NoLeak HandlersReap PoolBounded
PROPERTIES EveryoneAnswered
CHECK_DEADLOCK FALSE
