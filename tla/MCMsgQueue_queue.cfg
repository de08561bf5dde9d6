CONSTANTS
    p1 = p1
    p2 = p2
    p3 = p3
    Roles <- MCRoles
    Procs = {p1, p2, p3}
    Priorities = {0, 1}
    MaxMsg = 2
    MaxSends = 3
    MaxReceives = 3
    MaxDeaths = 1
    MaxOthers = 2
    NULL = NULL
SPECIFICATION FairSpec
INVARIANTS ListsPartition
PROPERTIES ArrivalNotifies BlockedReturn RefinesQueue
CHECK_DEADLOCK FALSE
