CONSTANTS
    Threads = {t1, t2, t3, t4}
    Programs = {"plain", "cancel"}
    MaxCalls = 8
SPECIFICATION FairSpec
INVARIANTS CountsExact DestroySpares
PROPERTIES CallsReturn RefinesLock
CHECK_DEADLOCK FALSE
