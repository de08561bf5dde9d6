CONSTANTS
    PROCESS_NUM = 2
    MaxConns = 6
    MaxAcceptErrors = 3
SPECIFICATION FairSpec
CHECK_DEADLOCK FALSE
INVARIANTS HandlerFindsChild LivingNotLow IdleBound PostComing
PROPERTIES ConnectionsServed
