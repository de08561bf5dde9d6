CONSTANTS
    Consumers = {c1, c2, c3}
    Producers = {p1, p2}
    Programs = {"test3", "test4", "mysem"}
    MaxItems = 2
    MaxTakes = 2
SPECIFICATION WaitFairSpec
INVARIANTS NoLostWakeup
PROPERTIES SleepersServed
CHECK_DEADLOCK FALSE
