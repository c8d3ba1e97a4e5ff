\* Both classes, three threads that lock twice; CreateEventA may fail.
SPECIFICATION FairSpec
CONSTANTS
    Classes <- BothClasses
    Threads = {t1, t2, t3}
    None = None
    Invalid = Invalid
    EventMayFail = TRUE
    MaxDepth = 2
    MaxThreadCount = 3
INVARIANTS
    TypeOK
    Exclusion
    InitializedOnce
    OneBaton
    RecursionNeverWaits
PROPERTIES
    EventIsStable
    EvThreadsJoin
CHECK_DEADLOCK FALSE
