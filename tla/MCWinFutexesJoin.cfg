\* WinFutexRecC: a thread waits for ever for an initialization that is over.
SPECIFICATION FairSpec
CONSTANTS
    Classes <- RecOnly
    Threads = {t1, t2}
    None = None
    Invalid = Invalid
    EventMayFail = FALSE
    MaxDepth = 1
    MaxThreadCount = 2
PROPERTY
    AllThreadsJoin
CHECK_DEADLOCK FALSE
