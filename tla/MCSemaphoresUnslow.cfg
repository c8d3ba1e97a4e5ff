\* A SemaMutex<UnslowSemaphore> and three threads: two of them are inside.
SPECIFICATION Spec
CONSTANTS
    Classes <- UnslowOnly
    Takers = {t1, t2, t3}
    Givers = {}
    None = None
    InitialCount = 1
    MaxGiven = 0
INVARIANT
    SemaMutexExcludes
CHECK_DEADLOCK FALSE
