\* Three threads and a SemaMutex<CsevSemaphore>: one overtakes the other for ever.
SPECIFICATION FairSpec
CONSTANTS
    Classes <- CsevOnly
    Takers = {t1, t2, t3}
    Givers = {}
    None = None
    InitialCount = 1
    MaxGiven = 0
PROPERTY
    PerfectlyFair
CHECK_DEADLOCK FALSE
