\* Three threads share a SemaMutex, a fourth hands out two more permits.
SPECIFICATION FairSpec
CONSTANTS
    Classes <- AllClasses
    Takers = {t1, t2, t3}
    Givers = {g1}
    None = None
    InitialCount = 1
    MaxGiven = 2
INVARIANTS
    TypeOK
    PermitsRespected
    OneThreadInGate
    SleeperIsWoken
    GateIsManned
PROPERTIES
    ImplementsSemaphore
    AllThreadsJoin
    GatedAreFair
CHECK_DEADLOCK FALSE
