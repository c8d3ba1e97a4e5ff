\* FairReadWriteMutex: the assertion at the end of WriteLock.
SPECIFICATION Spec
CONSTANTS
    Classes <- FairOnly
    Readers = {r1, r2}
    Writers = {w1, w2}
    None = None
    BufferSize = 0
    Trials <- SmallTrials
    CrowdedTrials <- NoCrowd
    Watched = {}
    TMaxConcurrentReaders = 1
    HalfSpan = 8
    MaxLag = 0
INVARIANT
    AssertHolds
CHECK_DEADLOCK FALSE
