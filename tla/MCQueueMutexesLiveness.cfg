\* Nine classes, up to four threads.
SPECIFICATION FairSpec
CONSTANTS
    Classes <- AllClasses
    Readers = {r1, r2}
    Writers = {w1, w2}
    None = None
    BufferSize = 0
    Trials <- SmallTrials
    CrowdedTrials <- NoCrowd
    Watched = {r1, w1}
    TMaxConcurrentReaders = 2
    HalfSpan = 8
    MaxLag = 4
PROPERTIES
    AllThreadsJoin
    NobodyStarves
CHECK_DEADLOCK FALSE
