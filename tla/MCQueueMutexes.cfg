\* Nine classes: four readers and a writer, or two and two, or one reader.
SPECIFICATION Spec
CONSTANTS
    Classes <- AllClasses
    Readers = {r1, r2, r3, r4}
    Writers = {w1, w2}
    None = None
    BufferSize = 0
    Trials <- MediumTrials
    CrowdedTrials <- Crowd
    Watched = {}
    TMaxConcurrentReaders = 2
    HalfSpan = 8
    MaxLag = 6
SYMMETRY Symmetry
INVARIANTS
    TypeOK
    OwnerLeavesCs
    ReadersHoldWriterLock
    CohortIsWhole
    WriterIsWoken
    RestsAsNew
    ReportIsExact
PROPERTIES
    HeadOfQueueIsNext
    ImplementsRWLock
CHECK_DEADLOCK FALSE
