\* x86 store buffers of two entries: what survives them.
SPECIFICATION Spec
CONSTANTS
    Classes <- AllClasses
    Readers = {r1, r2}
    Writers = {w1, w2}
    None = None
    BufferSize = 2
SYMMETRY Symmetry
INVARIANTS
    WritersExclude
    LockedReadersExclude
    ReaderIsWoken
    NoRequestLeftBehind
PROPERTIES
    IteratorStable
CHECK_DEADLOCK FALSE
