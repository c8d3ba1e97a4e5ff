\* Sequential consistency: two readers, two writers, every class.
SPECIFICATION Spec
CONSTANTS
    Classes <- AllClasses
    Readers = {r1, r2}
    Writers = {w1, w2}
    None = None
    BufferSize = 0
SYMMETRY Symmetry
INVARIANTS
    TypeOK
    Exclusion
    WriterIsWoken
PROPERTIES
    NewReadersYield
    ImplementsRWLock
CHECK_DEADLOCK FALSE
