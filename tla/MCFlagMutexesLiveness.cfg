\* Sequential consistency and fairness; no symmetry.
SPECIFICATION FairSpec
CONSTANTS
    Classes <- AllClasses
    Readers = {r1, r2}
    Writers = {w1}
    None = None
    BufferSize = 0
PROPERTIES
    AllThreadsJoin
    WritersNotStarved
    FastSlimReadersNotStarved
CHECK_DEADLOCK FALSE
