\* One reader, one writer, store buffers: the two may be inside together.
SPECIFICATION Spec
CONSTANTS
    Classes <- UltraFastOnly
    Readers = {r1}
    Writers = {w1}
    None = None
    BufferSize = 2
INVARIANT
    Exclusion
CHECK_DEADLOCK FALSE
