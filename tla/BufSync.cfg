SPECIFICATION Spec
CONSTANTS
    Procs = {p1, p2}
    Blocks = {b1, b2, b3, b4}
    NBUF = 3
    MaxHeld = 2
    MaxCount = 1
INVARIANTS OneBufferPerBlock CacheIsLatest NothingLost  
SYMMETRY Symmetry
CHECK_DEADLOCK FALSE
