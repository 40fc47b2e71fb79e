SPECIFICATION Spec
CONSTANTS
    Procs = {p1, p2}
    Inodes = {1, 2}
    NDIRECT = 1
    NINDIRECT = 2
    NBLOCKS = 26
    MaxSize <- Sizes
    MaxWrite = 2
    MaxBack = 1
    MaxRemovals = 1
    MaxRegrown = 8
SYMMETRY Symmetry
INVARIANTS BlocksAccounted ContentsKept ReadNeverAllocates
CHECK_DEADLOCK FALSE
