SPECIFICATION Spec
CONSTANTS
    Procs = {p1, p2}
    Blocks = {b1, b2, b3}
    Vals = {v1, v2}
    MAXOPBLOCKS = 2
    LOGSIZE = 5
    LogBlocks = 5
    OpWrites = 2
SYMMETRY Symmetry
INVARIANTS CommitExclusive CleanIsHome
PROPERTIES Atomicity
