SPECIFICATION FairSpec
CONSTANTS
    Procs = {p1, p2, p3}
    Blocks = {b1, b2, b3}
    Vals = {v1}
    MAXOPBLOCKS = 2
    LOGSIZE = 4
    LogBlocks = 4
    OpWrites = 1
INVARIANTS NoPanic NoLostSleeper
PROPERTIES SleepersWoken
