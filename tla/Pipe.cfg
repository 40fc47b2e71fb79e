SPECIFICATION FairSpec
CONSTANTS
    Procs = {p1, p2}
    Bytes = {a, b}
    PIPESIZE = 2
    WORD = 4
    Sizes = {3}
INVARIANTS  NoUseAfterFree
PROPERTIES StreamSpec ForsakenLeave
CHECK_DEADLOCK FALSE
