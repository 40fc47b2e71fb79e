SPECIFICATION Spec
CONSTANTS
    NPROC = 3
    PGSIZE = 2
    KERNBASE = 10
    NFRAMES = 6
    Grows <- Amounts
    Images = {3}
    Stacks = {2}
    Limits = {0, 7}
    MaxCalls = 7
INVARIANTS  LimitKept StackFreedOnce
CHECK_DEADLOCK FALSE
