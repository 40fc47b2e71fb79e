SPECIFICATION Spec
CONSTANTS
    NPROC = 4
    NCPU = 1
    MaxPid = 3
    MaxTid = 2
    Tidy = TRUE
INVARIANTS MemoryOwned NobodyOversleeps
 
CHECK_DEADLOCK FALSE
