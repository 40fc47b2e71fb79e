SPECIFICATION Spec
CONSTANTS
    NPROC = 2
    QUANTUM <- ShortQuanta
    BOOST = 4
    WORD = 256
    Calls = {"fork", "lock", "sleep"}
    Prios = {0}
    Naps = {1}
    MaxPid = 3
    MaxPlace = 2
    MaxTicks = 6
INVARIANTS NoRelock
CHECK_DEADLOCK FALSE
