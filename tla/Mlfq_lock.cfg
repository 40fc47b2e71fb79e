SPECIFICATION Spec
CONSTANTS
    NPROC = 2
    QUANTUM <- ShortQuanta
    BOOST = 3
    WORD = 256
    Calls = {"fork", "yield", "lock", "unlock", "kill", "sleep", "boost"}
    Prios = {0}
    Naps = {1}
    MaxPid = 2
    MaxPlace = 1
    MaxTicks = 3
  
PROPERTIES BoostLifts
CHECK_DEADLOCK FALSE
