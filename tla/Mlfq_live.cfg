SPECIFICATION FairSpec
CONSTANTS
    NPROC = 3
    QUANTUM <- UnitQuanta
    BOOST = 5
    WORD = 256
    Calls = {"fork", "exit", "wait", "setPriority"}
    Prios = {0}
    Naps = {1}
    MaxPid = 3
    MaxPlace = 1
    MaxTicks = 6
INVARIANTS TypeOK 
PROPERTIES DispatchBest 
