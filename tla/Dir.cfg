SPECIFICATION Spec
CONSTANTS
    Procs = {p1, p2}
    NINODES = 3
    Names = {"a", "b"}
    Paths <- ThreePaths
    Calls = {"create", "open", "link", "unlink", "mkdir", "symlink"}
    MaxCalls = 4
SYMMETRY Symmetry
INVARIANTS SlotsExact LinksExact   
CHECK_DEADLOCK FALSE
