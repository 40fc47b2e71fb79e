SPECIFICATION Spec
CONSTANTS
    Procs = {p1, p2}
    Blocks = {"k1", "k2", "k3", "k4"}
    Vals = {"k1", "v"}
    Written = {"k1"}
    NBUF = 3
    MaxPinned = 1
INVARIANTS  QueueExact
PROPERTIES NobodyOversleeps StoreSpec
