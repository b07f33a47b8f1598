SPECIFICATION Spec
CONSTANTS
    Procs = {p1, p2, p3, p4}
    Ctls = {}
    Scenarios <- FailedStart
    Inodes = {1, 2, 3, 4, 5}
    None = None
SYMMETRY Symmetry
INVARIANTS OneRunning
CHECK_DEADLOCK FALSE
