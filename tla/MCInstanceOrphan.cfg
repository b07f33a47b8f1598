SPECIFICATION Spec
CONSTANTS
    Procs = {p1}
    Ctls = {c1}
    Scenarios <- SlowStop
    Inodes = {1, 2}
    None = None
SYMMETRY Symmetry
INVARIANTS StopLeavesNoChild
CHECK_DEADLOCK FALSE
