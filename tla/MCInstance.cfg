SPECIFICATION Spec
CONSTANTS
    Procs = {p1, p2, p3, p4}
    Ctls = {c1, c2}
    Scenarios <- Commands
    Inodes = {1, 2, 3, 4, 5}
    None = None
SYMMETRY Symmetry
INVARIANTS OneFindable StopsWhole
PROPERTIES RefusedOnlyIfRunning
CHECK_DEADLOCK FALSE
