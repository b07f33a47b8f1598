CONSTANTS
    Pid = {p1, p2}
    NoPid = NoPid
    MaxFailuresValues = {2, 3}
    Threshold = 2
    BaseDelay = 1
    MaxDelay = 2
    StopAttempts = 1
    MaxReloads = 1
    Faults = {}
    AsyncClient = FALSE
SPECIFICATION Spec
INVARIANT FailuresCountedOnce
CHECK_DEADLOCK FALSE
