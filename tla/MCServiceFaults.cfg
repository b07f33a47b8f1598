CONSTANTS
    Pid = {p1, p2}
    NoPid = NoPid
    MaxFailuresValues = {2}
    Threshold = 2
    BaseDelay = 1
    MaxDelay = 2
    StopAttempts = 2
    MaxReloads = 1
    Faults = {"timer", "alloc", "kill", "proc"}
    AsyncClient = TRUE
SPECIFICATION FairSpec
INVARIANTS PidsNotRecycled TimersOwned
PROPERTIES StopCompletes
CHECK_DEADLOCK FALSE
