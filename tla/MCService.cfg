CONSTANTS
    Pid = {p1, p2, p3}
    NoPid = NoPid
    MaxFailuresValues = {2, 3}
    Threshold = 2
    BaseDelay = 1
    MaxDelay = 4
    StopAttempts = 1
    MaxReloads = 1
    Faults = {"spawn"}
    AsyncClient = FALSE
SPECIFICATION FairSpec
INVARIANTS TypeOK NoStrayChild RestartBudget GivesUpAtLimit
PROPERTIES StartResolves FailureRetried SpawnsOnlyWhenAllowed
CHECK_DEADLOCK FALSE
