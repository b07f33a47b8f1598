SPECIFICATION MCSpec
CONSTANTS
    Timers = {t1, t2, t3}
    Delays = {1, 2}
    Intervals = {0, 2}
    MaxTime = 3
    NoTimer = NoTimer
    Off = Off
    Runners = {"exec", "check", "async"}
    OutCap = 1
    MaxWrites = 2
    RunFaults = {"start", "poll", "read", "lost"}
    RpcBudget = 1
    Interval = 1
    Margin = 1
    MaxChildren = 2
INVARIANTS TimersSound VerdictTrue SampleAge
PROPERTIES KeepsPromise HangNoticed WaitsEnd
CHECK_DEADLOCK FALSE
