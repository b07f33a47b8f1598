SPECIFICATION FairSpec
CONSTANTS
    Conns = {c1, c2}
    MaxClients = 1
    Fds <- FdSet
    InputCap = 2
    SendCap = 1
    IdleScans = 2
    MaxSend = 2
    NoClient = NoClient
    Faults = {"accept", "reject", "io", "memory"}
INVARIANTS ClientsServed RepliesMatch
PROPERTIES StopAcknowledged ClientEnds
CHECK_DEADLOCK FALSE
