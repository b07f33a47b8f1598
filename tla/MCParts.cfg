SPECIFICATION PartsSpec
CONSTANTS
    Sessions = {s1, s2}
    PipeSize = 2
    SinkRoom = 1
    MaxUnits = 3
    SessionFaults = {"register", "io", "nomem"}
    PipeCapacity = 3
    MaxPerEvent = 4
    Limits = {0, 2}
    SpliceUnits = 5
    Writers = {w1, w2}
    ErrorMax = 2
    RotateCount = 3
    MaxFileSize = 2
    MaxRecords = 3
    Messages <- MCMessages
    GroupBits = 2
    WordBits = 5
    Int32Max = 7
    BufSize = 18
    RespCap = 14
    StringCap = 4
    Files <- MCFiles
    Jsons <- MCJsons
    TooLong = "long"
    IntBits = 18
    MaxElems = 4
    MaxPairs = 3
    Names = {11, 12}
    Data = {1, 2}
    Chars = {"{", "}", "[", "]", ",", ":", "q", "b", "1", "t", "e", " ", "nl"}
    Heads <- MCHeads
    MaxMore = 3
    BufLen = 12
    MaxChunk = 2
    ReadFlags = {{}, {"stop"}}
    Pids = {1, 2}
    CacheMax = 1
    MaxClock = 4
    MaxCalls = 2
    Users = {"", "root", "1", "12x", "name"}
    Groups = {"", "root", "2", "huge", "name"}
    Requests <- MCRequests
    MaxArgs = 7
    Links <- MCLinks
    MaxLinks = 2
    MaxChanges = 1
    SockFaults = {"ifaddrs", "socket", "send", "recv", "proc", "add_fd"}
    Paths = {"a", "b"}
    Commands = {"start", "restart", "status", "check", "version", "help"}
    MaxWords = 3
    Procs = {d, c}
    Devices <- MCDevices
    TableZones = {"Tokyo", "Shanghai", "Seoul"}
    MaxInits = 2
    MaxMoves = 1
    Alphabet = {"a", "s", "nl", "2", "3", "+"}
    MaxText = 5
    Olds <- MCOlds
    News <- MCNews
    BufSizes = {1, 2, 5, 9}
    MaxBytes = {1, 4, 5, 6}
    Labels = {0, 5, 12}
    Values = {0, 3, 4, 50, 300}
    Widths = {0, 10, 30, 39, 40, 59, 60, 79, 80, 109, 110, 200, 500}
    Seconds = {0, 59, 60, 3599, 3600, 86399, 86400, 90061}
    Sizes = {0, 1023, 1024, 1048575, 1048576}
SYMMETRY SessionSymmetry
INVARIANTS SessionsHeld DataConserved NoneLeaked DataKept FramesExact  JsonExact 
CHECK_DEADLOCK FALSE
