CONSTANTS
    HotValues = {1, 2}
    RestartValues = {1, 2}
    Invalid = Invalid
    MaxSignals = 2
    MaxEdits = 2
    Faults = {"step", "apply", "epoll"}
SPECIFICATION FairSpec
INVARIANTS TearsDown HandshakeAnswered ConfigAgrees
PROPERTIES TermStops ReloadHonoured
CHECK_DEADLOCK FALSE
