CONSTANTS
    Iface = {ipsec0, tun0}
    Ipsec = {ipsec0}
    NoIface = NoIface
    Modes = {Rule, Vpn}
    Target = Vpn
    Fallback = Rule
    NoMode = NoMode
    MaxLinks = 2
    MaxXfrm = 1
    MaxOutside = 1
    SyncFaults = {"rpc", "late", "timer", "overrun", "probe", "modes"}
SPECIFICATION SyncFairSpec
INVARIANTS NoRequestLost VpnFollowed
PROPERTIES ModeConverges WorkerJoins
CHECK_DEADLOCK FALSE
