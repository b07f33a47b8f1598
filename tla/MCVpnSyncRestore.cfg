CONSTANTS
    Iface = {ipsec0}
    Ipsec = {ipsec0}
    NoIface = NoIface
    Modes = {Rule, Global, Direct, Vpn}
    Target = Vpn
    Fallback = Rule
    NoMode = NoMode
    MaxLinks = 3
    MaxXfrm = 0
    MaxOutside = 1
    SyncFaults = {"rpc"}
SPECIFICATION SyncSpec
PROPERTIES RestoresOwnMode
CHECK_DEADLOCK FALSE
