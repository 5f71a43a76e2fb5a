SPECIFICATION MCFairSpec
CONSTANTS
    Clients = {c1, c2}
    Main = main
    Profiles = {p1, p2}
    PortalIds = {}
    Invalid = {}
    Unsupported = {}
    ToCome = {}
    Requests = {"connect", "disconnect", "state", "shutdown", "delete"}
    None = None
INVARIANTS QuietAgreement
PROPERTIES DisconnectLeavesNoTunnel RequestsAnswered StatusSettles
\* the daemon stops after shutdown
CHECK_DEADLOCK FALSE
