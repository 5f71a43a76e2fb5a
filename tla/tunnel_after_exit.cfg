SPECIFICATION MCSpec
CONSTANTS
    Clients = {c1, c2}
    Main = main
    Profiles = {p1, p2}
    PortalIds = {}
    Invalid = {}
    Unsupported = {}
    ToCome = {}
    Requests = {"connect", "shutdown"}
    None = None
INVARIANT NothingAfterExit
CHECK_DEADLOCK FALSE
