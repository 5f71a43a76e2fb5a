SPECIFICATION MCSpec
CONSTANTS
    Clients = {c1, c2}
    Main = main
    Profiles = {p1, p2}
    PortalIds = {}
    Invalid = {}
    Unsupported = {}
    ToCome = {}
    Requests = {"connect", "disconnect", "delete"}
    None = None
INVARIANT ActiveProfileKept
CHECK_DEADLOCK FALSE
