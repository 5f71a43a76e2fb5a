SPECIFICATION MCFairSpec
CONSTANTS
    Clients = {c1, c2}
    Main = main
    Profiles = {p1, p2}
    PortalIds = {}
    Invalid = {}
    Unsupported = {p1}
    ToCome = {}
    Requests = {"connect"}
    None = None
PROPERTY StatusSettles
CHECK_DEADLOCK FALSE
