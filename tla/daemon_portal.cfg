SPECIFICATION MCSpec
CONSTANTS
    Clients = {c1, c2}
    Main = main
    Profiles = {p1, p2, p3}
    PortalIds = {p2}
    Invalid = {p3}
    Unsupported = {}
    ToCome = {p2, p3}
    Requests = {"connect", "disconnect", "delete", "import", "sync", "login", "logout", "policy"}
    None = None
SYMMETRY ClientSymmetry
INVARIANTS IndInv SingleTunnel StatusTruthful
PROPERTY PromiseKept
