SPECIFICATION MCFairSpec
CONSTANTS
    Ids = {i1}
    Urls = {u1}
    Flows = {f1, f2}
    FlowKinds = {"login", "oidc", "sync", "logout"}
    MaxFaults = 2
    MaxTicks = 1
    Scenarios = {{"data", "policy"}, {"stop"}, {"data", "stop"}, {"tunnel", "stop"}, {"portal"}}
    None = None
    Torn = Torn
INVARIANTS TypeOK AcknowledgedIsKept OwnBrowserOnly LogoutSticks ProfilesMatchSession KeysSwept
PROPERTIES StorePromiseKept OnlyOwnStoreReplaced StatusForward ComesUp StopObeyed PortReleased
CHECK_DEADLOCK FALSE
