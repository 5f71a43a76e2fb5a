SPECIFICATION FairSpec
CONSTANTS
    Kinds = {"vless"}
    Sidecars = {"xray", "tun2socks"}
    Plans <- MCPlans
    Broken = {"xray"}
    MaxFaults = 0
PROPERTY StopReturns
CHECK_DEADLOCK FALSE
