SPECIFICATION FairSpec
CONSTANTS
    Kinds = {"vless", "openvpn", "wireguard"}
    Sidecars = {"xray", "tun2socks"}
    Plans <- MCPlans
    Broken = {}
    MaxFaults = 3
INVARIANTS TypeOK HandleLostOnlyByCutOff
PROPERTIES ContractKept ConfRemoved LeftoverCleared StartReturns StopReturns SidecarsRestarted
\* an engine is used once
CHECK_DEADLOCK FALSE
