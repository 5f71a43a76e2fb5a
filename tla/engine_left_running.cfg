SPECIFICATION Spec
CONSTANTS
    Kinds = {"vless", "openvpn", "wireguard"}
    Sidecars = {"xray", "tun2socks"}
    Plans <- MCPlans
    Broken = {}
    MaxFaults = 1
INVARIANT NothingLeft
CHECK_DEADLOCK FALSE
