SPECIFICATION AppFairSpec
CONSTANTS
    Conns = {pump, call}
    Pump = pump
    Capacity = 1
    Buffer = 1
    MaxVersion = 1
    MaxSyncs = 0
    MaxLines = 2
    MaxTries = 2
    Scenarios = {{"launch"}}
    None = None

PROPERTY WindowRecovers
CHECK_DEADLOCK FALSE
