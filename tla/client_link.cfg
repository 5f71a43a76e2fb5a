SPECIFICATION AppFairSpec
CONSTANTS
    Conns = {pump, call}
    Pump = pump
    Capacity = 1
    Buffer = 1
    MaxVersion = 2
    MaxSyncs = 1
    MaxLines = 2
    MaxTries = 2
    Scenarios = {{"status", "once", "log"}, {"status", "once", "draft"}, {"status", "refresh", "down"}, {"status", "act", "down"}, {"log", "send"}, {"launch"}}
    None = None
INVARIANTS AppTypeOK ShownAtRest DroppedOnlyTorn ExitTakesDaemon
PROPERTIES CallsReturn OutcomeShown PumpReturns
CHECK_DEADLOCK FALSE
