SPECIFICATION Spec
CONSTANT MaxLength <- MCMaxLength
INVARIANTS ServiceReadsProfile NormalizedForDaemon LinkReachesServer ImportedAsSeen EditKeepsSecrets
CHECK_DEADLOCK FALSE
