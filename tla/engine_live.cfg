SPECIFICATION FairSpec
CONSTANTS
    Keys = {1}
    MaxWrites = 2
    MaxSeq = 7
    Clients = {c1}
    SyncPerWrite = FALSE
    AutoFreeze = TRUE
    L0Threshold = 1
    Faults = {}
    CrashKinds = {}
    MaxStops = 0

PROPERTIES
    FrozenIsFlushed
    FlushReturns
CHECK_DEADLOCK FALSE
