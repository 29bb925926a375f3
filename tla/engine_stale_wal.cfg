SPECIFICATION Spec
CONSTANTS
    Keys = {1}
    MaxWrites = 2
    MaxSeq = 7
    Clients = {c1}
    SyncPerWrite = FALSE
    AutoFreeze = TRUE
    L0Threshold = 2
    Faults = {"wal_unlink"}
    CrashKinds = {"kill"}
    MaxStops = 1

INVARIANTS
    PromisesKept
CHECK_DEADLOCK FALSE
