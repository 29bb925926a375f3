SPECIFICATION Spec
CONSTANTS
    Keys = {1}
    MaxWrites = 2
    MaxSeq = 6
    Clients = {c1}
    SyncPerWrite = TRUE
    AutoFreeze = TRUE
    L0Threshold = 1
    Faults = {"wal_sync", "wal_unlink", "sst_write", "manifest_write"}
    CrashKinds = {"kill"}
    MaxStops = 1
INVARIANTS
    Inv
    LiveView
CHECK_DEADLOCK FALSE
