SPECIFICATION Spec
CONSTANTS
    Keys = {1, 2}
    MaxWrites = 2
    MaxSeq = 6
    Clients = {c1}
    SyncPerWrite = FALSE
    AutoFreeze = TRUE
    L0Threshold = 2
    Faults = {"sst_unlink", "wal_create"}
    CrashKinds = {"power"}
    MaxStops = 2

INVARIANTS
    DurableInv
    PromisesKept
CHECK_DEADLOCK FALSE
