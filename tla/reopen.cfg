SPECIFICATION ReopenSpec
CONSTANTS
    Keys = {1}
    MaxWrites = 2
    MaxSeq = 7
    Clients = {c1}
    SyncPerWrite = FALSE
    AutoFreeze = TRUE
    L0Threshold = 1
    Faults = {"wal_create"}
    CrashKinds = {}
    MaxStops = 0

INVARIANTS
    ReopenedLogsExist
    ReopenedHasDropped
PROPERTIES
    ReopenedTablesImmutable
CHECK_DEADLOCK FALSE
