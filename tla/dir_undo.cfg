SPECIFICATION DirSpec
CONSTANTS
    Keys = {1}
    MaxWrites = 2
    MaxSeq = 7
    Clients = {c1}
    SyncPerWrite = TRUE
    AutoFreeze = TRUE
    L0Threshold = 1
    Faults = {"sst_unlink", "wal_sync"}
    CrashKinds = {}
    MaxStops = 2

INVARIANTS
    AcknowledgedKept
    OpenSurvivesUndo
CHECK_DEADLOCK FALSE
