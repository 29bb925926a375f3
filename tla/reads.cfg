SPECIFICATION ReadSpec
CONSTANTS
    Keys = {1, 2}
    MaxWrites = 2
    MaxSeq = 5
    Clients = {c1}
    SyncPerWrite = FALSE
    AutoFreeze = TRUE
    L0Threshold = 1
    Faults = {}
    CrashKinds = {}
    MaxStops = 0
    Readers = {r1}
    OpenMayFail = TRUE
    MaxGets = 1

INVARIANTS
    ReadIsCurrent
    CompactionSparesReaders
CHECK_DEADLOCK FALSE
