SPECIFICATION RefSpec
CONSTANTS
    Keys = {1, 2}
    MaxWrites = 2
    MaxSeq = 6
    Clients = {c1}
    SyncPerWrite = FALSE
    AutoFreeze = TRUE
    L0Threshold = 2
    Faults = {"sst_unlink"}
    CrashKinds = {"kill"}
    MaxStops = 2

INVARIANTS
    TypeOK
    DropKept
    LossIsASuffix
    ManifestFilesExist
    LevelOrder
    ManifestCurrent
    NoStrayWal
PROPERTIES
    ReferencedTablesImmutable
    RefinesKVStore
CHECK_DEADLOCK FALSE
