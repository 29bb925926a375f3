SPECIFICATION StorageSpec
CONSTANTS
    MaxRuns = 3
    MaxKey = 2
    MaxSeq = 3
    Inputs <- MCInputs

INVARIANTS
    MergePrefix
    MergeIsNewest
    SizeCoversEntries
    SyncedIsReplayed
    TearIsTolerated
    ReplayIsAPast
    LookupIsExact
    ScanIsExact
    BlocksTileData
    TornIsRejected
    DamageIsContained
    LoadIsACommit
    RoundTrip
    CutIsAPrefix
PROPERTIES
    MergeEnds
CHECK_DEADLOCK FALSE
