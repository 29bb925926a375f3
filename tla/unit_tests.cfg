SPECIFICATION TestSpec
CONSTANTS
    Keys = {1, 2, 3, 4}
    MaxWrites = 7
    MaxSeq = 13
    Clients = {"t1", "t2"}
    SyncPerWrite = FALSE
    AutoFreeze = TRUE
    L0Threshold = 3
    Faults = {}
    CrashKinds = {}
    MaxStops = 3
    Tests <- AllTests

INVARIANTS
    AssertionsHold
PROPERTIES
    TestsEnd
CHECK_DEADLOCK FALSE
