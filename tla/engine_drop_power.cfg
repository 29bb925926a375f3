SPECIFICATION Spec
CONSTANTS
    Keys = {1}
    MaxWrites = 1
    MaxSeq = 5
    Clients = {c1}
    SyncPerWrite = FALSE
    AutoFreeze = TRUE
    L0Threshold = 2
    Faults = {}
    CrashKinds = {"power"}
    MaxStops = 2

INVARIANTS
    DropKept
CHECK_DEADLOCK FALSE
