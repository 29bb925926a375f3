SPECIFICATION Spec
CONSTANTS
    Calls <- SmallCalls
    BufCapacity = 13
    MaxKeyLen = 1
    MaxValueLen = 2
    Faults = {"write"}
    Damage = {}
    MaxAppends = 3
    MaxErrors = 1

INVARIANTS
    SyncedIsReplayed
CHECK_DEADLOCK FALSE
