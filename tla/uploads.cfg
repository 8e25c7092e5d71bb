CONSTANTS
    Legacy = FALSE
    MaxLsn = 2
    MaxGen = 1
    MaxPending = 1
    Activities = {"tenant", "waiter", "compaction", "images"}
SPECIFICATION FairSpec
CHECK_DEADLOCK FALSE
INVARIANTS
    TypeOK
    IndexNamesExist
    VisibleIsDurable
    WaitedForIsUploaded
    DrainedIsUploaded
PROPERTIES
    ShutdownReturns
    WaiterReturns
