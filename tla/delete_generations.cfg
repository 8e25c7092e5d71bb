CONSTANTS
    Legacy = FALSE
    MaxLsn = 1
    MaxGen = 2
    MaxPending = 1
    Activities = {"deletion"}
SPECIFICATION Spec
CHECK_DEADLOCK FALSE
INVARIANTS
    DeletedStaysDeleted
