CONSTANTS
    Legacy = TRUE
    MaxLsn = 2
    MaxGen = 2
    MaxPending = 3
    Activities = {"compaction", "images", "deletion", "failures"}
SPECIFICATION Spec
CHECK_DEADLOCK FALSE
INVARIANTS
    IndexNamesExist
    IndexIsReadable
    VisibleIsDurable
