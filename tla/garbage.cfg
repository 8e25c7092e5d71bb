CONSTANTS
    Legacy = TRUE
    MaxLsn = 3
    MaxGen = 1
    MaxPending = 1
    Activities = {"compaction", "images", "gc"}
SPECIFICATION Spec
CHECK_DEADLOCK FALSE
INVARIANTS
    IndexNamesExist
    MapIsReadable
