CONSTANTS
    Legacy = FALSE
    MaxLsn = 3
    MaxGen = 1
    MaxPending = 2
    Activities = {"compaction", "images", "gc"}
SPECIFICATION Spec
CHECK_DEADLOCK FALSE
INVARIANTS
    IndexIsReadable
