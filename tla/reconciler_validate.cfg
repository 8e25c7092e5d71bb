SPECIFICATION Spec
CONSTANTS
    Pageservers = {A, B}
    NoNode = NoNode
    MaxGeneration = 2
    MaxUploads = 2
    MaxCrashes = 0
    MaxFailures = 0
INVARIANT DeletionsAreSafe
CHECK_DEADLOCK FALSE
