SPECIFICATION TruthfulSpec
CONSTANTS
    Pageservers = {A, B}
    NoNode = NoNode
    MaxGeneration = 3
    MaxUploads = 2
    MaxCrashes = 1
    MaxFailures = 1
CHECK_DEADLOCK FALSE
SYMMETRY Symmetry
INVARIANTS TypeOK DeletionsAreSafe PrevalidatedListsAreSafe SequencesAreFresh
PROPERTIES ImplementsDurableTenant
