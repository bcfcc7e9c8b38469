SPECIFICATION Spec
CONSTANTS
    Paths = {"a", "b"}
    Modes = {"OVERWRITE", "SKIP", "ABORT"}
    FsFails = TRUE
    FinInFile = TRUE
    MaxFiles = 4
    MaxBlocks = 2
INVARIANTS
    TypeOK
    NoMixing
    HandlesBalanced
    WorkerInTime
PROPERTIES
    XmodemOkStored
