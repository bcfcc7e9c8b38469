SPECIFICATION FairSpec
CONSTANTS
    Files <- TwoFiles
    BlockMod = 3
    MaxRetries = 2
    StoreFails = FALSE
    ReadFails = FALSE
    Renumber = TRUE
    Timely = FALSE
    MaxFaults = 1
    MaxAborts = 1
    LineCap = 3
INVARIANTS
    TypeOK
    FilesIntact
    BatchFollowed
PROPERTIES
    Termination
