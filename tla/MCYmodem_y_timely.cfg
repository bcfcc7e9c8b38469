SPECIFICATION Spec
CONSTANTS
    Files <- TwoFiles
    BlockMod = 3
    MaxRetries = 3
    StoreFails = TRUE
    ReadFails = TRUE
    Renumber = TRUE
    Timely = TRUE
    MaxFaults = 3
    MaxAborts = 1
    LineCap = 6
PROPERTIES
    ImplementsBatch
