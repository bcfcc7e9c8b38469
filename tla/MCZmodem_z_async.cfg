SPECIFICATION FairSpec
CONSTANTS
    Files <- ThreeFiles
    StoreFails = TRUE
    ReadFails = TRUE
    Timely = FALSE
    MaxFaults = 2
    MaxAborts = 1
    LineCap = 8
INVARIANTS
    TypeOK
    StoredInOrder
    EarlierFilesEnded
PROPERTIES
    ImplementsBatch
    Delivered
