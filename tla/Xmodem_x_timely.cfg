SPECIFICATION FairSpec
CONSTANTS
    NBlocks = 3
    BlockMod = 3
    RetryMod = 8
    MaxRetries = 3
    RxMode = "1K"
    KnownLength = TRUE
    DataFails = TRUE
    Timely = TRUE
    MaxFaults = 4
    MaxAborts = 1
    LineCap = 6
PROPERTIES
    ImplementsDelivery
