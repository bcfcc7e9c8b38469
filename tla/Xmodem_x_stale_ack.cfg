SPECIFICATION Spec
CONSTANTS
    NBlocks = 3
    BlockMod = 256
    RetryMod = 256
    MaxRetries = 4
    RxMode = "1K"
    KnownLength = TRUE
    DataFails = FALSE
    Timely = FALSE
    MaxFaults = 3
    MaxAborts = 0
    LineCap = 6
INVARIANTS
    BothOkComplete
