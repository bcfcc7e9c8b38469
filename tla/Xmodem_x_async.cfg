SPECIFICATION Spec
CONSTANTS
    NBlocks = 3
    BlockMod = 3
    RetryMod = 5
    MaxRetries = 3
    RxMode = "1K"
    KnownLength = TRUE
    DataFails = FALSE
    Timely = FALSE
    MaxFaults = 1
    MaxAborts = 0
    LineCap = 3
INVARIANTS
    InOrder
    LossBounded
    OkAfterLastBlock
    SameCheck
