SPECIFICATION Spec
CONSTANTS
    AbortKey = TRUE
    KeyChar = 3
    Payloads <- SomePayloads
    FlagBytes = {0, 24}
    Noise = {}
    MaxSub = 2
    MaxFrames = 2
    Esc = 9
    RleChunks <- ShortChunks
    RleRoom = {2}
    MaxRle = 0
    KeyLen = 1
    Keys <- SomeKeys
    MaxPlain = 0
    Base <- SmallBase
    MaxPatch = 0
    DefaultChunk = 1
    DefaultTotal = 1
    MaxConfig = 0
    MaxWrite = 1
    SectorSize = 1
    MaxFlash = 0
    BufLen = 4
    IdxMod = 8
INVARIANTS
    AbortByUser
CHECK_DEADLOCK FALSE
