SPECIFICATION Spec
CONSTANTS
    AbortKey = TRUE
    KeyChar = 3
    Payloads <- SomePayloads
    FlagBytes = {0, 24}
    Noise = {42, 24, 7}
    MaxSub = 2
    MaxFrames = 3
    Esc = 9
    RleChunks <- ShortChunks
    RleRoom = {2, 20}
    MaxRle = 5
    KeyLen = 2
    Keys <- SomeKeys
    MaxPlain = 6
    Base <- SmallBase
    MaxPatch = 4
    DefaultChunk = 4
    DefaultTotal = 2
    MaxConfig = 3
    MaxWrite = 5
    SectorSize = 4
    MaxFlash = 20
    BufLen = 4
    IdxMod = 8
INVARIANTS
    FramesIntact
    AbortHasCause
    ChunksInvisible
    RoundTrip
    PatchedInPlace
    ChunksUsed
    ErasedAhead
    StartsOnRz
CHECK_DEADLOCK FALSE
