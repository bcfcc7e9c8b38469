SPECIFICATION Spec
CONSTANTS
    t1 = t1
    t2 = t2
    t3 = t3
    Threads <- ThreeThreads
    Channel <- ChannelOf
    Slots = 2
INVARIANTS
    TypeOK
    NoSharedSession
    SessionStaysOpen
    NoLostSlot
    CountBetween
