SPECIFICATION Spec
CONSTANTS
    Size = 2
    FlushMax = 1
    MaxBytes = 4
    MaxSent = 3
INVARIANTS
    TypeOK
    ReadInOrder
    CountRight
    SentInOrder
    ShortWritesLeave
