SPECIFICATION Spec
CONSTANTS
    Files <- TwoNames
    StoreFails = TRUE
    ReadFails = FALSE
    Timely = FALSE
    MaxFaults = 0
    MaxAborts = 0
    LineCap = 2
    MaxSent = 6
INVARIANTS
    FilesAreEnded
PROPERTIES
    EndIsFinal
