SPECIFICATION FairSpec
CONSTANTS
    High = 3
    Low = 1
    ChunkSizes <- MCChunks
    AckThreshold = 2
    MaxBytes = 4
    MaxViews = 2
    MaxReloads = 1
INVARIANTS NeverStranded StreamIntact
PROPERTIES ReaderWakes ScreenCatchesUp
CHECK_DEADLOCK FALSE
