CONSTANTS
    MaxPayload = 3
    MaxCsi = 7
    Sayings <- MCSayings
    Modes <- MCModes
    Untracked <- MCUntracked
    SoftReset <- MCSoftReset
    MaxTracked = 2
    ReplayCap = 15
    Window = 2
    ChunkSizes = {2, 3}
    MaxPipe = 1
    MaxSayings = 3
    MaxViews = 1
SPECIFICATION Spec
CHECK_DEADLOCK FALSE
INVARIANTS
    EventsAsMeant
    ReloadRestoresModes
