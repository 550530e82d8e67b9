SPECIFICATION FairSpec
CONSTANTS
    Cap = 2
    Window = 2
    Lines = {1}
    ModeOn = {0}
    ModeOff = {2}
    Chunks = {1, 3}
    MaxSession = 2
    MaxBytes = 3
    MaxSize = 2
    Events = {"close", "hide"}
    MaxInputs = 0
    MaxFaults = 1
CHECK_DEADLOCK FALSE
INVARIANTS
    ScreenFollows
PROPERTIES
    PhoneCatchesUp
