SPECIFICATION Spec
CONSTANTS
    Cap = 1
    Window = 0
    Lines = {}
    ModeOn = {}
    ModeOff = {}
    Chunks = {}
    MaxSession = 2
    MaxBytes = 1
    MaxSize = 1
    Events = {"close", "unpair", "hide", "leave"}
    MaxInputs = 2
    MaxFaults = 1
CHECK_DEADLOCK FALSE
INVARIANTS
    ScheduleAlive
    EnterAfterText
