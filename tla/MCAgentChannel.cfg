CONSTANTS
    MaxPayload = 9
    MaxCsi = 1
    Tabs = {1, 2, 3}
    WorkspaceOf <- ThreeTabs
    Words = {3000}
    Calls = {0, 1}
    Requests <- MCRequests
    Titles <- Named
    MaxInFlight = 1
    MaxSessions = 4
    MaxChanges = 2
SPECIFICATION Spec
CHECK_DEADLOCK FALSE
INVARIANTS
    ReachesOnlyTheAddressed
    SlotsCounted
    AnswerIsWhole
