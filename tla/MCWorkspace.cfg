CONSTANTS
    MaxId = 6
    MaxTabs = 3
    MaxSession = 2
SPECIFICATION Spec
CHECK_DEADLOCK FALSE
INVARIANTS WellFormed ShellsOwned
PROPERTIES WaitEndsBySource
