CONSTANTS
    Flushers = {f1, f2}
    MaxSchedules = 3
    MaxCrashes = 1
SPECIFICATION FairSpec
INVARIANTS FlushedUnlessFailed NothingLeftBehind
PROPERTIES ImplementsDurableState FlushReturns
CHECK_DEADLOCK FALSE
