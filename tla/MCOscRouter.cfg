CONSTANTS
    s1 = s1
    s2 = s2
    Shells = {s1, s2}
    MaxEvents <- Chatty
SPECIFICATION FairRouterSpec
INVARIANTS NothingLost PersistedUnlessCrossed
PROPERTIES Delivered
CHECK_DEADLOCK FALSE
