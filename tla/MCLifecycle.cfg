SPECIFICATION LiveSpec
CONSTANTS
    t1 = t1
    Tabs = {t1}
    Boot <- NoTabs
    MaxSessions = 2
    MoreAudits = 0
    Watched = {1}
    NoTab = NoTab
CHECK_DEADLOCK FALSE
INVARIANTS
    Attachable
    AuditQuiet
    OnlyOwnScreen
    MarkerWins
PROPERTIES
    NoZombie
