CONSTANTS
    Addresses = {"a1", "a2"}
    Conns = {1, 2, 3}
    Routes = {"static", "input", "unknown"}
    MaxConnections = 2
    MaxFailures = 1
    FailureWindow = 1
    LimiterCap = 1
    MaxNow = 1
    MaxTokens = 2
    MaxBoots = 3
    MaxServed = 1
SPECIFICATION ServerSpec
CHECK_DEADLOCK FALSE
INVARIANTS
    ConnsCounted
    FewRefusals
    PairingLasts
PROPERTIES
    ConnectionsEnd
