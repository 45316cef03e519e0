SPECIFICATION LedgerSpec
CONSTANTS
    Requests = {"a", "b", "c"}
    Servers = {"s1", "s2"}
    ServerOf <- MCServerOf
    Contents <- MCContents
    ReadyTtl = 2
    PendingTtl = 1
    MaxClock = 2
    MaxCrashes = 0
    Impatient = {"a"}
CHECK_DEADLOCK FALSE
INVARIANTS
    AcceptedRunIsNotForgotten
