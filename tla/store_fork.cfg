SPECIFICATION StoreSpec
CONSTANTS
    s1 = s1
    s2 = s2
    a1 = a1
    a2 = a2
    x = x
    y = y
    z = z
    NoSource = NoSource
    Nobody = Nobody
    Runs = {x, y, z}
    Services = {s1, s2}
    Attempts = {a1, a2}
    Settings <- MCForkCrash
    ShardOf <- MCShardOf
    Keep = 1
    KeepFailed = 1
CHECK_DEADLOCK FALSE
INVARIANTS
    ExecutingRunKeepsJournal
