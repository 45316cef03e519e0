SPECIFICATION FairStreamSpec
CONSTANTS
    Subscribers = {"p", "q"}
    Settings <- MCSettings
    Capacity = 1
    MaxRecords = 4
    MaxNotes = 2
    MaxFaults = 1
CHECK_DEADLOCK FALSE
INVARIANTS
    OneSequence
    NoEventSkipped
    CrashRemnantIsRepairable
PROPERTIES
    FollowersCatchUp
