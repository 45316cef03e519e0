SPECIFICATION StreamSpec
CONSTANTS
    Subscribers = {"p", "q"}
    Settings <- Resumed
    Capacity = 1
    MaxRecords = 4
    MaxNotes = 2
    MaxFaults = 1
CHECK_DEADLOCK FALSE
INVARIANTS
    CrashRemnantIsRepairable
