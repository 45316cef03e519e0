SPECIFICATION StreamSpec
CONSTANTS
    Subscribers = {"p", "q"}
    Settings <- Joined
    Capacity = 1
    MaxRecords = 4
    MaxNotes = 2
    MaxFaults = 1
CHECK_DEADLOCK FALSE
INVARIANTS
    NoEventSkipped
