SPECIFICATION LoopSpec
CONSTANTS
    Flows <- NeedsRepair
    MaxSteps = 5
    MaxParallel = 2
    MaxRepairs = 1
    MaxInterruptions = 1
CHECK_DEADLOCK FALSE
PROPERTIES
    KeepsContract
