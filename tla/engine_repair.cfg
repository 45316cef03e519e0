SPECIFICATION LoopSpec
CONSTANTS
    Flows <- RepairThenMore
    MaxSteps = 5
    MaxParallel = 2
    MaxRepairs = 1
    MaxInterruptions = 1
CHECK_DEADLOCK FALSE
INVARIANTS
    YieldKeepsRepairedNodes
