SPECIFICATION LoopSpec
CONSTANTS
    Flows <- RegeneratedEffect
    MaxSteps = 3
    MaxParallel = 2
    MaxRepairs = 1
    MaxInterruptions = 1
CHECK_DEADLOCK FALSE
INVARIANTS
    RegenerateIsNewInvocation
