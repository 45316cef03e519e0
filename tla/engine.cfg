SPECIFICATION FairLoopSpec
CONSTANTS
    Flows <- MCFlows
    MaxSteps = 3
    MaxParallel = 2
    MaxRepairs = 1
    MaxInterruptions = 1
CHECK_DEADLOCK FALSE
INVARIANTS
    UnknownEffectsStayPut
    BudgetSurvivesRestarts
    NeverStalls
PROPERTIES
    KeepsContract
    InvocationEnds
