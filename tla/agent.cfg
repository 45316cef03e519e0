SPECIFICATION Spec
CONSTANTS
    Ids = {"c1", "c2"}
    Secrets = {"secret"}
    Setups <- MCSetups
    MaxTurns = 2
    MaxCalls = 2
    MaxSteps = 3
    MaxAsks = 2
    MaxCrashes = 1
    MaxFaults = 1
INVARIANTS
    EffectsOnce
    OnlyApprovedBytes
    CallBudgetSurvivesResumes
PROPERTY StepSettles
CHECK_DEADLOCK FALSE
