SPECIFICATION FairSpec
CONSTANTS
    c1 = c1
    s1 = s1
    Operations = {c1}
    Services = {s1}
    MaxPrompts = 1
    Confirmations = {}
    Mode = "step_boundary"
    MaxCancels = 2
    MaxPreempts = 1
    MaxCrashes = 1
    MaxShutdowns = 0
    MaxFaults = 0
    MaxAdoptions = 0
    MaxRefreshes = 0
INVARIANTS
    AtMostOneOutcome
PROPERTIES
    CancelSettles
    AnswerResumes
    PromptBecomesVisible
