SPECIFICATION Spec
CONSTANTS
    c1 = c1
    s1 = s1
    Operations = {c1}
    Services = {s1}
    MaxPrompts = 1
    Confirmations = {1}
    Mode = "step_boundary"
    MaxCancels = 0
    MaxPreempts = 0
    MaxCrashes = 1
    MaxShutdowns = 0
    MaxFaults = 0
    MaxAdoptions = 0
    MaxRefreshes = 0
CHECK_DEADLOCK FALSE
INVARIANTS
    DeniedRunNeverExecutes
