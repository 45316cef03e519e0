SPECIFICATION Spec
CONSTANTS
    c1 = c1
    s1 = s1
    s2 = s2
    Operations = {c1}
    Services = {s1, s2}
    MaxPrompts = 0
    Confirmations = {}
    Mode = "step_boundary"
    MaxCancels = 0
    MaxPreempts = 0
    MaxCrashes = 1
    MaxShutdowns = 0
    MaxFaults = 0
    MaxAdoptions = 1
    MaxRefreshes = 0
CHECK_DEADLOCK FALSE
PROPERTIES
    NeverResumesSettled
