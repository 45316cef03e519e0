SPECIFICATION Spec
CONSTANTS
    c1 = c1
    s1 = s1
    Operations = {c1}
    Services = {s1}
    MaxPrompts = 0
    Confirmations = {}
    Mode = "interrupt"
    MaxCancels = 1
    MaxPreempts = 1
    MaxCrashes = 0
    MaxShutdowns = 1
    MaxFaults = 1
    MaxAdoptions = 1
    MaxRefreshes = 0
CHECK_DEADLOCK FALSE
PROPERTIES
    UnresolvedNeverResumes
