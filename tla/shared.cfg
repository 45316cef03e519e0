SPECIFICATION Spec
CONSTANTS
    c1 = c1
    s1 = s1
    s2 = s2
    Operations = {c1}
    Services = {s1, s2}
    MaxPrompts = 0
    Confirmations = {}
    Mode = "step_boundary"
    MaxCancels = 1
    MaxPreempts = 1
    MaxCrashes = 0
    MaxShutdowns = 0
    MaxFaults = 0
    MaxAdoptions = 0
    MaxRefreshes = 1
SYMMETRY ServiceSymmetry
INVARIANTS
    SingleWriter
PROPERTIES
    NeverResumesSettled
