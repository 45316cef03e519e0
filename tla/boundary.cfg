SPECIFICATION Spec
CONSTANTS
    c1 = c1
    s1 = s1
    Operations = {c1}
    Services = {s1}
    MaxPrompts = 1
    Confirmations = {1}
    Mode = "step_boundary"
    MaxCancels = 2
    MaxPreempts = 1
    MaxCrashes = 0
    MaxShutdowns = 1
    MaxFaults = 0
    MaxAdoptions = 0
    MaxRefreshes = 0
INVARIANTS
    TypeOK
    ReportedOutcomeIsDurable
    DeniedRunNeverExecutes
PROPERTIES
    ControlConsumedOnlyWhenRecorded
