SPECIFICATION FairSpec
CONSTANTS
    a = a
    b = b
    c = c
    d = d
    Priority <- MCPriority
    Runs = {a, b}
    MaxActive = 1
    Mode = "step_boundary"
    Preserve = TRUE
    DirectRuns = {}
    PeerRuns = {}
    Adopted = {}
    Prompting = {a}
    Deniable = {a}
    Cancelable = {}
CHECK_DEADLOCK FALSE
PROPERTIES
    QueueNeverStalls
