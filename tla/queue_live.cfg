SPECIFICATION FairSpec
CONSTANTS
    a = a
    b = b
    c = c
    d = d
    Priority <- MCPriority
    Runs = {a, b, c}
    MaxActive = 1
    Mode = "step_boundary"
    Preserve = TRUE
    DirectRuns = {b}
    PeerRuns = {}
    Adopted = {a}
    Prompting = {a}
    Deniable = {}
    Cancelable = {a}
CHECK_DEADLOCK FALSE
PROPERTIES
    FifoAmongEquals
    QueueDrains
