SPECIFICATION Spec
CONSTANTS
    a = a
    b = b
    c = c
    d = d
    Priority <- MCPriority
    Runs = {a, c, d}
    MaxActive = 1
    Mode = "interrupt"
    Preserve = FALSE
    DirectRuns = {}
    PeerRuns = {d}
    Adopted = {}
    Prompting = {a}
    Deniable = {a}
    Cancelable = {a, d}
CHECK_DEADLOCK FALSE
INVARIANTS
    SlotsConserved
