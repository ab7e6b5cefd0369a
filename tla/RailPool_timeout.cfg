CONSTANTS
    None = None
    n1 = n1
    Nodes = {n1, n2}
    Rails = {r1}
    PFs = {p1, p2}
    Edits <- Growing
    MaxGen = 2
    MaxFaults = 1
    MaxReboots = 0
SPECIFICATION SetUpSpec
CHECK_DEADLOCK FALSE
INVARIANT
    FinalizerHeld
