CONSTANTS
    None = None
    n1 = n1
    Nodes = {n1}
    Rails = {r1, r2}
    PFs = {p1, p2}
    Edits <- Growing
    MaxGen = 2
    MaxFaults = 0
    MaxReboots = 0
SPECIFICATION CreatedSpec
CHECK_DEADLOCK FALSE
PROPERTY
    XplaneKept
