CONSTANTS
    None = None
    n1 = n1
    Nodes = {n1, n2}
    Rails = {r1, r2}
    PFs = {p1}
    Edits <- Shrinking
    MaxGen = 2
    MaxFaults = 1
    MaxReboots = 1
SPECIFICATION FairSpecAll
ACTION_CONSTRAINT RebootsOfOneRail
CHECK_DEADLOCK FALSE
INVARIANTS
    TypeOK
    SafeStarts
    DeletionCleansSpec
PROPERTIES
    RailsConverge
    DeletionEnds
