CONSTANTS
    n1 = n1  n2 = n2  b = b
    Nodes = {n1, n2}
    Objects = {o1, o2}
    Labels = {b}
    NodeLabels <- Labelling
    Tolerations = {x}
    None = None
    MaxChanges = 2
    MaxFaults = 1
SPECIFICATION OpenPoolSpec
ACTION_CONSTRAINT Budget
CHECK_DEADLOCK FALSE
INVARIANTS
    TypeOK
    RestsRight
PROPERTIES
    TolerationsFollow
    LivesWithObjects
    StaysInPool
