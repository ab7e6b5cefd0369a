CONSTANTS
    Pods = {p1}
    Bridges = {b1}
    None = none
    Residents = TRUE
    MaxFaults = 2
    MaxRestarts = 2
SPECIFICATION FairSpec
CHECK_DEADLOCK FALSE
INVARIANTS
    TypeOK
    FlowsTracked
    RestsServed
PROPERTIES
    FlowsReturn
    TagsReclaimed
