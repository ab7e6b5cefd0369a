CONSTANTS
    Pods = {p1}
    Bridges = {b1}
    None = none
    Residents = TRUE
    MaxFaults = 0
    MaxRestarts = 0
SPECIFICATION FairSpec
CHECK_DEADLOCK FALSE
PROPERTY
    StaleRemoved
