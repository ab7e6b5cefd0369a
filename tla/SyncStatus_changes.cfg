CONSTANTS
    Nodes = {n1, n2}
    Labels = {a, b}
    NoSel = none
    SriovReports = {"Succeeded", "Failed"}
    MaxGen = 2
    MaxTries = 3
    MaxRelabels = 1
    MaxSriov = 1
    MaxFaults = 1
    ResyncEnabled = TRUE
SPECIFICATION SpecOfBoth
ACTION_CONSTRAINT StepOfBoth
CHECK_DEADLOCK FALSE
PROPERTIES
    Converges
    FailureReported
