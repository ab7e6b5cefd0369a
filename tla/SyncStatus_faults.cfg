CONSTANTS
    Nodes = {n1, n2}
    Labels = {a}
    NoSel = none
    SriovReports = {"Succeeded"}
    MaxGen = 2
    MaxTries = 2
    MaxRelabels = 0
    MaxSriov = 0
    MaxFaults = 1
    ResyncEnabled = FALSE
SPECIFICATION Spec
SYMMETRY NodeSymmetry
CHECK_DEADLOCK FALSE
INVARIANTS
    TypeOK
    AggregateSound
    SucceededMeansApplied
    RestsRight
PROPERTIES
    OwnEntryForward
    KeepsBoard
