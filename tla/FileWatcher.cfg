CONSTANTS
    MaxTime = 4
    MaxStarts = 3
    MaxRestarts = 1
    MaxSetBacks = 1
SPECIFICATION FairSpec
CHECK_DEADLOCK FALSE
INVARIANT
    TypeOK
PROPERTIES
    KeepsPromise
    NewsArrives
    StopSharpens
