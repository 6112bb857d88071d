CONSTANTS
    m1 = m1
    d1 = d1
    Nothing = Nothing
    Memory = {m1}
    Docs = {d1}
    Size <- Sizes
    UserSizes = {1, 5}
    Budget = 6
    KeepTurns = 1
    Threshold = 3
    MemoryFloor = 1
    RagFloor = 1
    MaxTurns = 4
SPECIFICATION Spec
CHECK_DEADLOCK FALSE
INVARIANTS
    LastTurnsAreThere
    OnlyDroppingSplits
PROPERTIES
    FitsOrBare
    FailsOnlyWhenCrossed
