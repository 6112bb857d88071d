CONSTANTS
    f1 = f1
    f2 = f2
    p1 = p1
    NoFile = NoFile
    File = {f1}
    Pool = {}
    Requests = {}
    Watching = TRUE
    UseVector = TRUE
    StartupEdits = FALSE
    MaxEdits = 2
    MaxFailures = 0
    MaxRestarts = 0
SPECIFICATION FairSpec
CHECK_DEADLOCK FALSE
PROPERTIES
    RebuildingEnds
