CONSTANTS
    f1 = f1
    f2 = f2
    p1 = p1
    NoFile = NoFile
    File = {f1, f2}
    Pool = {}
    Requests = {}
    Watching = TRUE
    UseVector = TRUE
    StartupEdits = FALSE
    MaxEdits = 3
    MaxFailures = 1
    MaxRestarts = 1
SPECIFICATION FairSpec
CHECK_DEADLOCK FALSE
INVARIANTS
    KeywordFresh
    OrphansNeedAFailure
PROPERTIES
    KeywordCatchesUp
