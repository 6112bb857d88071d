CONSTANTS
    f1 = f1
    f2 = f2
    p1 = p1
    NoFile = NoFile
    File = {f1}
    Pool = {p1}
    Requests = {"delete"}
    Watching = TRUE
    UseVector = TRUE
    StartupEdits = FALSE
    MaxEdits = 1
    MaxFailures = 0
    MaxRestarts = 0
SPECIFICATION Spec
CHECK_DEADLOCK FALSE
SYMMETRY FileSymmetry
INVARIANTS
    DeletedIsNotServed
