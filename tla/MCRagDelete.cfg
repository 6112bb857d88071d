CONSTANTS
    f1 = f1
    f2 = f2
    p1 = p1
    NoFile = NoFile
    File = {f1, f2}
    Pool = {p1}
    Requests = {"delete"}
    Watching = FALSE
    UseVector = TRUE
    StartupEdits = FALSE
    MaxEdits = 3
    MaxFailures = 1
    MaxRestarts = 1
SPECIFICATION Spec
CHECK_DEADLOCK FALSE
SYMMETRY FileSymmetry
INVARIANTS
    DeletedIsNotServed
    DeletedHasNoRows
    LostRowsNeedAFailure
