CONSTANTS
    t1 = t1
    t2 = t2
    Thread = {t1, t2}
    NoThread = NoThread
    Cleaner = Cleaner
    Handler = {h1}
    IdleTtl = 1
    ArchiveTtl = 0
    BatchSize = 1
    KeepTurns = 1
    Threshold = 1
    MaxTime = 1
    Closing = {t1}
    MaxTurns <- TurnsOfOne
    MaxRestarts = 1
SPECIFICATION FairSpec
CHECK_DEADLOCK FALSE

INVARIANTS
    LeftoverHasACause
PROPERTIES
    ThreadsMoveForward
    OnlyArchivedIsPurged
    RecentTurnsStay
    NoThreadStaysOverdue
