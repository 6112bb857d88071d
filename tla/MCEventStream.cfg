CONSTANTS
    r1 = r1
    r2 = r2
    p1 = p1
    Loop = Loop
    NoRun = NoRun
    Run = {r1, r2}
    Pool = {w1}
    Client = {c1}
    Pager = {p1}
    Scope <- RunScope
    Limits = {0, 5}
    PageMax = 2
    MaxEvents = 3
    MaxChanges = 1
SPECIFICATION FairSpec
CHECK_DEADLOCK FALSE
INVARIANTS
    NothingMissed
    RowCatchesUp
PROPERTIES
    PagesAreComplete
    EventsArrive
