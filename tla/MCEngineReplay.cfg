CONSTANTS
    t1 = t1
    t2 = t2
    r1 = r1
    r2 = r2
    r3 = r3
    m1 = m1
    m2 = m2
    m3 = m3
    NoRun = NoRun
    NoManaged = NoManaged
    Thread = {t1}
    Run = {r1}
    ThreadOf <- OneThread
    ConfirmedRun = {}
    KeyedRun = {r1}
    Managed = {m1, m2}
    MaxConcurrentRuns = 2
    MaxRestarts = 0
SPECIFICATION Spec
CHECK_DEADLOCK FALSE
\* Each of these is violated; one at a time.
\* INVARIANT ActiveRunIsManaged
INVARIANT OneTaskPerRun
