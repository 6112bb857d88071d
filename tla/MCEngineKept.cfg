CONSTANTS
    t1 = t1
    t2 = t2
    r1 = r1
    r2 = r2
    r3 = r3
    m1 = m1
    m2 = m2
    m3 = m3
    NoRun = NoRun
    NoManaged = NoManaged
    Thread = {t1}
    Run = {r1}
    ThreadOf <- OneThread
    ConfirmedRun = {}
    KeyedRun = {}
    Managed = {m1}
    MaxConcurrentRuns = 1
    MaxRestarts = 0
SPECIFICATION FairSpec
CHECK_DEADLOCK FALSE
\* Each of these is violated; one at a time.
\* PROPERTY CancelOfNewRunConverges
\* PROPERTY RunningEnds
\* INVARIANT FailureIsTerminal
\* INVARIANT CompletedDidNotFail
PROPERTY CancelOfAskedRunConverges
