CONSTANTS
    t1 = t1
    t2 = t2
    r1 = r1
    r2 = r2
    r3 = r3
    m1 = m1
    m2 = m2
    m3 = m3
    NoRun = NoRun
    NoManaged = NoManaged
    Thread = {t1}
    Run = {r1, r2}
    ThreadOf <- OneThread
    ConfirmedRun = {r2}
    KeyedRun = {}
    Managed = {m1, m2}
    MaxConcurrentRuns = 1
    MaxRestarts = 2
SPECIFICATION Spec
CHECK_DEADLOCK FALSE
SYMMETRY ManagedSymmetry
PROPERTIES
    ImplementsRunLifecycle
INVARIANTS
    ActiveRunIsManaged
    OneActiveRunPerThread
    TerminalEvidence
    DangerNeedsConsent
    RejectionHolds
    CompletedAfterAnswer
