CONSTANTS
    k1 = k1
    NoKey = NoKey
    Library <- SomeLibraries
    Call <- CallsOfAllRules
    MaxCalls = 3
    MaxRestarts = 1
SPECIFICATION Spec
CHECK_DEADLOCK FALSE
INVARIANTS
    GateHolds
    BlockedStaysBlocked
    LedgerTells
