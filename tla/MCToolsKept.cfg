CONSTANTS
    k1 = k1
    NoKey = NoKey
    Library <- SomeLibraries
    Call <- CallsOfAllRules
    MaxCalls = 3
    MaxRestarts = 1
SPECIFICATION Spec
CHECK_DEADLOCK FALSE
\* Each of these is violated; one at a time.
\* INVARIANT KeyIsPostedOnce
\* INVARIANT StartsAreNamed
\* INVARIANT BlockedIsFinal
\* INVARIANT WritesAreRecorded
INVARIANT NoneMeansNone
