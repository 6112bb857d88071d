CONSTANTS
    c1 = c1
    c2 = c2
    Caller = {c1}
    MaxConnections = 3
    MaxRetries = 4
    MaxFaults = 2
    MaxCommands = 1
    Listings = 2
SPECIFICATION Spec
CHECK_DEADLOCK FALSE
\* Each of these is violated; one at a time.
\* INVARIANT RemovedIsClosed
\* INVARIANT ConnectedHasSession
PROPERTY NoComeback
