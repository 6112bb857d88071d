CONSTANTS
    c1 = c1
    c2 = c2
    Caller = {c1}
    MaxConnections = 3
    MaxRetries = 4
    MaxFaults = 1
    MaxCommands = 1
    Listings = 2
SPECIFICATION FairSpec
CHECK_DEADLOCK FALSE
INVARIANTS
    SessionIsThere
    RemovedRests
PROPERTIES
    Recovers
