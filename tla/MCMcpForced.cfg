CONSTANTS
    c1 = c1
    c2 = c2
    Caller = {c1}
    MaxConnections = 3
    MaxRetries = 4
    MaxFaults = 2
    MaxCommands = 1
    Listings = 0
SPECIFICATION FairSpec
CHECK_DEADLOCK FALSE
PROPERTY AlwaysRecovers
