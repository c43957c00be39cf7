SPECIFICATION FairSpec
CONSTANTS
    Processes = {p1, p2, p3}
    NumFiles = 2
    MaxFaults = 2
INVARIANT ServedIsMigrated
PROPERTY StartsOrStranded
CHECK_DEADLOCK FALSE
