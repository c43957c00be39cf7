SPECIFICATION Spec
CONSTANTS
    Calls = {1, 2}
    AccessTTL = 1
    RefreshTTL = 3
    MaxLogins = 2
    MaxTime = 5
    MaxFaults = 1
CHECK_DEADLOCK FALSE
INVARIANTS
    TypeOK
    SpentStaysSpent
    LogoutRevokes
PROPERTIES
    LogoutCompletes
