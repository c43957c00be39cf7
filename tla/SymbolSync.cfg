SPECIFICATION FairSpec
CONSTANTS
    Workers = {w1, w2}
    Admins = {a1, a2}
    Symbols = {s1, s2}
    Defaults = {s2}
    Missing = Missing
    MaxAdmin = 2
    MaxFaults = 1
PROPERTIES
    UntouchedKeepsRunning
    Converges
