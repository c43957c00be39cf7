SPECIFICATION FairSpec
CONSTANTS
    Workers = {w1}
    Symbols = {s1}
    Slots = {1}
    NumHandlers = 1
    MaxJobs = 1
    MaxRetries <- MCRetries2
    w1 = w1
    w2 = w2
    Cleaners = {}
    MaxFaults = 0
    RedisFull = FALSE
    Resends = FALSE
    NoRaw = NoRaw
PROPERTY RetriedOrDead
