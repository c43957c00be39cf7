SPECIFICATION FairSpec
CONSTANTS
    Workers = {w1, w2}
    Symbols = {s1}
    Slots = {1}
    NumHandlers = 1
    MaxJobs = 1
    MaxRetries <- MCRetriesMixed
    w1 = w1
    w2 = w2
    Cleaners = {w1}
    MaxFaults = 2
    RedisFull = TRUE
    Resends = FALSE
    NoRaw = NoRaw
INVARIANTS
    TypeOK
    SingleCopy
PROPERTIES
    FailedJobKept
    ImplementsLifecycle
    OrphansRecovered
