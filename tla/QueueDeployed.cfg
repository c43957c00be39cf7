SPECIFICATION DeliveryFairSpec
CONSTANTS
    p1 = p1
    p2 = p2
    m1 = m1
    s1 = s1
    Workers = {w1}
    Symbols = {s1}
    Slots = {1, 2}
    NumHandlers = 3
    MaxJobs = 2
    MaxRetries <- MCRetries
    Cleaners = {}
    MaxFaults = 1
    RedisFull = FALSE
    Resends = FALSE
    NoRaw = NoRaw
    Subs = {p1, p2, m1}
    ChannelOf <- MCChannelOf
    Follows <- MCFollows
    Polled = {3}
    Unset = {1}
    InitialSubs = {p1}
    MaxEdits = 1
    MaxMishaps = 1
    NoSub = NoSub
INVARIANTS
    DeliveryTypeOK
    NeverLost
    NilMeansReached
    LogTruthful
    DeactivationHeeded
    AtMostOnce
PROPERTIES
    OrderedDelivery
    FailureIsolated
    QueueServed
