SPECIFICATION FairSpec
CONSTANTS
    Tickets = {t1, t2}
    Infixes = {}
    NoSignal = NoSignal
    MaxEvents = 1
INVARIANTS
    TypeOK
    CopiedOnce
    ClosedAfterSource
PROPERTIES
    OpenIsPosted
    LatestIsHandled
