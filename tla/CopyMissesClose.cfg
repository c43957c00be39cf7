SPECIFICATION FairSpec
CONSTANTS
    Tickets = {t1, t2}
    Infixes = {}
    NoSignal = NoSignal
    MaxEvents = 0
PROPERTIES
    CloseIsCopied
