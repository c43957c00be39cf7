SPECIFICATION Spec
CONSTANTS
    Requests = {r1, r2, r3}
    Symbols = {s1, s2}
    Keys = {k1, k2}
    MaxFaults = 2
    None = None
INVARIANTS
    TypeOK
    PublishedIsStored
    OneRowPerKey
    DuplicateHasOriginal
    RealTimeOrder
CHECK_DEADLOCK FALSE
SYMMETRY Symmetry
