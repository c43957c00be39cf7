SPECIFICATION Spec
CONSTANTS
    Requests = {r1, r2}
    Keys = {k1, k2}
    Missing = Missing
    Never = Never
    RateLimitMaxFail = 2
    MaxTime = 1
    MaxChanges = 3
    MaxEvents = 1
INVARIANTS
    TypeOK
    AcceptedWasUsable
    RefusedForReason
    OvershootBounded
    UsableKeyRemains
SYMMETRY Symmetry
