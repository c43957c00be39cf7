SPECIFICATION Spec
SYMMETRY Symmetry
CONSTANTS
    Checks = {r1, r2, r3}
    Accounts = {a1, a2}
    NoAccount = NoAccount
    Limits = {1, 2, Unlimited}
    Unlimited = Unlimited
    MaxAdmin = 2
    MaxFaults = 1
INVARIANTS
    TypeOK
    ExcessExplained
    AllowedWasRegistered
CHECK_DEADLOCK FALSE
