SPECIFICATION Spec
CONSTANTS
    Passwords = {1, 2}
    MaxWrites = 2
    MaxCuts = 2
    MaxLate = 1
INVARIANTS
    TypeOK
    NothingLost
    SealedOnce
    OpenIsCurrent
PROPERTIES
    RightPasswordOpens
CHECK_DEADLOCK FALSE
