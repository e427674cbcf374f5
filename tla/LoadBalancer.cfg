SPECIFICATION Spec
CONSTANTS
    Remotes = {r1, r2}
    NoRemote = NoRemote
    Speeds = {1, 2}
    MaxEntries = 1
    NumProcs = 2
    MaxCalls = 4
    MaxCuts = 1
    MaxFails = 1
    MaxEdits = 1
\* no call is left to make
CHECK_DEADLOCK FALSE
SYMMETRY Symmetry
INVARIANTS TypeOK Balanced
PROPERTIES FastestChosen ErrorHasCause
