SPECIFICATION Spec
CONSTANTS
    Passwords = {1, 2}
    MaxWrites = 2
    MaxCuts = 1
    MaxLate = 0
INVARIANT RefusedMeansIncorrect
CHECK_DEADLOCK FALSE
