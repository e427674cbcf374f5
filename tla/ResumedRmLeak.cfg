SPECIFICATION Spec
CONSTANTS
    Files = {f1}
    Shards = {s1, s2}
    Remotes = {r1}
    NoRemote = NoRemote
    Need = 1
    MaxEncodings = 1
    MaxFaults <- TwoCrashes
    DestReady = TRUE
PROPERTIES ForgottenAfterGone
