SPECIFICATION FairSpec
CONSTANTS
    Files = {f1}
    Shards = {s1, s2}
    Remotes = {r1}
    NoRemote = NoRemote
    Need = 1
    MaxEncodings = 1
    MaxFaults <- EveryKind
    DestReady = FALSE
\* an upload whose allocation failed hangs until it is killed
CHECK_DEADLOCK FALSE
INVARIANTS TypeOK
PROPERTIES CommandFinishes
