SPECIFICATION Spec
CONSTANTS
    Files = {f1}
    Shards = {s1, s2, s3}
    Remotes = {r1}
    NoRemote = NoRemote
    Need = 2
    MaxEncodings = 1
    MaxFaults <- OneDamage
    DestReady = TRUE
SYMMETRY Symmetry
INVARIANTS DownloadedMeansRestored
