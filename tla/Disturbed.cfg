SPECIFICATION Spec
CONSTANTS
    Files = {f1}
    Shards = {s1, s2, s3}
    Remotes = {r1, r2}
    NoRemote = NoRemote
    Need = 2
    MaxEncodings = 2
    MaxFaults <- Disturbed
    DestReady = TRUE
SYMMETRY Symmetry
INVARIANTS DownloadSound NoOrphan
PROPERTIES OnShelf
