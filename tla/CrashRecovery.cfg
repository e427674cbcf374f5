SPECIFICATION Spec
CONSTANTS
    Files = {f1, f2}
    Shards = {s1, s2}
    Remotes = {r1, r2}
    NoRemote = NoRemote
    Need = 1
    MaxEncodings = 2
    MaxFaults <- Recovery
    DestReady = TRUE
CONSTRAINT Claimed
SYMMETRY Symmetry
INVARIANTS OneUnfinished StoredWhole LocalFresh DownloadSound OthersComeBack
