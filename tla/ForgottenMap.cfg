SPECIFICATION Spec
CONSTANTS
    Files = {f1, f2}
    Shards = {s1, s2}
    Remotes = {r1}
    NoRemote = NoRemote
    NumProcs = 1
    Main = Main
    MaxCommands = 3
    MaxCuts = 1
CHECK_DEADLOCK FALSE
SYMMETRY Symmetry
PROPERTIES DeathIsNoticed
