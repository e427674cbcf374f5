SPECIFICATION Spec
CONSTANTS
    Files = {f1, f2}
    Shards = {s1, s2}
    Remotes = {r1}
    NoRemote = NoRemote
    NumProcs = 2
    Main = Main
    MaxCommands = 3
    MaxCuts = 2
\* no command is left to start
CHECK_DEADLOCK FALSE
SYMMETRY Symmetry
INVARIANTS TypeOK ListedStays
PROPERTIES UpdatesAtomic
