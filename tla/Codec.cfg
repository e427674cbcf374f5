SPECIFICATION FairSpec
CONSTANTS
    MinSize = 2
    SmallData = 2
    SmallParity = 2
    StartData = 4
    DataStep = 2
    MaxShards = 6
    Block = 2
    Overhead = 1
    Sizes = {1, 5, 6, 8}
    MaxRetries = 1
    MaxLost = 2
    MaxHurt = 1
    MaxKills = 1
INVARIANTS
    TypeOK
    ShardLimit
    IntactRestores
    RebuiltRight
PROPERTIES
    DecodeEnds
CHECK_DEADLOCK FALSE
