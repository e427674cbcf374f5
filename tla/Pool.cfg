SPECIFICATION FairSpec
CONSTANTS
    Workers = {w1, w2, w3}
    NumJobs = 4
    AllocFails = {2}
\* the function returns, or waits for ever once a job was dropped
CHECK_DEADLOCK FALSE
INVARIANTS TypeOK ReturnSound WaitGroupCounts
PROPERTIES WaitReturns
