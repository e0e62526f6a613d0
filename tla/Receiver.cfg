SPECIFICATION FairSpec
CONSTANTS
    k1 = k1
    k2 = k2
    plan = plan
    Keys <- MCKeys
    Ledgers <- MCLedgers
    LedgerOf <- MCLedgerOf
    d1 = d1
    d2 = d2
    Dirs <- MCDirs
    DirOf <- MCDirOf
    Cloned = {k1, k2}
    Threads = {1, 2, 3}
    MaxParallel = 2
    NoKey = NoKey
    MaxCalls = 3
    MaxFailures = 1
    MaxAges = 1
INVARIANTS
    TypeOK
    RunsOnce
    SlotsExact
    AckedAccounted
    RunningOwned
    CloneOwned
PROPERTIES
    TaskSettles
    TaskLives
\* Once the bounds on dispatches are used up nothing is left to do.
CHECK_DEADLOCK FALSE
