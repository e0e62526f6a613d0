SPECIFICATION Spec
CONSTANTS
    k1 = k1
    k2 = k2
    plan = plan
    Keys <- MCKeys
    Ledgers <- MCLedgers
    LedgerOf <- MCLedgerOf
    d1 = d1
    d2 = d2
    Dirs <- MCDirs
    DirOf <- MCDirOf
    Cloned = {k1, k2}
    Threads = {1, 2}
    MaxParallel = 1
    NoKey = NoKey
    MaxCalls = 3
    MaxFailures = 0
    MaxAges = 0
INVARIANT
    PendingSyncable
CHECK_DEADLOCK FALSE
