SPECIFICATION FairSpec
CONSTANTS
    sync = sync
    thread = thread
    Workers <- MCWorkers
    Receivers <- MCReceivers
    MaxRetries = 1
    MaxEvents = 2
    MaxDrains = 3
    MaxAges = 1
    MaxCrashes = 1
INVARIANTS
    TypeOK
    ReportSound
PROPERTIES
    Implements
    DrainReturns
\* Once the bounds on drains are used up nothing is left to do.
CHECK_DEADLOCK FALSE
