SPECIFICATION FairSpec
CONSTANTS
    Tasks = {1, 2}
    Graphs <- MCGraphs
    ExecutorResults <- MCResults
    MaxRetries = 1
    SharedIds = TRUE
    MaxCommands = 3
    MaxResolutions = 1
    MaxLeases = 1
    MaxNow = 1
    MaxControls = 1
    MaxCrashes = 1
    MaxInputs = 4
    Controls = {TRUE, FALSE}
    Decisions = {"override"}
    UnknownIds = {0}
    NoLedger = NoLedger
INVARIANTS
    TypeOK
    HandoverSound
    DependenciesFirst
    LogTellsStatus
    StoredAtRest
    CommitsOnce
    SoleLease
PROPERTIES
    CommandReturns
    StoredContinues
\* Once the bounds on commands are used up nothing is left to do.
CHECK_DEADLOCK FALSE
