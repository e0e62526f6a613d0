SPECIFICATION Spec
CONSTANTS
    Tasks = {1, 2}
    Graphs <- MCGraphs
    ExecutorResults <- PlainResults
    MaxRetries = 0
    SharedIds = TRUE
    MaxCommands = 2
    MaxResolutions = 1
    MaxLeases = 0
    MaxNow = 0
    MaxControls = 0
    MaxCrashes = 0
    MaxInputs = 9
    Controls = {FALSE}
    Decisions = {"reject", "override"}
    UnknownIds = {}
    NoLedger = NoLedger
PROPERTIES
    StoredLogAppendOnly
\* Once the bounds on commands are used up nothing is left to do.
CHECK_DEADLOCK FALSE
