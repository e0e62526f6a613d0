SPECIFICATION Spec
CONSTANTS
    Tasks = {1, 2}
    Graphs <- MCGraphs
    ExecutorResults <- PlainResults
    MaxRetries = 0
    SharedIds = TRUE
    MaxCommands = 1
    MaxResolutions = 0
    MaxLeases = 0
    MaxNow = 0
    MaxControls = 0
    MaxCrashes = 1
    MaxInputs = 9
    Controls = {FALSE}
    Decisions = {"reject", "override"}
    UnknownIds = {}
    NoLedger = NoLedger
PROPERTIES
    CommitsSurvive
\* Once the bounds on commands are used up nothing is left to do.
CHECK_DEADLOCK FALSE
