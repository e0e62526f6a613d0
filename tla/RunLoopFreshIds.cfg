SPECIFICATION Spec
CONSTANTS
    Tasks = {1, 2, 3}
    Graphs <- OneGraph
    ExecutorResults <- PlainResults
    MaxRetries = 0
    SharedIds = FALSE
    MaxCommands = 3
    MaxResolutions = 4
    MaxLeases = 0
    MaxNow = 0
    MaxControls = 1
    MaxCrashes = 0
    MaxInputs = 9
    Controls = {FALSE}
    Decisions = {"override"}
    UnknownIds = {}
    NoLedger = NoLedger
INVARIANTS
    HandoverSound
\* Once the bounds on commands are used up nothing is left to do.
CHECK_DEADLOCK FALSE
