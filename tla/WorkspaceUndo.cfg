SPECIFICATION Spec
CONSTANTS
    Tasks = {1, 2}
    Paths <- OnePath
    Roots <- MCRoots
    Checkout <- MCCheckout
    Links <- MCLinks
    Dirs <- MCDirs
    RuntimePaths = {}
    Executors = {"scripted"}
    MaxTokens <- NoLimit
    MaxWall <- NoLimit
    Uses = {}
    MaxActions = 2
    MaxRuns = 2
INVARIANT ReconciledWorkPresent
CHECK_DEADLOCK FALSE
