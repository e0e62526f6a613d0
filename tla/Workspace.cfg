SPECIFICATION Spec
CONSTANTS
    Tasks = {1, 2}
    Paths <- MCPaths
    Roots <- MCRoots
    Checkout <- MCCheckout
    Links <- MCLinks
    Dirs <- MCDirs
    RuntimePaths <- MCRuntimePaths
    Executors = {"scripted", "api", "host"}
    MaxTokens = 1
    MaxWall = 1
    Uses <- MCUses
    MaxActions = 2
    MaxRuns = 2
INVARIANTS JailHolds NoLeftovers OvershootBounded CommitDescribed
PROPERTY NothingAfterTimeout
CHECK_DEADLOCK FALSE
