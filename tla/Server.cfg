SPECIFICATION FairSpec
CONSTANTS
    Conns = {1, 2}
    Files <- MCFiles
    Envs <- MCEnvs
    Requests <- MCRequests
    None = None
INVARIANTS TypeOK AcceptedRuns
PROPERTIES Answered BeatsRecur
CHECK_DEADLOCK FALSE
