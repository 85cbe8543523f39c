SPECIFICATION FairSpec
CONSTANTS
    r1 = r1
    r2 = r2
    Requests <- MCOneRequest
    MaxOpps = 1
    Edges <- MCEdges
    PnlBound = 1
    Limits = {0}
    LiveMode = FALSE
    CliOps = TRUE
    IoFaults = FALSE
PROPERTIES
    CliResumeRestartsEngine
