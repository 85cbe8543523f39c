SPECIFICATION DaemonFairSpec
CONSTANTS
    MaxOpps = 2
    Edges <- MCEdges
    PnlBound = 2
    LossLimit = 1
    DiskFaults = TRUE
PROPERTIES DaemonContract StopsOrKilled
