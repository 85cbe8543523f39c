SPECIFICATION FairSpec
CONSTANTS
    r1 = r1
    r2 = r2
    Requests <- MCTwoRequests
    MaxOpps = 2
    Edges <- MCBigLoss
    PnlBound = 2
    Limits = {0}
    LiveMode = TRUE
    CliOps = TRUE
    IoFaults = TRUE
INVARIANTS
    TypeOK
    KillStandsEverywhere
    AtMostOneTradeWhileBlocked
PROPERTIES
    ContractSpec
    HaltQuiesces
    LossHalts
