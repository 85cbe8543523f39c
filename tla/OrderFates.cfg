SPECIFICATION OrdersFairSpec
CONSTANTS
    Legs = 2
    Size = 2
    MaxRetries = 1
    PreferPostOnly = TRUE
    Faults = TRUE
    MaxRuns = 1
CHECK_DEADLOCK FALSE
INVARIANTS
    OrdersTypeOK
    PartialFillsAreReal
    ReportsAnswerForOrders
    OpenAfterFailureIsLate
PROPERTIES
    ExecutionReturns
