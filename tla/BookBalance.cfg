SPECIFICATION Spec
CONSTANTS
    t1 = t1
    r1 = r1
    r2 = r2
    Tokens <- MCOneToken
    Requests <- MCTwoRequests
    MaxPrice = 3
    MaxHeld = 2
    CashBound = 4
SYMMETRY Symmetry
CONSTRAINT UntilRaced
INVARIANT BalancedUntilRaced
