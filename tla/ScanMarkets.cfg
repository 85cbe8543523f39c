SPECIFICATION Spec
CONSTANTS
    Markets <- MCMarkets
    Tokens <- MCTokens
    TokensOf <- MCTokensOf
    NegRisk <- MCMarkets
    EventOf <- MCEventOf
    One = 20
    MaxSum = 19
    Asks = {8, 12}
    Mids <- MCMids
    MaxGen = 7
INVARIANT MarketLegsOwnBook
PROPERTY ScanIsExact
