SPECIFICATION Spec
CONSTANTS
    Tokens <- MCTokens
    Markets <- MCMarkets
    MarketOf <- MCMarketOf
    Opportunities <- MCOpportunities
    ManualPrices <- MCManualPrices
    Unit = 100
    MaxTotal = 300
    MaxPerMarket = 200
    MaxOrders = 2
    MaxHeld = 2
    FillPrices <- MCFillPrices
    MaxDrift = 100
    Modes = {"paper", "live"}
INVARIANTS
    OpenOrdersWithinLimit
    CapsHold
