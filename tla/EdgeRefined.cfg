CONSTANTS
    Dollar = 100
    Depth = 2
    OfferMarkets <- MCMarkets
    OutcomeTokens <- MCTokens
    NegRisk <- MCNegRisk
    SharedPrefix <- MCSharedPrefix
    Events <- MCEvents
    CorrelationFiles <- MCFiles
    Fetches <- MCFetches
    MidPrices <- MCMids
    MaxIntra = 3
    MaxEvent = 2
    MaxPair = 2
    MaxDeadline = 2
    MinDeviation = 0
    MinImplied = 0
    MinEdge = 0
    FeeNum = 1
    FeeDen = 50
INIT OfferInit
NEXT OfferNext
INVARIANT RefinedEdgeIsReal
