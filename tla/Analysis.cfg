SPECIFICATION Spec
CONSTANTS
    Dollar = 100
    Depth = 2
    FeeNum = 1
    FeeDen = 50
    OfferMarkets <- MCMarkets
    OutcomeTokens <- MCTokens
    NegRisk <- MCNegRisk
    SharedPrefix <- MCSharedPrefix
    Events <- MCEvents
    CorrelationFiles <- MCFiles
    Fetches <- MCFetches
    MidPrices <- MCMids
    MaxIntra = 3
    MaxEvent = 2
    MaxPair = 2
    MaxDeadline = 2
    MinDeviation = 0
    MinImplied = 0
    MinEdge = 0
    Tokens <- MCSignalTokens
    Readings <- MCReadings
    Configs <- MCConfigs
    DepthWindow = 3
    MinDepths = 2
    VolumeWindow = 2
    MinVolume = 1
    SpikeTimes = 2
    MaxAge = 2
    MinPrice = 90
    MaxPrice = 99
    MaxHours = 2
    MinModelEdge = 5
    MaxInterval = 30
    MaxPosition = 2
    QuoteSize = 8
    MaxScans = 4
    Overrides <- MCOverrides
    Sweeps <- MCSweeps
    Unparsable <- MCUnparsable
    MaxPoints = 2
    Histories <- MCHistories
    Pnls <- MCPnls
    Spreads <- MCSpreads
    MaxSeries = 5
    Tail95 = 3
    Tail99 = 5
    Portfolios <- MCPortfolios
    Percents <- MCPercents
    BleedSeconds = 1200
    FilterMarkets = {"m"}
    Particles = 3
    Parts = 6
    Guesses <- MCGuesses
    MaxPaths = 7
    BatchSize = 3
    SeNum = 1
    SeDen = 30
    Crowds <- MCCrowds
    FirstPrice = 50
    MaxSteps = 4
    Draws <- MCDraws
    FirstConfig <- MCConfig
    FirstReading <- Quiet1
INVARIANTS
    DetectedEdgeIsReal
    PairsAsDeclared
    WalksAreBest
    SignalsHold
    SandboxHonest
    StudiesHold
    EstimatesSound
    BudgetsHold
CHECK_DEADLOCK FALSE
