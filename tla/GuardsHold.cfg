SPECIFICATION GuardsSpec
CONSTANTS
    Markets <- MCMarkets
    MaxQuotes = 5
    MaxTokens = 2
    Window = 3
    MaxTime = 8
    MaxFills = 5
    ErrorWindow = 1
    LatencyWindow = 2
    MinResults = 2
    MinLatencies = 2
    MaxSamples = 4
    MaxClock = 4
    Categories <- MCCategories
    Quiet = 2
    ShortWindow = 1
    LongWindow = 2
    Errors <- MCErrors
    MaxDelay = 1
    MaxAlerts = 3
    MaxRecords = 4
    LastTick = 5
    Kinds <- MCKinds
    Realized <- MCRealized
    StartingEquity = 1
    MaxReports = 2
    MaxOpen = 1
    MaxBooked = 4
    Clients <- MCClients
    Slots = 2
    MaxEvents = 4
    Listed <- MCListed
    Kind <- MCKind
    TokensOf <- MCTokensOf
    PageSize = 2
    MaxBooks = 4
    MaxConcurrent = 2
    MaxDelisted = 2
    Handlers <- MCHandlers
    Versions <- MCVersions
    Sane <- MCSane
    Length <- MCLength
    MaxPuts = 4
    DefaultVersion = "default"
    TickTokens <- MCTickTokens
    ZeroPriced <- MCZeroPriced
    Retention = 1
    MinTicks = 2
    LastDay = 3
    MaxBatches = 3
    Shells <- MCShells
    OtherFiles <- MCOtherFiles
    MaxKeys = 3
    Approvals <- MCApprovals
    Upgraders <- MCUpgraders
    BatchSize = 2
    MaxSets = 3
    MaxPosts = 2
INVARIANTS
    IndexesAgree
    BudgetHolds
    ReplayLosesLittle
    TripsOnRecent
    MonitorsHold
    ClientsServed
    LoadSound
    WrittenComesBack
    KeysKept
    CommandsHold
CHECK_DEADLOCK FALSE
