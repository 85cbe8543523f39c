SPECIFICATION FairSpec
CONSTANTS
    MaxTrades = 3
    HistoryCap = 2
    IoFaults = TRUE
PROPERTIES SavedStays RecordedGetsSaved
