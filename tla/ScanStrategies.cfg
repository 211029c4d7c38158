SPECIFICATION Spec
CONSTANTS
    Files <- MCFiles
    Strategies <- MCStrategies
    Queries <- MCQueries
    Place <- Reals
    SignedOrder = TRUE
    Keys <- MCKeys
    ObjectSize <- MCObjectSize
    Ranges <- MCRanges
    Connections = 2
    Latency = 3
    Bandwidth = 0
    MaxRequests = 40
    MaxPhase = 3
INVARIANTS
    ScanIsExact
    FetchesWhatItDecodes
    NoByteFetchedTwice
    GapsAreTheOnlyWaste
PROPERTY MergingSavesRequests
CHECK_DEADLOCK FALSE
