SPECIFICATION Spec
CONSTANTS
    Files <- ZeroFiles
    Strategies <- ZeroStrategies
    Queries <- ZeroQueries
    Place <- Floats
    SignedOrder = TRUE
    Keys <- MCKeys
    ObjectSize <- MCObjectSize
    Ranges <- MCRanges
    Connections = 2
    Latency = 3
    Bandwidth = 0
    MaxRequests = 40
    MaxPhase = 3
INVARIANT ScanIsExact
CHECK_DEADLOCK FALSE
