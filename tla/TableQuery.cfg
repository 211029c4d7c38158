CONSTANTS
    Keys <- MCKeys
    ObjectSize <- MCObjectSize
    Ranges = {}
    Connections = 2
    Latency = 1
    Bandwidth = 1000000
    MaxRequests = 4
    MaxPhase = 1
    Place <- MCPlace
    SignedOrder = TRUE
    Tables <- MCTables
    Contents <- MCContents
    Schema <- MCSchema
    PartitionColumns <- MCPartitionColumns
    Kind <- MCKind
    Queries <- MCQueries
INIT Init
NEXT Next
CHECK_DEADLOCK FALSE
INVARIANTS AnswerIsExact DiscoveryOnlyChangesCost
