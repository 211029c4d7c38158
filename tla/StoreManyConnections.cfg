SPECIFICATION StoreSpec
CONSTANTS
    Keys <- MCKeys
    ObjectSize <- MCObjectSize
    Ranges <- FewRanges
    Connections = 2
    Latency = 2
    Bandwidth = 600000
    MaxRequests = 4
    MaxPhase = 2
INVARIANTS
    StoreTypeOK
    OneAtATime
    PhaseBarrier
    StartsInOrder
    NoIdleConnection
    ElapsedBounds
PROPERTY TraceIsAppendOnly
CHECK_DEADLOCK FALSE
