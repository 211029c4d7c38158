SPECIFICATION Spec
CONSTANTS
    Keys <- MCKeys
    ObjectSize <- MCObjectSize
    Content <- MCContent
    Ranges <- MCRanges
    Prefetch <- MCPrefetch
    Drift <- MCDrift
    Connections = 2
    Latency = 3
    Bandwidth = 0
    MaxRequests = 3
    MaxPhase = 2
INVARIANTS
    FetchesNoMoreThanItMust
    RequestsWaitForAnswers
PROPERTY ImplementsOpenFile
CHECK_DEADLOCK FALSE
