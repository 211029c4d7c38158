SPECIFICATION Spec
CONSTANTS
    Base <- MCBase
    Batch = 1
    Targets <- MCTargets
    Smalls <- MCSmalls
    MaxSnapshots = 5
INVARIANTS
    EverySnapshotStaysExact
    LookupFindsLiveOrders
    PlanFits
PROPERTY CompactionSettles
CHECK_DEADLOCK FALSE
