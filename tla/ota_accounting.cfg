SPECIFICATION Spec
CONSTANTS
    Tolerance = 2
    MaxRun = 2
    MaxSeq = 6
    MaxSeqLater = 3
    MaxInFlight = 2
    MaxFailedWrites = 1
    SenderObserves = TRUE
    ReorderDepth = 1
    FirstMatched = 1
    LastMatched = 1
    MinRun = 4
INVARIANTS
    GapsAreAccounted
    EpochFollowsRun
    LostNeverArrived
    SummaryCountsArrivals
    WindowKeepsItsOwnLosses
    BreadcrumbAgrees
CHECK_DEADLOCK FALSE
