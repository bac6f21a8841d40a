SPECIFICATION Spec
CONSTANTS
    Axis <- Axes
    AxisOrder <- Order
    Resets <- Bandwidth
    Guardable <- Jitter
    Load <- Offered
    Worst = 2
    Repeats = 2
    Required = 2
    BadCount = 2
    Rounds = 1
    Iterations = 2
    RefineIterations = 1
    Metric <- Metrics
    Counts <- Loss
    Higher <- MoreIsBetter
    Rows <- Benched
    Runner = {"ci", "bench"}
    Top = 4
    Spread = {0, 1}
    WidthFactor = 1
    Labels <- TwoLabels
    Shipped <- Package
    Override <- Users
    PinnedQos = "pinned"
    BaseNet <- Net
    IdealRate = 1000
    FixedJitter = 30
    Values <- TwoValues
    AbRepeats = 3
    Readings = {0, 1, 2, 6}
    AbsTolerance = 1
    RelTolerance = 3
    Recordings <- Recorded
INVARIANTS
    EarlyStopKeepsVerdict
    BoundsMeanWhatTheySay
    EdgesAreFound
    OldLevelsStayRed
    TheCommandBanks
    SummaryMatchesTheLane
    OnlyTheAxisVaries
    VerdictIsFair
    OnsetIsClean
PROPERTIES
    SearchEnds
CHECK_DEADLOCK FALSE
