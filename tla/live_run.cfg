\* Two runs with three faults, two runs and a --stop with two, and one point
\* with three messages.
SPECIFICATION MCFairSpec
CONSTANTS
    Driver = {"ota", "stop", "point"}
    a = a
    b = b
    Peer = {a, b}
    MaxRun = 2
    MaxFaults = 3
    ContainerMode = TRUE
    Options <- MCOptions
    Timeline <- GoodOutageGood
    Duration = 1
    Drain = 2
    Delay = 2
    WarmUp = 1
    Life = 7
    StartTime = 10
    MaxMessages = 3
    Period = 1
INVARIANTS
    CrashSafe
    ShapingFollowsTheRun
    StoppedMeansStopped
    PointIsSound
PROPERTIES
    ShapingGoesAway
\* The runs and the messages are bounded.
CHECK_DEADLOCK FALSE
