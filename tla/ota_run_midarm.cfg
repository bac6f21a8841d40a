SPECIFICATION MCSpec
CONSTANTS
    Driver = {"ota"}
    a = a
    b = b
    Peer = {a, b}
    MaxRun = 1
    MaxFaults = 1
    ContainerMode = TRUE
    Options <- StaticOptions
    Timeline <- GoodOutageGood
    Duration = 1
    Drain = 2
    Delay = 2
    WarmUp = 1
    Life = 7
    StartTime = 10
    MaxMessages = 4
    Period = 1
INVARIANTS
    QdiscNeverOutlivesTheRun
CHECK_DEADLOCK FALSE
