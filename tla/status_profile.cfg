\* A contract with an override for the selected profile.
SPECIFICATION MCSpec
CONSTANTS
    heartbeat = heartbeat
    image = image
    Topic <- MCTopic
    Own <- MCOwn
    Declared <- MCDeclared
    Last = 3
    GraphOnly <- MCGraphOnly
    Refresh = 1
    Interval = 1
    Grace = 2
    MaxTime = 6
    MaxExits = 1
    MaxLeaves = 1
    Session <- MCSessions
    Window = 1
    StaleAfter = 1
    DelayGood = 1
    DelayBad = 2
    Slow = 3
    Hold = 3
    StreamTime = 2
    Deadline = 2
    None = None
INVARIANTS
    ProfileDecides
CHECK_DEADLOCK FALSE
