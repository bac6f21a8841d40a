SPECIFICATION FairSpec
CONSTANTS
    Config <- MCConfig
    MaxHold = 3
    Window = 2
    MinDelay <- MCMinDelay
    MaxDelay = 3
    MaxMessages = 4
    MaxTime = 5
    None = None
INVARIANTS
    LateWaitsOnlyForNewer
    ReAnchored
PROPERTIES
    ImplementsDelayLine
    EveryMessageLeaves
CHECK_DEADLOCK FALSE
