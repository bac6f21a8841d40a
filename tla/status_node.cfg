\* Two outbound topics of three stages, the last one seen in the graph only; and
\* one topic followed for three ticks under ten contracts.
SPECIFICATION MCSpec
CONSTANTS
    heartbeat = heartbeat
    image = image
    Topic <- MCTopic
    Own <- MCOwn
    Declared <- MCDeclared
    Last = 3
    GraphOnly <- MCGraphOnly
    Refresh = 1
    Interval = 1
    Grace = 2
    MaxTime = 6
    MaxExits = 1
    MaxLeaves = 1
    Session <- MCSessions
    Window = 1
    StaleAfter = 1
    DelayGood = 1
    DelayBad = 2
    Slow = 3
    Hold = 3
    StreamTime = 2
    Deadline = 2
    None = None
INVARIANTS
    LateIsNotDead
    PanelAgreesWithTest
PROPERTIES
    EventuallyJudged
    OkWasDelivered
\* The model's time ends.
CHECK_DEADLOCK FALSE
