\* A chain with three values and two restarts, and a stream through every
\* session definition whose parts fit together.
SPECIFICATION MCSpec
CONSTANTS
    MaxValue = 3
    MaxRestarts = 2
    Declared <- ForwardingHops
    RoutesOnReader = TRUE
    Plans <- MCPlans
INVARIANTS
    ChainInOrder
    StagesCarryTheStream
    OneWriterPerTopic
PROPERTIES
    ShowsTheLatest
    EventuallyDelivered
