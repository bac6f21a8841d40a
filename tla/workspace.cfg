SPECIFICATION TmuxSpec
CONSTANTS
    a = a
    b = b
    Identity = {a, b}
    Command = {1, 2, 3}
    Options <- MCOptions
    ConsoleOptions <- MCConsoleOptions
    Apps <- MCApps
    Faulty = {"start", "stop", "smoke", "rig"}
    LineUps <- MCLineUps
    MaxFaults = 1
    Host = Host
    None = None
INVARIANTS
    NothingSeenSurvives
    SmokeCleansUp
    StopCleansUp
    NobodyIsStuck
PROPERTIES
    SmokeStopsOnlyItsOwn
    RigsStayApart
CHECK_DEADLOCK FALSE
