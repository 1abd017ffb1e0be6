\* The bounds on presses, calls and taps stop the system.
CHECK_DEADLOCK FALSE
SPECIFICATION RunSpec
CONSTANTS
    Rules = {1, 2}
    Standing = {1}
    Busy = {1}
    Keys = {1, 2, 3}
    AgentOwn = 9
    CAP = 2
    Tasks = {1, 2}
    Stories <- MCStories
    Reads = {1}
    CRASHES = 1
    HoldSlots = 2
    HoldDests = {"shop", "new"}
    KnownDest = "shop"
    HoldPresses = 2
    HoldMoves = 1
    HoldIds = 2
    HoldStories = {"use", "setup"}
INVARIANTS
    NothingIsLost
PROPERTIES
    NoBlindResend
    ScreensTellTheTruth
    SigningEnds
