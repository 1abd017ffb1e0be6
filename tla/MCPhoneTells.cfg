\* The clocks and the calendar stop at their bounds.
CHECK_DEADLOCK FALSE
SPECIFICATION RunSpec
CONSTANTS
    MaxId = 2
    Waits = {1, 2}
    HOUR = 1
    HalfDay = 1
    QuarterDay = 1
    RingSize = 3
    MaxMarks = 1
    SEEN_CAP = 3
    LastTick = 2
    Stories <- AlertStories
    PayRules <- MCPayRules
    TradeRules <- MCTradeRules
    NoticeRing = 1
    NoticeStories <- MCNoticeStories
INVARIANTS
    AlertsAreTrue
    NoticesComeOnce
PROPERTIES
    NewsArrives
