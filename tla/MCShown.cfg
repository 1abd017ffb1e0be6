\* The bounds stop the system.
CHECK_DEADLOCK FALSE
SPECIFICATION RunSpec
CONSTANTS
    AgentOf <- MCAgentOf
    RingRows = 8
    DayLen = 2
    Offset = 1
    GradeMinRequests = 3
    GradeMinDays = 2
    ManyRefusals = 2
    PlaqueDays = 3
    RuleCap = 5
    RuleLife = 14
    RecordStories <- MCRecordStories
    PayRules = {1}
    TradeRules = {2}
    RuleWidgets = {w1, w2}
    Spend = s
    Jobs = {1, 2}
    RuleEnd = 2
    MaxTime = 2
    MaxRows = 2
    MaxBegun = 3
    MaxChanges = 2
    Listable = {1, 2}
    ListableTrades = {2}
    Accounts = {1, 2}
    AccountOf <- MCAccountOf
    Fetches = {1, 2}
    RATE_LIMIT_RETRIES = 1
    Requests = {r1, r2}
    LastTick = 4
    MaxAsked = 3
    DAY = 4
    SLOT = 2
    STATE_TTL = 3
    PAYMENTS_TTL = 2
    FirstDate <- MCFirstDate
    DayBodies <- MCDayBodies
    FxDocs <- MCFxDocs
    Currencies = {"SEK", "USD"}
    KwhMilli = 15
    MintDecimals = 1
    MaxPayments = 2
    PAGE_LIMIT = 1
    PRICE_SCALE = 2
    KWH_MILLI_SCALE = 1
    FX_MAX_CALENDAR_DAYS = 4
SYMMETRY Symmetry
INVARIANTS
    RecordsAreTrue
    WidgetsAreTrue
    
    TerminalTellsTheTruth
PROPERTIES
    RecordsOnlyGrow
