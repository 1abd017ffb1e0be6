\* The bounds stop the system.
CHECK_DEADLOCK FALSE
SPECIFICATION RunSpec
CONSTANTS
    Request <- MCRequest
    Templates <- MCTemplates
    Ending <- MCEnding
    Addresses = {"bot", "shop"}
    Owner = "owner"
    NoAddress = "none"
    Mint = "usd"
    Mints = {"usd", "sol"}
    Unit <- MCUnit
    Typed = {0, 3, 8}
    RENEWAL_WINDOW = 2
    MaxTime = 1
    MaxEdits = 2
    MaxForms = 2
    MaxFunds = 3
    Triples = {1, 2}
    RuleTerms = {1, 2}
    RingSize = 1
    Bounds <- MCBounds
    BUCKET_SECS = 2
    WINDOW_HOURS = 1
    U64_MAX = 100
    Percents = {0, 1, 33}
    Limits <- MCLimits
    Pools <- MCPools
    Amounts = {1, 4, 6}
    MinOuts = {0, 2}
    Nonces = {1, 2, 3}
    TRADE_FEE_NUM = 1
    OWNER_TRADE_FEE_NUM = 1
    FEE_DEN = 8
    TRADE_LEDGER_CAPACITY = 2
    BLOCK_TIME_SLACK = 1
    RULE_LIFE = 3
    MaxClock = 4
    MaxTxs = 3
    MaxMoves = 2
    Payouts = {33, 66}
    LogTime = 7
    MaxPaid = 3
    MaxRewind = 2
    LEDGER_CAPACITY = 3
    U32_MAX = 5
    Entries <- LedgerRows
    MaxLog = 9
INVARIANTS
    RulesAreOpenedAsShown
    VerdictsAreRight
    TradesAreSound
    WindowIsTheDay
    ReaderSeesRecentLog
