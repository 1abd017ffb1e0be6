SPECIFICATION RunSpec
CONSTANTS
    NoKey = NoKey
    owner = owner
    agent = agent
    spare = spare
    shop = shop
    m1 = m1
    m2 = m2
    purse = purse
    till = till
    Wallets = {owner, agent, spare, shop}
    Mandates = {m1}
    OwnerOf <- OwnBoth
    TokenAccounts = {purse, till}
    HolderOf <- HoldBoth
    Terms <- AgentTerms
    Amounts = {1, 2}
    Nonces = {1, 2, 3}
    Balances = {3}
    Times = {0, 1}
    Outside = {}
    LEDGER_CAPACITY = 2
    U32_MAX = 3
    Commands = {1, 2}
    Ops = {"connect", "pay", "status", "request", "sdk", "purpose"}
    DefaultKey = agent
    FlagKey = spare
    IdOf <- Ids
    AtaOf <- Atas
    NONCE_MAX = 3
    MaxSlot = 2
    SlotsPerDay = 2
    RingCapacity = 1
    PriceWindows = {"missing", "negative", "price"}
    Remote = TRUE
    MaxSends = 4
    MaxFaults = 2
    U64_MAX = 3
    DAYS_MAX = 2
    PURPOSE_MAX = 1
    LABEL_MAX = 1
    Pubkeys = {1, 2, 3}
    Tokens <- MCTokens
    Drafts <- MCDrafts
    MaxEdits = 2
INVARIANTS
    ReportsAreTrue
    JournalIsBacked
    LinksAreReadAlike
PROPERTIES
    SeenOverrideIsKept
    ChargersEnd
CHECK_DEADLOCK FALSE
