SPECIFICATION RunSpec
CONSTANTS
    NoKey = NoKey
    owner = owner
    agent = agent
    shop = shop
    m1 = m1
    m2 = m2
    purse = purse
    till = till
    Wallets = {owner, agent, shop}
    Mandates = {m1}
    OwnerOf <- OwnBoth
    TokenAccounts = {purse, till}
    HolderOf <- Hold2
    Terms <- RecordTerms
    Amounts = {1, 2}
    Nonces = {1, 2}
    Balances = {2}
    Times = {0, 1}
    Outside = {"approve"}
    LEDGER_CAPACITY = 2
    Followed = m1
    U32_MAX = 3
    Stories = {"record"}
INVARIANT RecordTellsTheTruth
