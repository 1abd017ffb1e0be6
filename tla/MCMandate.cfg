SPECIFICATION RunSpec
CONSTANTS
    NoKey = NoKey
    owner = owner
    agent = agent
    shop = shop
    m1 = m1
    m2 = m2
    purse = purse
    till = till
    Wallets = {owner, agent, shop}
    Mandates = {m1, m2}
    OwnerOf <- OwnBoth
    TokenAccounts = {purse, till}
    HolderOf <- Hold2
    Terms <- AllTerms
    Amounts = {0, 1, 2}
    Nonces = {0, 1, 2}
    Balances = {1, 2}
    Times = {0, 1}
    Outside = {"freeze", "transfer", "revoke"}
    LEDGER_CAPACITY = 1
    Followed = m1
    U32_MAX = 1
    Stories = {"alone", "shared"}
INVARIANTS
    TypeOK
    NoncePaidOnce
    ActiveHasBudget
    EveryChargeIsDecided
    SuggestionIsGrantable
    DelegationFollowsMandate
PROPERTIES
    PaidWithinTerms
    IsAnAllowance
