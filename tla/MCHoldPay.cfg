\* The clock stops at its bound, and then nothing may be left to do.
CHECK_DEADLOCK FALSE
SPECIFICATION Spec
CONSTANTS
    NoKey = NoKey
    owner = owner
    guard = guard
    friend = friend
    shop = shop
    kiosk = kiosk
    till = till
    stall = stall
    nest = nest
    Vault = Vault
    Owner = owner
    HolderOf <- Holders2
    HOLD_BPS_DENOMINATOR = 3
    HOLD_KNOWN_CAPACITY = 1
    HOLD_PENDING_CAPACITY = 2
    Keys = {owner, guard, friend, shop}
    Destinations = {till, nest}
    BUCKET_SECS = 2
    WINDOW_HOURS = 1
    U64_MAX = 3
    LEDGER_CAPACITY = 1
    U32_MAX = 1
    Rules <- PayRules
    Amounts = {1, 2}
    MaxBalance = 3
    MaxTime = 4
    MaxRewind = 2
    Calls = {"deposit", "send", "withdraw", "execute", "stop", "freeze", "unfreeze", "skip", "recover"}
INVARIANTS
    TypeOK
    SettledOnce
PROPERTIES
    MoneyLeavesByTheRules
    EverydayWithinLimits
    PreviewIsWhatHappens
