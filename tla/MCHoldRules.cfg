\* The clock stops at its bound, and then nothing may be left to do.
CHECK_DEADLOCK FALSE
SPECIFICATION Spec
ACTION_CONSTRAINT RingNotWrapped
CONSTANTS
    NoKey = NoKey
    owner = owner
    guard = guard
    friend = friend
    shop = shop
    kiosk = kiosk
    till = till
    stall = stall
    nest = nest
    Vault = Vault
    Owner = owner
    HolderOf <- Holders1
    HOLD_BPS_DENOMINATOR = 2
    HOLD_KNOWN_CAPACITY = 1
    HOLD_PENDING_CAPACITY = 2
    Keys = {owner, guard, friend}
    Destinations = {nest}
    BUCKET_SECS = 1
    WINDOW_HOURS = 1
    U64_MAX = 4
    LEDGER_CAPACITY = 8
    U32_MAX = 9
    Rules <- RecordRules
    Amounts = {1}
    MaxBalance = 1
    MaxTime = 3
    MaxRewind = 1
    Calls = {"deposit", "withdraw", "execute", "stop", "freeze", "unfreeze", "skip", "recover", "propose_change", "apply_change", "cancel_change"}
INVARIANTS
    RecordTellsTheVault
    PendingChangeLoosens
PROPERTIES
    LooseningWaits
    FreezeHolds
