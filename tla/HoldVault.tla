------------------------------ MODULE HoldVault ------------------------------
(***************************************************************************)
(* A Hold vault of the veto program (programs/veto/src/hold.rs,            *)
(* hold_state.rs). Everyday withdrawals are paid at once; anything else    *)
(* waits out a delay during which the owner or the guardian may stop it.   *)
(* Rules tighten at once and loosen after the same delay. Either key may   *)
(* freeze the vault or send all of it to the safe address; only both       *)
(* together pay early.                                                     *)
(*                                                                         *)
(* One action is one transaction. A transfer the token program refuses     *)
(* fails its transaction and changes nothing, so the accounts outside the  *)
(* vault are known here by name only.                                      *)
(***************************************************************************)
EXTENDS LedgerRing, RollingWindow

CONSTANTS
    NoKey,                   \* Pubkey::default()
    Keys,                    \* wallets that sign
    Owner,                   \* the vault's owner
    Vault,                   \* the vault's own address
    Destinations,            \* token accounts withdrawals may name
    HolderOf,                \* the wallet that owns each of them
    HOLD_KNOWN_CAPACITY,     \* remembered destinations (16)
    HOLD_PENDING_CAPACITY,   \* concurrent held withdrawals (8)
    HOLD_BPS_DENOMINATOR,    \* 10000
    Rules,                   \* rules init_vault and propose_change are called with
    Amounts,                 \* amounts deposited and withdrawn
    Calls,                   \* instructions called in this instance
    MaxBalance,              \* bound on what is deposited
    MaxTime,                 \* bound on the chain clock
    MaxRewind                \* how far the clock may step back at once

\* HoldChange, and the same fields of HoldVault
HoldChange ==
    [daily_limit : 0 .. U64_MAX, delay_secs : Int, big_share_bps : Nat,
     guardian : Keys \union {NoKey}, safe_address : Keys \union {NoKey, Vault}]

Instructions ==
    {"deposit", "send", "withdraw", "execute", "stop", "freeze", "unfreeze", "skip",
     "recover", "propose_change", "apply_change", "cancel_change"}

ASSUME HoldAssumption ==
    /\ NoKey \notin Keys \union {Vault}
    /\ Vault \notin Keys
    /\ Owner \in Keys
    /\ HolderOf \in [Destinations -> Keys \union {Vault}]
    /\ U64_MAX > 0
    /\ HOLD_KNOWN_CAPACITY \in Nat
    /\ HOLD_PENDING_CAPACITY \in Nat
    /\ HOLD_BPS_DENOMINATOR \in Nat \ {0}
    /\ Rules \subseteq HoldChange
    /\ Amounts \subseteq Nat
    /\ Calls \subseteq Instructions
    /\ MaxBalance \in Nat
    /\ MaxTime \in Nat
    /\ MaxRewind \in Nat

VARIABLES
    now,       \* Clock::get().unix_timestamp
    vault,     \* the HoldVault account
    balance,   \* the amount in the vault's token account
    ledger,    \* the HoldLedger account
    past       \* history, read by the properties only

vars == <<now, vault, balance, ledger, past>>

-----------------------------------------------------------------------------
(* State                                                                   *)

Seconds == 0 .. MaxTime

Ids == 1 .. U64_MAX

\* PendingWithdrawal, of status WITHDRAWAL_PENDING
PendingWithdrawal ==
    [id : Ids, amount : Nat, destination : Destinations, unlock_at : Int]

\* CHANGE_DAILY, CHANGE_DELAY, CHANGE_SHARE, CHANGE_GUARDIAN, CHANGE_SAFE
Fields == {"daily_limit", "delay_secs", "big_share_bps", "guardian", "safe_address"}

NoRules ==
    [daily_limit |-> 0, delay_secs |-> 0, big_share_bps |-> 0, guardian |-> NoKey,
     safe_address |-> NoKey]

PendingChange ==
    [active : BOOLEAN, fields : SUBSET Fields, values : HoldChange, effective_at : Int]

\* PendingChange::default()
NoChange == [active |-> FALSE, fields |-> {}, values |-> NoRules, effective_at |-> 0]

\* The rows of the `pending` array that are not empty, and the first known_len of `known`;
\* their places in the arrays decide nothing.
HoldVaultAccount ==
    [rules : HoldChange, unfreeze_at : Int, next_withdrawal_id : Ids, frozen : BOOLEAN,
     known : SUBSET Destinations, pending : SUBSET PendingWithdrawal,
     change : PendingChange, daily_buckets : Buckets]

Kinds ==
    {"OPENED", "DEPOSITED", "PAID", "HELD", "STOPPED", "FROZEN", "UNFROZEN", "SKIPPED",
     "RECOVERED", "CHANGE_PROPOSED", "CHANGE_APPLIED", "CHANGE_CANCELLED", "REFUSED",
     "UNFREEZE_SCHEDULED"}

HoldEntry ==
    [kind : Kinds, amount : Nat, destination : Keys \union Destinations \union {NoKey, Vault},
     id : Ids \union {0},
     reason : {"NONE", "INSUFFICIENT_FUNDS", "PENDING_FULL"} \union SUBSET Fields]

MkEntry(kind, amount, destination, id, reason) ==
    [kind |-> kind, amount |-> amount, destination |-> destination, id |-> id,
     reason |-> reason]

\* When a withdrawal was held, under which delay, and with which guardian in office.
Origin == [at : Seconds, delay : Int, guardian : Keys \union {NoKey}]

NoOrigin == [at |-> 0, delay |-> 0, guardian |-> NoKey]

Past ==
    [held : [Ids -> Origin],        \* of the withdrawals now pending
     settled : SUBSET Ids,          \* withdrawals paid, stopped or cleared
     paidTo : SUBSET Destinations,  \* paid after the wait, or by both keys
     recent : [Seconds -> Nat],     \* released in each second, what is long past forgotten
     lastOut : Seconds,             \* the latest second anything was released in
     asked : Origin,                \* when the pending change was asked for, under which delay
     armed : Origin]                \* when the thaw of the present freeze was armed, likewise

\* Every account holds what its layout says: identifiers and bucket amounts stay in u64
\* (the checked id in withdraw, the saturating sum in record_release).
TypeOK ==
    /\ now \in Seconds
    /\ vault \in HoldVaultAccount
    /\ balance \in Nat
    /\ ledger \in Ring(HoldEntry)
    /\ past \in Past

PendingIds == {row.id : row \in vault.pending}

-----------------------------------------------------------------------------
(* Rules                                                                   *)

DelayAllowed(delay) == delay \in {WINDOW_SECS, 2 * WINDOW_SECS, 3 * WINDOW_SECS}

\* require_rules
RulesAllowed(r) ==
    /\ DelayAllowed(r.delay_secs)
    /\ r.big_share_bps <= HOLD_BPS_DENOMINATOR
    /\ r.safe_address \notin {NoKey, Vault}
    /\ r.guardian # Owner

\* Mutant: each part is rounded up.
MutShareCap(amount, bps) ==
    (amount \div HOLD_BPS_DENOMINATOR) * bps
        + ((amount % HOLD_BPS_DENOMINATOR) * bps + HOLD_BPS_DENOMINATOR - 1)
            \div HOLD_BPS_DENOMINATOR

\* share_cap, computed in two parts so that the product stays in u64
ShareCap(amount, bps) ==
    LET whole == amount \div HOLD_BPS_DENOMINATOR
        rem == amount % HOLD_BPS_DENOMINATOR
    IN whole * bps + (rem * bps) \div HOLD_BPS_DENOMINATOR

\* can_pay_now
CanPayNow(destination, amount) ==
    LET daily_next == Spent(vault.daily_buckets, now) + amount IN
    /\ ~vault.frozen
    /\ destination \in vault.known
    /\ daily_next <= U64_MAX
    /\ daily_next <= vault.rules.daily_limit
    /\ daily_next <= ShareCap(balance, vault.rules.big_share_bps)

\* remember
Remember(known, destination) ==
    IF destination \in known \/ Cardinality(known) >= HOLD_KNOWN_CAPACITY THEN known
    ELSE known \union {destination}

\* What propose_change applies at once ...
Tightened(r, values) ==
    {f \in Fields :
        \/ f = "daily_limit" /\ values.daily_limit < r.daily_limit
        \/ f = "delay_secs" /\ values.delay_secs > r.delay_secs
        \/ f = "big_share_bps" /\ values.big_share_bps < r.big_share_bps
        \/ f = "guardian" /\ values.guardian # r.guardian /\ r.guardian = NoKey}

\* Mutant: adding a guardian is also taken for loosening.
MutAddingWaits(r, values) ==
    {f \in Fields :
        \/ f = "daily_limit" /\ values.daily_limit > r.daily_limit
        \/ f = "delay_secs" /\ values.delay_secs < r.delay_secs
        \/ f = "big_share_bps" /\ values.big_share_bps > r.big_share_bps
        \/ f = "guardian" /\ values.guardian # r.guardian
        \/ f = "safe_address" /\ values.safe_address # r.safe_address}

\* ... and what it makes wait.
Loosened(r, values) ==
    {f \in Fields :
        \/ f = "daily_limit" /\ values.daily_limit > r.daily_limit
        \/ f = "delay_secs" /\ values.delay_secs < r.delay_secs
        \/ f = "big_share_bps" /\ values.big_share_bps > r.big_share_bps
        \/ f = "guardian" /\ values.guardian # r.guardian /\ r.guardian # NoKey
        \/ f = "safe_address" /\ values.safe_address # r.safe_address}

\* Mutant: every value is taken, whether its field was chosen or not.
MutAdoptAll(r, values, fields) == values

\* The rules r with the given fields taken from values.
Adopt(r, values, fields) ==
    [daily_limit   |-> IF "daily_limit" \in fields THEN values.daily_limit ELSE r.daily_limit,
     delay_secs    |-> IF "delay_secs" \in fields THEN values.delay_secs ELSE r.delay_secs,
     big_share_bps |-> IF "big_share_bps" \in fields THEN values.big_share_bps
                       ELSE r.big_share_bps,
     guardian      |-> IF "guardian" \in fields THEN values.guardian ELSE r.guardian,
     safe_address  |-> IF "safe_address" \in fields THEN values.safe_address
                       ELSE r.safe_address]

-----------------------------------------------------------------------------
(* Instructions                                                            *)

\* When what is asked for now is due: withdraw, unfreeze and propose_change all add the
\* delay in force.
Due(delay) == now + delay

\* init_vault
InitVault(r) ==
    /\ RulesAllowed(r)
    /\ vault = [rules |-> r, unfreeze_at |-> 0, next_withdrawal_id |-> 1, frozen |-> FALSE,
                known |-> {}, pending |-> {}, change |-> NoChange,
                daily_buckets |-> NoBuckets]
    /\ balance = 0
    /\ ledger = Record(EmptyRing, MkEntry("OPENED", 0, r.safe_address, 0, "NONE"))

Init ==
    /\ now = 0
    /\ \E r \in Rules : InitVault(r)
    /\ past = [held |-> [i \in Ids |-> NoOrigin], settled |-> {}, paidTo |-> {},
               recent |-> [t \in Seconds |-> 0], lastOut |-> 0, asked |-> NoOrigin,
               armed |-> NoOrigin]

Writes(kind, amount, destination, id, reason) ==
    ledger' = Record(ledger, MkEntry(kind, amount, destination, id, reason))

\* The accounts of every instruction that pays from the vault; transfer_out_parts checks
\* the same again.
PayableTo(destination) == HolderOf[destination] # Vault

\* Signers accepted by stop, freeze, recover and cancel_change.
OwnerOrGuardian == {k \in Keys : k = Owner \/ k = vault.rules.guardian}

Deposit(amount) ==
    /\ "deposit" \in Calls
    /\ amount > 0
    /\ balance + amount <= MaxBalance
    /\ balance' = balance + amount
    /\ Writes("DEPOSITED", amount, Vault, 0, "NONE")
    /\ UNCHANGED <<now, vault, past>>

\* Anyone may transfer into the vault's token account without the program.
Send(amount) ==
    /\ "send" \in Calls
    /\ balance + amount <= MaxBalance
    /\ balance' = balance + amount
    /\ UNCHANGED <<now, vault, ledger, past>>

\* The start of the day that ends at second t.
DayBefore(t) == t - WINDOW_SECS

\* record_release and the transfer, as the histories see them: what lies outside the day that
\* ends with the latest release is forgotten.
Released(p, amount) ==
    LET last == IF now > p.lastOut THEN now ELSE p.lastOut IN
    [p EXCEPT !.lastOut = last,
              !.recent = [t \in Seconds |->
                             IF t <= DayBefore(last) THEN 0
                             ELSE p.recent[t] + IF t = now THEN amount ELSE 0]]

\* A withdrawal the balance does not cover.
WithdrawUncovered(destination, amount) ==
    /\ amount > balance
    /\ Writes("REFUSED", amount, destination, 0, "INSUFFICIENT_FUNDS")
    /\ UNCHANGED <<now, vault, balance, past>>

WithdrawPaid(destination, amount) ==
    /\ amount <= balance
    /\ CanPayNow(destination, amount)
    /\ vault' = [vault EXCEPT !.daily_buckets = RecordRelease(@, amount, now)]
    /\ balance' = balance - amount
    /\ Writes("PAID", amount, destination, 0, "NONE")
    /\ past' = Released(past, amount)
    /\ UNCHANGED now

\* A held withdrawal, or a refusal when no slot is empty. The identifier never wraps: the
\* transaction fails instead.
WithdrawHeld(destination, amount) ==
    LET id == vault.next_withdrawal_id
        row == [id |-> id, amount |-> amount, destination |-> destination,
                unlock_at |-> Due(vault.rules.delay_secs)]
    IN
    /\ amount <= balance
    /\ ~CanPayNow(destination, amount)
    /\ Cardinality(vault.pending) < HOLD_PENDING_CAPACITY
    /\ id < U64_MAX
    /\ vault' = [vault EXCEPT !.next_withdrawal_id = id + 1, !.pending = @ \union {row}]
    /\ Writes("HELD", amount, destination, id, "NONE")
    /\ past' = [past EXCEPT !.held[id] = [at |-> now, delay |-> vault.rules.delay_secs,
                                          guardian |-> vault.rules.guardian]]
    /\ UNCHANGED <<now, balance>>

WithdrawFull(destination, amount) ==
    /\ amount <= balance
    /\ ~CanPayNow(destination, amount)
    /\ Cardinality(vault.pending) >= HOLD_PENDING_CAPACITY
    /\ Writes("REFUSED", amount, destination, 0, "PENDING_FULL")
    /\ UNCHANGED <<now, vault, balance, past>>

Withdraw(destination, amount) ==
    /\ "withdraw" \in Calls
    /\ PayableTo(destination)
    /\ amount > 0
    /\ \/ WithdrawUncovered(destination, amount)
       \/ WithdrawPaid(destination, amount)
       \/ WithdrawHeld(destination, amount)
       \/ WithdrawFull(destination, amount)

\* Mutant: a settled row stays in its slot.
MutKeepRow(row) == vault.pending

\* The rows left once one is settled.
Without(row) == vault.pending \ {row}

\* What execute and skip share: the row is paid, its destination remembered, the row
\* cleared.
PayRow(row, kind) ==
    /\ PayableTo(row.destination)
    /\ balance >= row.amount
    /\ vault' = [vault EXCEPT !.daily_buckets = RecordRelease(@, row.amount, now),
                              !.known = Remember(@, row.destination),
                              !.pending = Without(row)]
    /\ balance' = balance - row.amount
    /\ Writes(kind, row.amount, row.destination, row.id, "NONE")
    /\ past' = [Released(past, row.amount) EXCEPT
                    !.held[row.id] = NoOrigin,
                    !.settled = @ \union {row.id},
                    !.paidTo = @ \union {row.destination}]
    /\ UNCHANGED now

\* Mutant: a row is due one second early.
MutDueEarly(row) == now + 1 >= row.unlock_at

IsDue(row) == now >= row.unlock_at

\* execute, which anyone may call
Execute(row) ==
    /\ "execute" \in Calls
    /\ ~vault.frozen
    /\ IsDue(row)
    /\ PayRow(row, "PAID")

Stop(row) ==
    /\ "stop" \in Calls
    /\ \E authority \in OwnerOrGuardian :
        /\ vault' = [vault EXCEPT !.pending = Without(row)]
        /\ Writes("STOPPED", row.amount, row.destination, row.id, "NONE")
        /\ past' = [past EXCEPT !.held[row.id] = NoOrigin, !.settled = @ \union {row.id}]
        /\ UNCHANGED <<now, balance>>

\* Both keys sign: a guardian is set and is not the owner.
BothKeys(guardian) ==
    /\ guardian # NoKey
    /\ guardian = vault.rules.guardian
    /\ guardian # Owner

Skip(row) ==
    /\ "skip" \in Calls
    /\ \E guardian \in Keys : BothKeys(guardian)
    /\ ~vault.frozen
    /\ PayRow(row, "SKIPPED")

Freeze(authority) ==
    /\ "freeze" \in Calls
    /\ authority \in OwnerOrGuardian
    /\ ~vault.frozen
    /\ vault' = [vault EXCEPT !.frozen = TRUE]
    /\ Writes("FROZEN", 0, authority, 0, "NONE")
    /\ past' = [past EXCEPT !.armed = NoOrigin]
    /\ UNCHANGED <<now, balance>>

\* Mutant: the armed thaw outlives the thaw.
MutThawed == [vault EXCEPT !.frozen = FALSE]

Thawed == [vault EXCEPT !.frozen = FALSE, !.unfreeze_at = 0]

\* finish_unfreeze
FinishUnfreeze ==
    /\ vault' = Thawed
    /\ Writes("UNFROZEN", 0, NoKey, 0, "NONE")
    /\ past' = [past EXCEPT !.armed = NoOrigin]
    /\ UNCHANGED <<now, balance>>

UnfreezeByBoth ==
    /\ \E guardian \in Keys : BothKeys(guardian)
    /\ FinishUnfreeze

\* Without a guardian the owner first arms the thaw ...
ArmUnfreeze ==
    /\ vault.rules.guardian = NoKey
    /\ vault.unfreeze_at = 0
    /\ vault' = [vault EXCEPT !.unfreeze_at = Due(vault.rules.delay_secs)]
    /\ Writes("UNFREEZE_SCHEDULED", 0, NoKey, 0, "NONE")
    /\ past' = [past EXCEPT !.armed = [at |-> now, delay |-> vault.rules.delay_secs,
                                        guardian |-> NoKey]]
    /\ UNCHANGED <<now, balance>>

\* ... and finishes it after the wait.
UnfreezeAlone ==
    /\ vault.rules.guardian = NoKey
    /\ vault.unfreeze_at # 0
    /\ now >= vault.unfreeze_at
    /\ FinishUnfreeze

Unfreeze ==
    /\ "unfreeze" \in Calls
    /\ vault.frozen
    /\ UnfreezeByBoth \/ ArmUnfreeze \/ UnfreezeAlone

\* Mutant: the rows stay claims on the next deposit.
MutKeepClaims == vault.pending

\* The rows recover leaves: none, for execute needs no key.
Unclaimed == {}

Recover(destination) ==
    /\ "recover" \in Calls
    /\ \E authority \in OwnerOrGuardian :
        /\ balance > 0
        /\ HolderOf[destination] = vault.rules.safe_address
        /\ PayableTo(destination)
        /\ vault' = [vault EXCEPT !.pending = Unclaimed]
        /\ balance' = 0
        /\ Writes("RECOVERED", balance, destination, 0, "NONE")
        /\ past' = [past EXCEPT !.held = [i \in Ids |-> NoOrigin],
                                !.settled = @ \union PendingIds]
        /\ UNCHANGED now

\* The two records propose_change may write, in this order.
WritesChange(tighten, loosen, safe) ==
    LET applied == IF tighten = {} THEN ledger
                   ELSE Record(ledger, MkEntry("CHANGE_APPLIED", 0, NoKey, 0, tighten))
    IN ledger' = IF loosen = {} THEN applied
                 ELSE Record(applied, MkEntry("CHANGE_PROPOSED", 0, safe, 0, loosen))

ProposeChange(values) ==
    LET tighten == Tightened(vault.rules, values)
        loosen == Loosened(vault.rules, values)
        r == Adopt(vault.rules, values, tighten)
    IN
    /\ "propose_change" \in Calls
    /\ RulesAllowed(values)
    /\ tighten # {} \/ loosen # {}
    /\ loosen # {} => ~vault.change.active
    /\ vault' = [vault EXCEPT
                    !.rules = r,
                    !.change = IF loosen = {} THEN @
                               ELSE [active |-> TRUE, fields |-> loosen, values |-> values,
                                     effective_at |-> Due(r.delay_secs)]]
    /\ WritesChange(tighten, loosen, values.safe_address)
    /\ past' = IF loosen = {} THEN past
               ELSE [past EXCEPT !.asked = [at |-> now, delay |-> r.delay_secs,
                                            guardian |-> r.guardian]]
    /\ UNCHANGED <<now, balance>>

\* What apply_change checks of the fields that waited.
Applicable(change) ==
    /\ "delay_secs" \in change.fields => DelayAllowed(change.values.delay_secs)
    /\ "big_share_bps" \in change.fields =>
            change.values.big_share_bps <= HOLD_BPS_DENOMINATOR
    /\ "guardian" \in change.fields => change.values.guardian # Owner
    /\ "safe_address" \in change.fields => change.values.safe_address \notin {NoKey, Vault}

\* apply_change, which anyone may call
ApplyChange ==
    LET change == vault.change IN
    /\ "apply_change" \in Calls
    /\ change.active
    /\ now >= change.effective_at
    /\ Applicable(change)
    /\ vault' = [vault EXCEPT !.rules = Adopt(@, change.values, change.fields),
                              !.change = NoChange]
    /\ Writes("CHANGE_APPLIED", 0, change.values.safe_address, 0, change.fields)
    /\ past' = [past EXCEPT !.asked = NoOrigin]
    /\ UNCHANGED <<now, balance>>

CancelChange ==
    /\ "cancel_change" \in Calls
    /\ \E authority \in OwnerOrGuardian :
        /\ vault.change.active
        /\ vault' = [vault EXCEPT !.change = NoChange]
        /\ Writes("CHANGE_CANCELLED", 0, NoKey, 0, "NONE")
        /\ past' = [past EXCEPT !.asked = NoOrigin]
        /\ UNCHANGED <<now, balance>>

\* The chain clock moves on ...
Tick ==
    /\ now < MaxTime
    /\ now' = now + 1
    /\ UNCHANGED <<vault, balance, ledger, past>>

\* ... and may step back (rolling_window.rs allows for it, and tests it).
Rewind ==
    \E back \in 1 .. MaxRewind :
        /\ back <= now
        /\ now' = now - back
        /\ UNCHANGED <<vault, balance, ledger, past>>

Next ==
    \/ \E amount \in Amounts : Deposit(amount) \/ Send(amount)
    \/ \E destination \in Destinations, amount \in Amounts : Withdraw(destination, amount)
    \/ \E row \in vault.pending : Execute(row) \/ Stop(row) \/ Skip(row)
    \/ \E authority \in Keys : Freeze(authority)
    \/ Unfreeze
    \/ \E destination \in Destinations : Recover(destination)
    \/ \E values \in Rules : ProposeChange(values)
    \/ ApplyChange
    \/ CancelChange
    \/ Tick
    \/ Rewind

Spec == Init /\ [][Next]_vars

-----------------------------------------------------------------------------
(* Properties                                                              *)

\* The entry written last.
Newest(ring) == ring.entries[(ring.head + LEDGER_CAPACITY - 1) % LEDGER_CAPACITY]

\* A pending change only ever loosens the rules it will be applied to, whatever was
\* tightened since it was proposed, and is due a full delay after it was: apply_change never
\* undoes a guardian or a limit it was not made to wait for.
PendingChangeLoosens ==
    vault.change.active =>
        /\ vault.change.fields # {}
        /\ vault.change.fields \subseteq Loosened(vault.rules, vault.change.values)
        /\ vault.change.effective_at = past.asked.at + past.asked.delay

\* After any sequence of tightenings, loosenings and cancellations the two keys are two keys,
\* the safe address is a wallet other than the vault, and a wait is at least a day.
RulesStayAllowed ==
    /\ vault.rules.guardian # Owner
    /\ vault.rules.safe_address \in Keys
    /\ vault.rules.delay_secs >= WINDOW_SECS
    /\ vault.rules.big_share_bps <= HOLD_BPS_DENOMINATOR

\* A thaw stays armed only while the freeze it was armed for lasts, and falls due the delay
\* then in force after it was armed: an old one never opens a later freeze (unfreeze,
\* finish_unfreeze).
ArmedThawIsFresh ==
    vault.unfreeze_at # 0 =>
        /\ vault.frozen
        /\ past.armed.delay >= WINDOW_SECS
        /\ vault.unfreeze_at = past.armed.at + past.armed.delay

\* A held withdrawal is settled once: no row carries the identifier of another row or of a
\* withdrawal already paid, stopped, or cleared by recover, nor one not given out yet.
SettledOnce ==
    /\ PendingIds \intersect past.settled = {}
    /\ \A id \in PendingIds \union past.settled : id < vault.next_withdrawal_id
    /\ \A a, b \in vault.pending : a.id = b.id => a = b

\* A row falls due a full delay after it was held, the delay being the one in force then,
\* whatever became of the rules since.
RowsKeepTheirWait ==
    \A row \in vault.pending :
        row.unlock_at = past.held[row.id].at + past.held[row.id].delay

\* Money goes at once only to destinations a first payment, delayed or signed by both keys,
\* has already reached; and the list of them stays within its array.
KnownWerePaid ==
    /\ vault.known \subseteq past.paidTo
    /\ Cardinality(vault.known) <= HOLD_KNOWN_CAPACITY

\* The newest record of a step names a way out of the vault, and that way was open: at once
\* from a vault not frozen; or the row with that amount and destination, after its wait or
\* with a guardian in office; or all of it to the safe address.
LeftByAnOpenWay ==
    LET e == Newest(ledger')
        OfRow == \E row \in vault.pending :
                    /\ row.id = e.id
                    /\ row.amount = e.amount
                    /\ row.destination = e.destination
    IN \/ e.kind = "PAID" /\ e.id = 0 /\ ~vault.frozen /\ e.destination \in past.paidTo
       \/ /\ e.kind = "PAID" /\ ~vault.frozen /\ OfRow
          /\ now >= past.held[e.id].at + past.held[e.id].delay
       \/ e.kind = "SKIPPED" /\ ~vault.frozen /\ OfRow /\ vault.rules.guardian # NoKey
       \/ /\ e.kind = "RECOVERED" /\ balance' = 0
          /\ HolderOf[e.destination] = vault.rules.safe_address

\* Whenever the balance falls, the newest record says by how much and by which of the ways
\* out of the vault, and that way was open (withdraw, execute, skip, recover).
MoneyLeavesByTheRules ==
    [][balance' < balance =>
        balance = balance' + Newest(ledger').amount /\ LeftByAnOpenWay]_vars

\* A rule is loosened only by a change asked for at least the delay then in force ago
\* (propose_change, apply_change).
LooseningWaits ==
    [][Loosened(vault.rules, vault'.rules) # {} =>
        vault.change.active /\ now >= past.asked.at + past.asked.delay]_vars

\* The owner alone never undoes a freeze but by a thaw armed for this very freeze, a day or
\* more of the chain's clock before, whatever the clock did in between.
FreezeHolds ==
    [][vault.frozen /\ ~vault'.frozen =>
        \/ vault.rules.guardian # NoKey
        \/ past.armed.delay >= WINDOW_SECS /\ now >= past.armed.at + past.armed.delay]_vars

\* The day a release is measured against: it ends now or, on a clock that stepped back, with
\* the latest release.
Latest == IF now > past.lastOut THEN now ELSE past.lastOut

\* What was released in that day.
DayTotal ==
    MapThenSumSet(LAMBDA t : past.recent[t], {t \in Seconds : t > DayBefore(Latest)})

\* An everyday payment and everything released in the day that ends with it, delayed payments
\* included, stay within the daily limit and within their share of the balance (can_pay_now,
\* share_cap and the rolling window together). On a clock that stepped back the day is that of
\* the latest release; a bucket that was reused before the step back holds nothing of an older
\* day (rolling_window.rs:16 says it would).
EverydayWithinLimits ==
    [][balance' < balance /\ Newest(ledger').id = 0 /\ Newest(ledger').kind = "PAID" =>
        LET total == DayTotal + Newest(ledger').amount IN
        /\ total <= vault.rules.daily_limit
        /\ total * HOLD_BPS_DENOMINATOR <= balance * vault.rules.big_share_bps]_vars

\* Entries i of the record that no entry of kinds after them, related to them by R, undoes.
LastWord(record, i, kinds, R(_)) ==
    \A j \in i + 1 .. Len(record) : record[j].kind \in kinds => ~R(record[j])

\* As long as the ring has not wrapped, a reader of the record alone knows whether the vault
\* is frozen, which withdrawals are pending and whether a change waits. A change applied
\* after its wait is told from one applied at once by its destination, the safe address.
RecordTellsTheVault ==
    LET record == Decode(ledger)
        Standing(kind, kinds, R(_)) ==
            {i \in DOMAIN record : record[i].kind = kind /\ LastWord(record, i, kinds, R)}
        Any(e) == TRUE
        Waited(e) == e.kind = "CHANGE_APPLIED" => e.destination # NoKey
    IN ledger.total <= LEDGER_CAPACITY /\ ledger.total < U32_MAX =>
        /\ vault.frozen <=> Standing("FROZEN", {"UNFROZEN"}, Any) # {}
        /\ vault.change.active <=>
            Standing("CHANGE_PROPOSED", {"CHANGE_CANCELLED", "CHANGE_APPLIED"}, Waited) # {}
        /\ PendingIds =
            {record[i].id : i \in
                {k \in DOMAIN record :
                    /\ record[k].kind = "HELD"
                    /\ LastWord(record, k, {"RECOVERED"}, Any)
                    /\ LastWord(record, k, {"PAID", "SKIPPED", "STOPPED"},
                                LAMBDA e : e.id = record[k].id)}}

=============================================================================
