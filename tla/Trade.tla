-------------------------------- MODULE Trade --------------------------------
(*****************************************************************************)
(* Trade rules: a permission to sell through one pinned pool.  The program   *)
(* (programs/veto/src/trade.rs), the phone that opens the rule with a floor  *)
(* taken from the pool (app/lib/tradeForm.ts, tradePool.ts, tradeChain.ts),  *)
(* the agent that trades (sdk/src/agent.ts) and the tool that exports and    *)
(* checks the record of a trade (tools/trade.ts).                            *)
(*****************************************************************************)
EXTENDS RollingWindow, Sequences

CONSTANTS
    Percents,               \* floors typed in the form, in percent of the rate
    Limits,                 \* [cap, per_trade_max, daily_limit] typed in the form
    Pools,                  \* reserves other traders may leave, as [in, out]
    Amounts, MinOuts, Nonces,
    TRADE_FEE_NUM, OWNER_TRADE_FEE_NUM, FEE_DEN,
    TRADE_LEDGER_CAPACITY,
    BLOCK_TIME_SLACK,       \* seconds a row may be away from its block's time
    RULE_LIFE,
    MaxClock,               \* bound: the clock
    MaxTxs,                 \* bound: attempts of the agent
    MaxMoves                \* bound: acts of the owner, the pool and the clock's rewinds

VARIABLES
    now,
    rule,
    ledger,
    source,                 \* the owner's two accounts; sold and own are ghosts: what the
                            \* swaps took, and that the owner replaced the delegation
    pool,
    draft,
    txs,
    moves

tradeVars == <<now, rule, ledger, source, pool, draft, txs, moves>>

ASSUME TradeFees == /\ TRADE_FEE_NUM \in Nat /\ OWNER_TRADE_FEE_NUM \in Nat
                    /\ FEE_DEN \in Nat \ {0}
                    /\ TRADE_FEE_NUM + OWNER_TRADE_FEE_NUM < FEE_DEN

\* The inputs are whole numbers; a pool is emptied of both its sides or of neither, since
\* its shares are withdrawn in proportion.
ASSUME TradeInputs ==
    /\ Percents \subseteq Nat /\ Amounts \subseteq Nat
    /\ MinOuts \subseteq Nat /\ Nonces \subseteq Nat
    /\ Limits \subseteq [cap : Nat, per_trade_max : Nat, daily_limit : Nat]
    /\ Pools \subseteq {p \in [in : Nat, out : Nat] : p.in = 0 <=> p.out = 0}
    /\ RULE_LIFE \in Nat

Larger(a, b) == IF a >= b THEN a ELSE b
CeilDiv(a, b) == (a + b - 1) \div b

TradeInit ==
    /\ now = 1
    /\ rule = [status |-> "none"]
    /\ ledger = <<>>
    /\ source = [amount |-> 0, delegate |-> FALSE, delegated |-> 0, frozen |-> FALSE,
                 out |-> 0, outClosed |-> FALSE, outFrozen |-> FALSE,
                 sold |-> 0, own |-> FALSE]
    /\ pool \in Pools
    /\ draft = [at |-> "form"]
    /\ txs = <<>>
    /\ moves = 0

-----------------------------------------------------------------------------
(* Opening, on the phone. *)

\* validateTradeForm
ValidTradeForm(limits, percent) ==
    /\ limits.per_trade_max > 0 /\ limits.daily_limit > 0 /\ limits.cap > 0
    /\ limits.per_trade_max <= limits.daily_limit /\ limits.daily_limit <= limits.cap
    /\ percent \in 1..99

\* gcd, by its definition.
Gcd(a, b) == Max({d \in 1..Larger(a, b) : a % d = 0 /\ b % d = 0})

\* floorFromSpot: percent percent of the rate, in lowest terms, or rounded down to fit.
FloorFromSpot(out, in, percent) ==
    LET d == Gcd(percent * out, 100 * in)
        num == (percent * out) \div d
        den == (100 * in) \div d
    IN  IF num > U64_MAX \/ den > U64_MAX
        THEN [num |-> (percent * out) \div 100, den |-> in]
        ELSE [num |-> num, den |-> den]

\* TradeRuleForm and openTradeRule: the reserves are read, then the owner signs.
ReadFloor(limits, percent) ==
    /\ draft.at = "form"
    /\ ValidTradeForm(limits, percent)
    /\ pool.in > 0 /\ pool.out > 0
    /\ draft' = [at |-> "signing", limits |-> limits, percent |-> percent, read |-> pool,
                 floor |-> FloorFromSpot(pool.out, pool.in, percent), opened |-> now]
    /\ UNCHANGED <<now, rule, ledger, source, pool, txs, moves>>

\* TradeLedger::record
RecordTrade(row) == ledger' = SubSeq(Append(ledger, row), Larger(1, Len(ledger) + 2
                                                          - TRADE_LEDGER_CAPACITY), Len(ledger) + 1)
Row(kind, in, out, min, nonce, suggested, reason) ==
    [ts |-> now, kind |-> kind, amount_in |-> in, amount_out |-> out, min_out |-> min,
     nonce |-> nonce, suggested |-> suggested, reason |-> reason]

\* open_trade_rule, with a fresh account funded and delegated in the same transaction.
OpenTradeRule ==
    LET l == draft.limits
    IN  /\ draft.at = "signing"
        /\ draft.floor.num > 0 /\ draft.floor.den > 0 /\ draft.opened + RULE_LIFE > now
        /\ rule' = [status |-> "active", cap |-> l.cap, spent |-> 0,
                    per_trade_max |-> l.per_trade_max, daily_limit |-> l.daily_limit,
                    buckets |-> NoBuckets, floor_num |-> draft.floor.num,
                    floor_den |-> draft.floor.den, expires_at |-> draft.opened + RULE_LIFE,
                    override_amount |-> 0, override_nonce |-> 0, last_nonce |-> 0]
        /\ source' = [source EXCEPT !.amount = l.cap, !.delegate = TRUE, !.delegated = l.cap]
        /\ RecordTrade(Row("opened", l.cap, 0, 0, 0, 0, "ok"))
        /\ draft' = [draft EXCEPT !.at = "opened"]
        /\ UNCHANGED <<now, pool, txs, moves>>

OpenedAs == draft.at = "opened"
Moves == moves < MaxMoves /\ moves' = moves + 1

-----------------------------------------------------------------------------
(* evaluate and its helpers. *)

\* Fees round down, but a fee of a nonzero input is at least one unit.
TradeFee(amount) == Larger(1, (amount * TRADE_FEE_NUM) \div FEE_DEN)
OwnerFee(amount) == Larger(1, (amount * OWNER_TRADE_FEE_NUM) \div FEE_DEN)
InputAfterFees(amount) ==
    IF amount = 0 THEN 0
    ELSE IF amount <= TradeFee(amount) + OwnerFee(amount) THEN 0
    ELSE amount - TradeFee(amount) - OwnerFee(amount)

\* What the pool would give, rounded down, against the floor on the gross amount.
SpotBelowFloor(amount) ==
    LET net == InputAfterFees(amount)
        quote == (net * pool.out) \div (pool.in + net)
    IN  pool.in + net = 0 \/ quote * rule.floor_den < amount * rule.floor_num

\* The floor rounded up, as the least the exchange must give.
FloorBound(amount) == CeilDiv(amount * rule.floor_num, rule.floor_den)

EffectivePerTradeMax(nonce) ==
    IF rule.override_nonce # 0 /\ rule.override_nonce = nonce
    THEN Larger(rule.per_trade_max, rule.override_amount) ELSE rule.per_trade_max

Remaining == rule.cap - rule.spent
RemainingToday == Larger(0, rule.daily_limit - Spent(rule.buckets, now))

\* The first broken rule wins.  named is the account the agent named wrongly, if any.
Evaluate(amount, nonce, named) ==
    IF rule.status # "active" THEN "not active"
    ELSE IF now >= rule.expires_at THEN "expired"
    ELSE IF amount = 0 THEN "zero amount"
    ELSE IF nonce <= rule.last_nonce THEN "stale nonce"
    ELSE IF named = "destination" THEN "destination not allowed"
    ELSE IF named = "pool" THEN "pool not allowed"
    ELSE IF amount > EffectivePerTradeMax(nonce) THEN "over per trade max"
    ELSE IF Spent(rule.buckets, now) + amount > rule.daily_limit THEN "over daily"
    ELSE IF rule.spent + amount > rule.cap THEN "over cap"
    ELSE IF ~source.delegate THEN "delegate missing"
    ELSE IF source.delegated < amount \/ source.amount < amount THEN "insufficient funds"
    ELSE IF SpotBelowFloor(amount) THEN "below floor"
    ELSE IF source.frozen \/ source.outFrozen THEN "account frozen"
    ELSE "ok"

\* The constant product curve of the exchange: both sides are rounded for the pool, so it
\* may take less than the whole input.
Swap(amount) ==
    LET net == amount - TradeFee(amount) - OwnerFee(amount)
        left == CeilDiv(pool.in * pool.out, pool.in + net)
        taken == CeilDiv(pool.in * pool.out, left) - pool.in
    IN  [debit |-> taken + TradeFee(amount) + OwnerFee(amount), out |-> pool.out - left]

\* What the rule is charged: the debit seen on the source, not the amount asked for.
MutCharged(amount, debit) == amount
Charged(amount, debit) == debit

-----------------------------------------------------------------------------
(* trade. *)

\* A transaction that landed, with its instruction, its event and its block's time.
Tx(amount, min, nonce, kind, in, out, reason, suggested) ==
    [amount_in |-> amount, min_out |-> min, nonce |-> nonce, at |-> now,
     event |-> [kind |-> kind, amount_in |-> in, amount_out |-> out, reason |-> reason,
                suggested |-> suggested]]

\* One that failed, and left no trace: who is to blame is a ghost.
Failed(amount, min, nonce, why) ==
    Tx(amount, min, nonce, "failed", 0, 0, why, 0)

\* settle_trade: the swap, then the account, the window and the row.  A step that fails
\* undoes the swap with it.
SettleTrade(amount, min, nonce) ==
    LET effective == Larger(min, FloorBound(amount))
        swap == Swap(amount)
        charged == Charged(amount, swap.debit)
        why == IF amount <= TradeFee(amount) + OwnerFee(amount) THEN "below the floor after all"
               ELSE IF swap.out < min THEN "asked for more"
               ELSE IF swap.out < effective \/ swap.out = 0 THEN "below the floor after all"
               ELSE IF ~CanCommit(rule.buckets, charged, now) THEN "clock went back"
               ELSE "none"
    IN  IF why # "none"
        THEN txs' = Append(txs, Failed(amount, min, nonce, why))
             /\ UNCHANGED <<rule, ledger, source, pool>>
        ELSE /\ pool' = [in |-> pool.in + swap.debit, out |-> pool.out - swap.out]
             /\ source' = [source EXCEPT !.amount = @ - swap.debit,
                                         !.delegated = @ - swap.debit,
                                         !.delegate = source.delegated > swap.debit,
                                         !.sold = @ + swap.debit,
                                         !.out = @ + swap.out]
             /\ rule' = [rule EXCEPT
                   !.buckets = Commit(@, charged, now),
                   !.spent = @ + charged,
                   !.last_nonce = nonce,
                   !.override_nonce = IF @ = nonce THEN 0 ELSE @,
                   !.override_amount = IF rule.override_nonce = nonce THEN 0 ELSE @,
                   !.status = IF rule.spent + charged >= rule.cap THEN "exhausted" ELSE @]
             /\ RecordTrade(Row("traded", charged, swap.out, min, nonce, 0, "ok"))
             /\ txs' = Append(txs, Tx(amount, min, nonce, "traded", charged, swap.out, "ok", 0))

\* suggested_override: only for an amount the cap and the day still have room for.
SuggestedOverride(reason, amount) ==
    IF reason = "over per trade max" /\ amount <= Remaining /\ amount <= RemainingToday
    THEN amount ELSE 0

RecordRefusal(amount, min, nonce, reason) ==
    LET suggested == SuggestedOverride(reason, amount)
    IN  /\ rule' = [rule EXCEPT !.status = IF reason = "expired" THEN "expired" ELSE @]
        /\ RecordTrade(Row("refused", amount, 0, min, nonce, suggested, reason))
        /\ txs' = Append(txs, Tx(amount, min, nonce, "refused", amount, 0, reason, suggested))
        /\ UNCHANGED <<source, pool>>

\* An account that is no token account fails the transaction, before or after the swap.
TradeAttempt(amount, min, nonce, named) ==
    LET reason == Evaluate(amount, nonce, named)
    IN  /\ OpenedAs /\ rule.status # "none" /\ Len(txs) < MaxTxs
        /\ IF reason \in {"ok", "account frozen"} /\ source.outClosed
           THEN /\ txs' = Append(txs, Failed(amount, min, nonce, "destination closed"))
                /\ UNCHANGED <<rule, ledger, source, pool>>
           ELSE IF reason = "ok" THEN SettleTrade(amount, min, nonce)
           ELSE RecordRefusal(amount, min, nonce, reason)
        /\ UNCHANGED <<now, draft, moves>>

\* nextTradeNonce of the agent: a pending override's nonce, or the one after the last.
NextTradeNonce == IF rule.override_nonce > rule.last_nonce THEN rule.override_nonce
                  ELSE rule.last_nonce + 1

\* trade of the agent: the one decision for its nonce that the transaction carries; a
\* refusal also has the amount, a settled trade may have less.
TradeResult(tx) == {e \in {tx.event} : /\ e.kind \in {"traded", "refused"}
                                      /\ e.kind = "refused" => e.amount_in = tx.amount_in}

\* tradeStatus of the agent, by its own copy of the window and the clock of its machine.
StatusToday(clock) == Larger(0, rule.daily_limit
                 - MapThenSumSet(LAMBDA s : rule.buckets[s].amount,
                     {s \in BucketSlots : rule.buckets[s].hour >= Hour(clock) - WINDOW_HOURS}))

-----------------------------------------------------------------------------
(* The owner, the pool and the clock. *)

GrantTradeOverride(amount, nonce) ==
    /\ OpenedAs /\ Moves
    /\ nonce # 0 /\ amount > 0 /\ rule.status = "active" /\ nonce > rule.last_nonce
    /\ amount <= Remaining
    /\ rule' = [rule EXCEPT !.override_amount = amount, !.override_nonce = nonce]
    /\ RecordTrade(Row("override", amount, 0, 0, nonce, amount, "ok"))
    /\ UNCHANGED <<now, source, pool, draft, txs>>

RevokeTradeRule ==
    /\ OpenedAs /\ Moves /\ rule.status \notin {"none", "revoked"}
    /\ rule' = [rule EXCEPT !.status = "revoked", !.override_amount = 0, !.override_nonce = 0]
    /\ source' = IF source.frozen THEN source
                 ELSE [source EXCEPT !.delegate = FALSE, !.delegated = 0]
    /\ RecordTrade(Row("revoked", 0, 0, 0, 0, 0, "ok"))
    /\ UNCHANGED <<now, pool, draft, txs>>

\* close_trade_rule takes the ledger away with the rule.
CloseTradeRule ==
    /\ OpenedAs /\ Moves /\ rule.status # "none"
    /\ rule.status # "active" \/ now >= rule.expires_at
    /\ rule' = [rule EXCEPT !.status = "none"]
    /\ ledger' = <<>>
    /\ source' = IF source.frozen THEN source
                 ELSE [source EXCEPT !.delegate = FALSE, !.delegated = 0]
    /\ UNCHANGED <<now, pool, draft, txs>>

\* The mint freezes or thaws an account, or the owner closes the output account.
AccountsChange ==
    /\ OpenedAs /\ Moves
    /\ \/ source' = [source EXCEPT !.frozen = ~@]
       \/ ~source.outClosed /\ source' = [source EXCEPT !.outFrozen = ~@]
       \/ ~source.outClosed /\ source' = [source EXCEPT !.outClosed = TRUE]
    /\ UNCHANGED <<now, rule, ledger, pool, draft, txs>>

\* With the wallet alone, past the rule: the owner approves the rule for another amount,
\* revokes it or approves someone else, and money goes out of the source or comes in.
SourceChanges(amount) ==
    /\ OpenedAs /\ Moves /\ ~source.frozen
    /\ \/ source' = [source EXCEPT !.delegate = TRUE, !.delegated = amount, !.own = TRUE]
       \/ source' = [source EXCEPT !.delegate = FALSE, !.delegated = 0]
       \/ amount <= source.amount /\ source' = [source EXCEPT !.amount = @ - amount]
       \/ source' = [source EXCEPT !.amount = @ + amount]
    /\ UNCHANGED <<now, rule, ledger, pool, draft, txs>>

PoolMoves == /\ Moves /\ pool' \in Pools \ {pool}
             /\ UNCHANGED <<now, rule, ledger, source, draft, txs>>

TimeGoesOn == /\ now < MaxClock /\ now' = now + 1
              /\ UNCHANGED <<rule, ledger, source, pool, draft, txs, moves>>
ClockGoesBack == /\ Moves /\ OpenedAs /\ now > 1 /\ \E t \in 1..(now - 1) : now' = t
                 /\ UNCHANGED <<rule, ledger, source, pool, draft, txs>>

AgentTries ==
    \E amount \in Amounts, min \in MinOuts, nonce \in Nonces,
       named \in {"pinned", "destination", "pool"} : TradeAttempt(amount, min, nonce, named)

OthersAct ==
    \/ \E limits \in Limits, percent \in Percents : ReadFloor(limits, percent)
    \/ OpenTradeRule
    \/ \E amount \in Amounts, nonce \in Nonces : GrantTradeOverride(amount, nonce)
    \/ RevokeTradeRule \/ CloseTradeRule \/ AccountsChange
    \/ \E amount \in Amounts : SourceChanges(amount)
    \/ PoolMoves \/ TimeGoesOn \/ ClockGoesBack

TradeNext == AgentTries \/ OthersAct

TradeSpec == TradeInit /\ [][TradeNext]_tradeVars

-----------------------------------------------------------------------------
(* tools/trade.ts. *)

\* tradeRecordFromSignature: the row the transaction is matched with, if it is the only one.
RowsOf(tx) ==
    {i \in DOMAIN ledger :
        /\ ledger[i].nonce = tx.nonce /\ ledger[i].amount_in = tx.amount_in
        /\ ledger[i].kind = tx.event.kind /\ ledger[i].reason = tx.event.reason
        /\ ledger[i].amount_out = tx.event.amount_out /\ ledger[i].min_out = tx.min_out
        /\ ledger[i].suggested = tx.event.suggested
        /\ ledger[i].ts \in (tx.at - BLOCK_TIME_SLACK)..(tx.at + BLOCK_TIME_SLACK)}

\* The event must carry the amount the instruction asked for.
HasEvent(tx) == tx.event.kind # "failed" /\ tx.event.amount_in = tx.amount_in

ExportedTrade(tx) ==
    IF rule.status # "none" /\ HasEvent(tx) /\ Cardinality(RowsOf(tx)) = 1
    THEN {ledger[CHOOSE i \in RowsOf(tx) : TRUE]} ELSE {}

\* parseTradeRecord: a settled trade has no reason, a refusal has one.
ParseTradeRecord(record) == /\ record.kind \in {"traded", "refused"}
                            /\ (record.kind = "traded") <=> (record.reason = "ok")

\* assessTradeRecord compares every field with what the chain gives now.
Confirmed(record, tx) == ParseTradeRecord(record) /\ record \in ExportedTrade(tx)

-----------------------------------------------------------------------------
(* Properties. *)

Trades == {i \in DOMAIN txs : txs[i].event.kind = "traded"}
SumIn(S) == MapThenSumSet(LAMBDA i : txs[i].event.amount_in, S)

\* The latest second traded at, up to the i-th transaction.
LatestTrade(i) == Max({txs[k].at : k \in {k \in Trades : k <= i}})

\* What the rule counts is what its swaps took from the owner's account, whatever else the
\* owner does with it: the spent total is the sum of the debits and of the events, a
\* delegation the owner did not replace is what is left of the cap, and after every trade
\* the day that ends at the latest second traded at holds at most the daily limit.
\* While the clock only goes on that is the day of the trade; a trade made after the clock
\* went back is added to the later ones, not set against a bucket they reused.
TradesKeepTheLimits ==
    OpenedAs =>
        /\ rule.spent = source.sold /\ rule.spent = SumIn(Trades)
        /\ rule.spent <= draft.limits.cap
        /\ source.delegate /\ ~source.own => source.delegated = rule.cap - rule.spent
        /\ \A i \in Trades :
             SumIn({k \in Trades : k <= i /\ txs[k].at >= LatestTrade(i) - WINDOW_SECS})
                 <= draft.limits.daily_limit

\* Whoever moves the pool, the owner receives at least the floor for what was sold, and
\* the floor is never above the percentage of the rate that was read, and at most one
\* unit per pool below it.
TradesClearTheFloor ==
    OpenedAs =>
        LET f == draft.floor  r == draft.read
        IN  /\ f.num * 100 * r.in <= draft.percent * r.out * f.den
            /\ (f.num * r.in + f.den) * 100 > draft.percent * r.out * f.den
            /\ \A i \in Trades :
                 txs[i].event.amount_out * f.den >= txs[i].event.amount_in * f.num

\* The quote is exact: an attempt the rule passed settles, unless the agent asked for more
\* than the pool gives, the clock went back into a window still in use, or the output
\* account is gone.  Every other attempt leaves a row, none is lost with its transaction.
PassedTradesSettle ==
    \A i \in DOMAIN txs : txs[i].event.reason # "below the floor after all"

\* What the agent's library tells it can be relied on: a trade with the nonce it names,
\* within the room it reports, is not refused for its nonce or for a limit, as long as the
\* agent's machine is not ahead of the chain; and whatever became of an attempt that
\* landed, the agent is told.  A machine ahead of the chain lets go of a bucket early.
AgentSeesItsRoom ==
    /\ \A i \in DOMAIN txs : txs[i].event.kind = "failed" \/ TradeResult(txs[i]) # {}
    /\ (OpenedAs /\ rule.status = "active") =>
        \A amount \in Amounts, clock \in 0..now :
            amount <= EffectivePerTradeMax(NextTradeNonce) /\ amount <= StatusToday(clock)
                /\ amount <= Remaining =>
            Evaluate(amount, NextTradeNonce, "pinned")
                \notin {"stale nonce", "over per trade max", "over daily", "over cap"}

\* A record the tool confirms is what the transaction did, but for a time at most the
\* slack away.
ConfirmedTradesHappened ==
    \A i \in DOMAIN txs, k \in DOMAIN ledger :
        Confirmed(ledger[k], txs[i]) =>
            /\ ledger[k].kind = txs[i].event.kind
            /\ ledger[k].amount_in = txs[i].event.amount_in
            /\ ledger[k].amount_out = txs[i].event.amount_out
            /\ ledger[k].min_out = txs[i].min_out
            /\ ledger[k].reason = txs[i].event.reason

\* Trades stay within the limits, the day and the floor, what passes settles at the pool's
\* quote, and what an agent reads before a trade and a reader confirms after it is what the
\* program holds.
TradesAreSound ==
    /\ TradesKeepTheLimits /\ TradesClearTheFloor /\ PassedTradesSettle
    /\ AgentSeesItsRoom /\ ConfirmedTradesHappened

\* A trade whose row is in the ledger, and the only one like it, can be exported
\* (docs/DECISION_RECORD.md: only missing, overwritten or ambiguous entries are rejected).
TradesCanBeExported ==
    \A i \in DOMAIN txs :
        LET rows == {k \in DOMAIN ledger : /\ ledger[k].nonce = txs[i].nonce
                                           /\ ledger[k].kind = "traded"}
        IN  txs[i].event.kind = "traded" /\ Cardinality(rows) = 1 => ExportedTrade(txs[i]) # {}

=============================================================================
