------------------------- MODULE MCLimitsAndRecords -------------------------
(***************************************************************************)
(* The parts that set, keep and prove limits without sharing state: the    *)
(* approval screen, exported decision records, trade rules, the rolling    *)
(* window and the ledger ring.  A behaviour is of one of them.             *)
(***************************************************************************)
EXTENDS Approval, DecisionRecords, Trade, WindowLog, LedgerLog

MCRequest == [agent |-> "bot", payee |-> "shop", cap |-> 3, max |-> 2, days |-> 2, mint |-> "sol"]

MCTemplates == {[cap |-> 2, max |-> 1, days |-> 2], [cap |-> 1, max |-> 1, days |-> 1]}

MCEnding == [agent |-> "bot", payee |-> "shop", cap |-> 4, max |-> 2, mint |-> "sol",
             opened |-> 0, expires |-> 2]

MCUnit == [m \in {"usd", "sol"} |-> IF m = "usd" THEN 1 ELSE 2]

\* Bound: one form with two edits, or two forms with one.
MaxSteps == 3

\* A long history for single records, shorter ones for bundles, and everything at once for a
\* short one.
MCBounds ==
    {[txs |-> 6, triples |-> {1}, forms |-> {"single"}, oddities |-> 1],
     [txs |-> 4, triples |-> {1}, forms |-> {"single"}, oddities |-> 2],
     [txs |-> 5, triples |-> {1}, forms |-> {"rule"}, oddities |-> 1],
     [txs |-> 4, triples |-> {1}, forms |-> {"range", "program"}, oddities |-> 1],
     [txs |-> 3, triples |-> {1, 2}, forms |-> Forms, oddities |-> 1]}

\* A pool where the curve takes the whole input, and one where it takes less.
MCPools == {[in |-> 10, out |-> 20], [in |-> 10, out |-> 5]}

MCLimits == {[cap |-> 12, per_trade_max |-> 4, daily_limit |-> 8],
             [cap |-> 12, per_trade_max |-> 9, daily_limit |-> 8],
             [cap |-> 16, per_trade_max |-> 6, daily_limit |-> 10]}

LedgerRows == {[kind |-> "PAID"], [kind |-> "REFUSED"]}

\* Four stories of a trade rule: the agent tries everything while only the pool moves, it
\* trades in good faith while the owner, the mint and the clock act, or while the owner uses
\* the account past the rule, or it settles three trades, enough to reuse a bucket, while the
\* clock goes back.
TradeParts == {"agent trades", "owner acts", "owner pays", "clock goes back"}

VARIABLE part

Misdirected(tx) == tx.event.reason \in {"destination not allowed", "pool not allowed"}

GoodFaith(tx) == tx.min_out = 0 /\ tx.amount_in # 1 /\ ~Misdirected(tx)

PlainTry(tx) == Misdirected(tx) => tx.min_out = 0 /\ tx.amount_in = 4

Settled(tx) == tx.event.kind = "traded" /\ tx.min_out = 0

OwnerPays == \E amount \in Amounts : SourceChanges(amount)

\* The first three stories try twice, with rules that stop small sums.
TwoTries ==
    /\ OthersAct \/ (Len(txs) < 2 /\ AgentTries)
    /\ draft'.at # "form" => draft'.percent = 33 /\ draft'.limits.cap = 12
    /\ txs' # txs => txs'[Len(txs')].nonce <= 2
    /\ rule'.status # "none" => rule'.override_nonce <= 2

TradesAct ==
    \/ /\ part = "agent trades" /\ TwoTries /\ now' <= 2 /\ moves' <= 1
       /\ moves' # moves => pool' # pool
       /\ txs' # txs => PlainTry(txs'[Len(txs')])
    \/ /\ part = "owner acts" /\ TwoTries /\ now' <= 3
       /\ draft'.at # "form" => draft'.limits.per_trade_max = 4
       /\ moves' # moves => pool' = pool /\ ~OwnerPays
       /\ txs' # txs => GoodFaith(txs'[Len(txs')])
    \/ /\ part = "owner pays" /\ TwoTries /\ now' <= 2
       /\ moves' # moves => OwnerPays \/ RevokeTradeRule
       /\ txs' # txs => GoodFaith(txs'[Len(txs')])
    \/ /\ part = "clock goes back" /\ TradeNext
       /\ draft'.at # "form" => draft'.percent = 1 /\ draft'.limits.cap = 16
       /\ moves' # moves => now' < now
       /\ txs' # txs => Settled(txs'[Len(txs')])

runVars == <<approvalVars, recordVars, tradeVars, windowVars, logVars, part>>

\* The parts that do not move stay in one of their initial states.
RunInit ==
    /\ part \in {"approval", "records", "window", "ring"} \union TradeParts
    /\ ApprovalInit /\ RecordsInit /\ TradeInit /\ WindowInit /\ LogInit
    /\ part # "records" => bound.oddities = 2
    /\ part \notin TradeParts => pool.out = 20
    /\ part # "window" => writer = "hold"

RunNext ==
    \/ /\ part = "approval" /\ ApprovalNext /\ edits' + forms' <= MaxSteps
       /\ UNCHANGED <<recordVars, tradeVars, windowVars, logVars, part>>
    \/ /\ part = "records" /\ RecordsNext
       /\ UNCHANGED <<approvalVars, tradeVars, windowVars, logVars, part>>
    \/ /\ part \in TradeParts /\ TradesAct
       /\ UNCHANGED <<approvalVars, recordVars, windowVars, logVars, part>>
    \/ /\ part = "window" /\ WindowNext
       /\ UNCHANGED <<approvalVars, recordVars, tradeVars, logVars, part>>
    \/ /\ part = "ring" /\ LogNext
       /\ UNCHANGED <<approvalVars, recordVars, tradeVars, windowVars, part>>

RunSpec == RunInit /\ [][RunNext]_runVars

-----------------------------------------------------------------------------

\* A confirmed decision record is true and complete, and a genuine one is not rejected
\* (ConfirmedIsTrue, ConfirmedIsComplete, GenuineIsNotRejected).
VerdictsAreRight ==
    part = "records" => ConfirmedIsTrue /\ ConfirmedIsComplete /\ GenuineIsNotRejected

=============================================================================
