--------------------------- MODULE AgentRecords ----------------------------
(***************************************************************************)
(* What the phone says of an agent's conduct: its grade (app/lib/grade.ts),*)
(* the plaques of its rules (plaques.ts), the week in review               *)
(* (weekReview.ts) and the track record card (trackRecord.ts), computed    *)
(* from histories that useAgentHistories reads rule by rule while rules    *)
(* are charged, overridden and revoked.  Rows are written by the chain's   *)
(* clock; the phone judges by its own, which may be ahead or behind.       *)
(*                                                                         *)
(* A day is DayLen units of time, and local midnight is Offset units after *)
(* the day of the chain's clock begins. A history is a set of rows; `i` is *)
(* the position of a row on the ledger. A charge asks for one unit, which  *)
(* is the limit per payment, or for two.                                   *)
(***************************************************************************)
EXTENDS Integers, Sequences, FiniteSets, FiniteSetsExt

CONSTANTS
    AgentOf,        \* the agent of every rule
    RingRows,       \* rows a ledger keeps
    DayLen, Offset,
    GradeMinRequests, GradeMinDays,     \* 10 and 3 in the code
    ManyRefusals,                       \* 10, of the plaque for refusals
    PlaqueDays,                         \* 30, of the plaque for days
    RuleCap, RuleLife,                  \* what a rule may spend, and for how long
    RecordStories   \* how often what may happen, and from when: the rules are open since 1

RecordRules == DOMAIN AgentOf
ASSUME RecordAssumption ==
    /\ IsFiniteSet(RecordRules) /\ RingRows \in Nat \ {0} /\ DayLen \in Nat \ {0} /\ Offset \in 0 .. DayLen - 1
    /\ {GradeMinRequests, GradeMinDays, ManyRefusals, PlaqueDays, RuleCap, RuleLife} \subseteq Nat \ {0}
    /\ \A s \in RecordStories :
        s \in [asks : Nat, grants : Nat, revokes : Nat, declines : Nat, ticks : Nat,
               jumps : SUBSET Nat, skews : SUBSET Int, start : Nat \ {0}, again : BOOLEAN, overlap : BOOLEAN,
               loads : Nat, faults : Nat, rules : SUBSET RecordRules]

VARIABLES
    clock,      \* the chain's
    accounts,   \* the rules: spent, status, last nonce paid and the override
    ledgers,    \* every row ever written, per rule
    view,       \* what useChain last listed: the accounts, and when by the chain's clock (a ghost)
    refresh,    \* its refresh: nowMs of the phone, how far it is, how the last ended, and whether one went well
    loads,      \* the effects of useAgentHistories that still run, newest last
    shown,      \* setRules: the histories that are shown
    can         \* what may still happen

recordVars == <<clock, accounts, ledgers, view, refresh, loads, shown, can>>

-----------------------------------------------------------------------------
(* The rules                                                               *)

Entry(r, kind, nonce, amount, reason) ==
    [i |-> Len(ledgers[r]) + 1, kind |-> kind, ts |-> clock, nonce |-> nonce, amount |-> amount,
     reason |-> reason]

Writes(r, row) == ledgers' = [ledgers EXCEPT ![r] = Append(@, row)]

ExpiresAt(r) == ledgers[r][1].ts + RuleLife

\* Why a charge is refused (evaluate), or "ok".
Verdict(r, nonce, amount) ==
    LET a == accounts[r] IN
    CASE a.status # "active" -> "not-active"
      [] a.status = "active" /\ clock >= ExpiresAt(r) -> "expired"
      [] a.status = "active" /\ clock < ExpiresAt(r) ->
            IF nonce <= a.last THEN "stale"
            ELSE IF amount > 1 /\ a.override # nonce THEN "limit"
            ELSE IF a.spent + amount > RuleCap THEN "cap" ELSE "ok"

Charge(r, nonce, amount) ==
    LET verdict == Verdict(r, nonce, amount)
        paid == [accounts[r] EXCEPT !.spent = @ + amount, !.last = nonce,
                                    !.override = IF @ = nonce THEN 0 ELSE @,
                                    !.status = IF accounts[r].spent + amount >= RuleCap
                                               THEN "exhausted" ELSE @]
    IN
    /\ can.asks > 0 /\ can' = [can EXCEPT !.asks = @ - 1]
    /\ Writes(r, Entry(r, IF verdict = "ok" THEN "paid" ELSE "refused", nonce, amount, verdict))
    /\ accounts' = [accounts EXCEPT ![r] =
            IF verdict = "ok" THEN paid
            ELSE IF verdict = "expired" THEN [@ EXCEPT !.status = "expired"] ELSE @]
    /\ UNCHANGED <<clock, view, refresh, loads, shown>>

GrantOverride(r, nonce) ==
    /\ can.grants > 0 /\ can' = [can EXCEPT !.grants = @ - 1]
    /\ accounts[r].status = "active" /\ nonce > accounts[r].last
    /\ accounts[r].spent + 2 <= RuleCap
    /\ accounts' = [accounts EXCEPT ![r].override = nonce]
    /\ Writes(r, Entry(r, "override", nonce, 2, "ok"))
    /\ UNCHANGED <<clock, view, refresh, loads, shown>>

RevokeRule(r) ==
    /\ can.revokes > 0 /\ can' = [can EXCEPT !.revokes = @ - 1]
    /\ accounts[r].status # "revoked"
    /\ accounts' = [accounts EXCEPT ![r].status = "revoked", ![r].override = 0]
    /\ Writes(r, Entry(r, "revoked", 0, 0, "ok"))
    /\ UNCHANGED <<clock, view, refresh, loads, shown>>

\* The agent signs a note that it declined a payment; the program does not see it.
Decline(r) ==
    /\ can.declines > 0 /\ can' = [can EXCEPT !.declines = @ - 1]
    /\ Writes(r, Entry(r, "decline", 0, 1, "ok"))
    /\ UNCHANGED <<clock, accounts, view, refresh, loads, shown>>

DayGoesOn ==
    /\ can.ticks > 0 /\ can' = [can EXCEPT !.ticks = @ - 1]
    /\ \E units \in can.jumps : clock' = clock + units
    /\ UNCHANGED <<accounts, ledgers, view, refresh, loads, shown>>

RowsOf(r) == {ledgers[r][i] : i \in DOMAIN ledgers[r]}

\* The newest rows, as the program's ring keeps them.
RingOf(r) ==
    LET ring == {row \in RowsOf(r) : row.kind # "decline"}
    IN  {row \in ring : Cardinality({x \in ring : x.i > row.i}) < RingRows}

\* fetchAdvisoryDeclines: any memo whose transaction cannot be loaded.
UnreadMemos(r) == SUBSET {row \in RowsOf(r) : row.kind = "decline"}

\* readAdvisoryDeclines leaves those out, and says nothing of it.
AdvisoryRows(r, unread) == {row \in RowsOf(r) : row.kind = "decline"} \ unread

MergeDecisionRows(ring, advisory) == ring \union advisory

\* fetchLedgerRows
Fetched(r, unread) == MergeDecisionRows(RingOf(r), AdvisoryRows(r, unread))

-----------------------------------------------------------------------------
(* The grade                                                               *)

Kind(rows, kind) == {row \in rows : row.kind = kind}
NoncesOf(rows) == {row.nonce : row \in rows}

ElapsedDays(startedAt, at) == IF at <= startedAt THEN 1 ELSE (at - startedAt) \div DayLen + 1

\* 0 when the record does not say. A row's time is never 0.
OpenedAtOf(rows) ==
    LET opened == Kind(rows, "opened") IN IF opened = {} THEN 0 ELSE Min({row.ts : row \in opened})

RuleTotalDays(startedAt, expiresAt) ==
    IF startedAt = 0 \/ expiresAt <= startedAt THEN 0
    ELSE (expiresAt - startedAt + DayLen - 1) \div DayLen

RuleDayNumber(startedAt, expiresAt, at) ==
    LET total == RuleTotalDays(startedAt, expiresAt) IN
    IF startedAt = 0 THEN 0
    ELSE IF total # 0 /\ at >= expiresAt THEN total
    ELSE IF total # 0 THEN Min({total, ElapsedDays(startedAt, at)})
    ELSE ElapsedDays(startedAt, at)

CountRule(rows) ==
    LET refused == Kind(rows, "refused")
        allowances == Kind(rows, "override")
    IN [paidInside |-> {row \in Kind(rows, "paid") : row.nonce \notin NoncesOf(allowances)},
        refused |-> refused, allowances |-> allowances, declines |-> Kind(rows, "decline"),
        outsideFromMissingRefusal |-> {row \in allowances : row.nonce \notin NoncesOf(refused)}]

\* daysForRules: since the earliest opening; without one, since the earliest row, when that is
\* long enough ago. 0: the record does not say.
DaysForRules(histories, at) ==
    LET opened == {OpenedAtOf(histories[r]) : r \in DOMAIN histories} \ {0}
        stamps == UNION {{row.ts : row \in histories[r]} : r \in DOMAIN histories}
        span == ElapsedDays(Min(stamps), at)
    IN IF opened # {} THEN ElapsedDays(Min(opened), at)
       ELSE IF stamps # {} /\ span >= GradeMinDays THEN span ELSE 0

\* fewer than 1 in 20, up to 4 in 20, more
BandFor(outside, requests) ==
    IF outside * 20 < requests THEN 1 ELSE IF outside * 20 <= requests * 4 THEN 2 ELSE 3

StepDown(band, allowances) == IF allowances < 2 THEN band ELSE Min({band + 1, 3})

Tally(count) == MapThenSumSet(LAMBDA r : count[r], DOMAIN count)

Outside(c) == c.refused \union c.outsideFromMissingRefusal

GradeRules(histories, at) ==
    LET c == [r \in DOMAIN histories |-> CountRule(histories[r])]
        paid == Tally([r \in DOMAIN histories |-> Cardinality(c[r].paidInside)])
        outside == Tally([r \in DOMAIN histories |-> Cardinality(Outside(c[r]))])
        allowances == Tally([r \in DOMAIN histories |-> Cardinality(c[r].allowances)])
        days == DaysForRules(histories, at)
        new == paid + outside < GradeMinRequests \/ days < GradeMinDays
    IN [paid |-> paid, outside |-> outside, allowances |-> allowances, days |-> days,
        band |-> IF new THEN 0 ELSE StepDown(BandFor(outside, paid + outside), allowances)]

\* reasonTallies
ReasonTallies(rows) ==
    [reason \in {row.reason : row \in Kind(rows, "refused")} |->
        Cardinality({row \in Kind(rows, "refused") : row.reason = reason})]

\* requestTicks: the requests in the order of their time
RequestTicks(rows) ==
    LET c == CountRule(rows)
    IN c.paidInside \union Outside(c)

-----------------------------------------------------------------------------
(* Plaques                                                                 *)

\* The n-th row by time, the earlier on the ledger first.
Nth(rows, n) ==
    CHOOSE row \in rows : Cardinality({x \in rows : x.ts < row.ts \/ (x.ts = row.ts /\ x.i <= row.i)}) = n

Pending == [earned |-> FALSE, at |-> 0]
Earned(at) == [earned |-> TRUE, at |-> at]

FirstPayment(h) ==
    LET paid == Kind(h.rows, "paid") IN IF paid = {} THEN Pending ELSE Earned(Nth(paid, 1).ts)

FirstRefusal(h) ==
    LET refused == Kind(h.rows, "refused")
    IN IF refused = {} THEN Pending ELSE Earned(Nth(refused, 1).ts)

TenRefusals(h) ==
    LET refused == Kind(h.rows, "refused")
    IN IF Cardinality(refused) < ManyRefusals \/ Kind(h.rows, "override") # {} THEN Pending
       ELSE Earned(Nth(refused, ManyRefusals).ts)

CountsUntil(rows, mark) ==
    LET until == {row \in rows : row.ts <= mark}
    IN [paid |-> Cardinality(Kind(until, "paid")), refused |-> Cardinality(Kind(until, "refused")),
        allowed |-> Cardinality(Kind(until, "override")),
        spent |-> MapThenSumSet(LAMBDA row : row.amount, Kind(until, "paid"))]

ThirtyDays(h, at) ==
    LET started == OpenedAtOf(h.rows) IN
    IF started = 0 \/ ElapsedDays(started, at) < PlaqueDays THEN Pending
    ELSE Earned(started + (PlaqueDays - 1) * DayLen)

RevokedBeforeEnd(h) ==
    /\ h.status = "revoked"
    /\ \A row \in Kind(h.rows, "revoked") : row.ts < h.expires

RuleEndedInsideCap(h, at) ==
    /\ h.spent <= RuleCap /\ ~RevokedBeforeEnd(h)
    /\ \/ h.status \in {"exhausted", "expired"}
       \/ h.status = "revoked"
       \/ h.status = "active" /\ at >= h.expires

RuleEnded(h, at) == IF RuleEndedInsideCap(h, at) THEN Earned(Min({h.expires, at})) ELSE Pending

-----------------------------------------------------------------------------
(* The week in review and the card                                         *)

LocalDate(ts) == (ts + DayLen - Offset) \div DayLen

CurrentWeek(h, at) ==
    LET delta == LocalDate(at) - LocalDate(OpenedAtOf(h.rows))
    IN IF delta < 0 THEN 1 ELSE delta \div 7 + 1

\* Mutant: the weeks follow one another with a day between them.
MutWeekWindow(h, at, index) ==
    IF OpenedAtOf(h.rows) = 0 THEN {LocalDate(at) + i - 6 : i \in 0 .. 6}
    ELSE {LocalDate(OpenedAtOf(h.rows)) + (index - 1) * 8 + i : i \in 0 .. 6}

\* weekWindow: the local days of a week of the rule, or the last seven
WeekWindow(h, at, index) ==
    IF OpenedAtOf(h.rows) = 0 THEN {LocalDate(at) + i - 6 : i \in 0 .. 6}
    ELSE {LocalDate(OpenedAtOf(h.rows)) + (index - 1) * 7 + i : i \in 0 .. 6}

\* weekReviewFor: the paid and the refused rows of the window
WeekReviewFor(h, at, index) ==
    LET counted == CountRule(h.rows) IN
    {row \in counted.paidInside \union counted.refused : LocalDate(row.ts) \in WeekWindow(h, at, index)}

\* trackRecordFor
TrackRecordFor(h, at) ==
    LET c == CountRule(h.rows)
        started == OpenedAtOf(h.rows)
        ended == RuleEndedInsideCap(h, at)
    IN [paid |-> Cardinality(c.paidInside), refused |-> Cardinality(c.refused),
        allowances |-> Cardinality(c.allowances), spent |-> h.spent, ended |-> ended,
        days |-> IF ended /\ RuleTotalDays(started, h.expires) # 0
                 THEN RuleTotalDays(started, h.expires) ELSE RuleDayNumber(started, h.expires, at)]

-----------------------------------------------------------------------------
(* Reading the histories                                                   *)

NoView == [at |-> 0, accounts |-> <<>>]

NotRefreshed == [now |-> 0, stage |-> "idle", failed |-> FALSE, held |-> FALSE]

\* setNowMs and setLoading: the effect that is running is cancelled, and none begins meanwhile.
RefreshBegins ==
    /\ refresh.stage = "idle"
    /\ can.loads > 0 /\ can' = [can EXCEPT !.loads = @ - 1]
    /\ \E skew \in can.skews :
          refresh' = [refresh EXCEPT !.now = clock + skew, !.stage = "listing", !.failed = FALSE]
    /\ loads' = [j \in DOMAIN loads |-> [loads[j] EXCEPT !.alive = FALSE]]
    /\ UNCHANGED <<clock, accounts, ledgers, view, shown>>

\* setMandates, before the ledger of the rule on screen is read.
RulesListed ==
    /\ refresh.stage = "listing" /\ refresh' = [refresh EXCEPT !.stage = "listed"]
    /\ view' = [at |-> clock, accounts |-> [r \in can.rules |->
                    [spent |-> accounts[r].spent, status |-> accounts[r].status]]]
    /\ UNCHANGED <<clock, accounts, ledgers, loads, shown, can>>

\* setLoading: a new effect reads the histories of the rules as they were listed last, also when
\* this refresh failed.
BeginLoad ==
    loads' = IF view = NoView THEN loads ELSE Append(loads, [from |-> view, got |-> <<>>, alive |-> TRUE])

RefreshEnds ==
    /\ refresh.stage = "listed" /\ refresh' = [refresh EXCEPT !.stage = "idle", !.held = TRUE]
    /\ BeginLoad
    /\ UNCHANGED <<clock, accounts, ledgers, view, shown, can>>

RefreshFails ==
    /\ refresh.stage # "idle" /\ refresh' = [refresh EXCEPT !.stage = "idle", !.failed = TRUE]
    /\ can.faults > 0 /\ can' = [can EXCEPT !.faults = @ - 1]
    /\ BeginLoad
    /\ UNCHANGED <<clock, accounts, ledgers, view, shown>>

Drop(j) == SubSeq(loads, 1, j - 1) \o SubSeq(loads, j + 1, Len(loads))

\* A rule's facts: its account as it was listed, and its rows as they are now.
FactsOf(load, r, unread) ==
    [rows |-> Fetched(r, unread), spent |-> load.from.accounts[r].spent,
     status |-> load.from.accounts[r].status, expires |-> ExpiresAt(r)]

\* The next rule of a load, one request after the other.
ReadHistory(j, r) ==
    /\ r \in can.rules \ DOMAIN loads[j].got
    /\ \E unread \in UnreadMemos(r) :
          LET facts == FactsOf(loads[j], r, unread)
          IN  loads' = [loads EXCEPT ![j].got =
                            [x \in DOMAIN @ \union {r} |-> IF x = r THEN facts ELSE @[x]]]
    /\ UNCHANGED <<clock, accounts, ledgers, view, refresh, shown, can>>

NothingShown == [from |-> 0, facts |-> <<>>, failed |-> FALSE]

\* Mutant: a load sets what it read although a newer one has begun.
MutFinishLoad(j) ==
    /\ DOMAIN loads[j].got = can.rules
    /\ shown' = [from |-> loads[j].from.at, facts |-> loads[j].got, failed |-> FALSE]
    /\ loads' = Drop(j)
    /\ UNCHANGED <<clock, accounts, ledgers, view, refresh, can>>

FinishLoad(j) ==
    /\ DOMAIN loads[j].got = can.rules
    /\ shown' = IF loads[j].alive
                THEN [from |-> loads[j].from.at, facts |-> loads[j].got, failed |-> FALSE]
                ELSE shown
    /\ loads' = Drop(j)
    /\ UNCHANGED <<clock, accounts, ledgers, view, refresh, can>>

LoadFails(j) ==
    /\ can.faults > 0 /\ can' = [can EXCEPT !.faults = @ - 1]
    /\ DOMAIN loads[j].got # can.rules
    /\ shown' = IF loads[j].alive THEN [NothingShown EXCEPT !.failed = TRUE] ELSE shown
    /\ loads' = Drop(j)
    /\ UNCHANGED <<clock, accounts, ledgers, view, refresh>>

\* describeAgentRead: what the agent screens show
Screen ==
    IF shown.failed \/ (refresh.failed /\ ~refresh.held) THEN "error"
    ELSE IF ~refresh.held \/ shown.facts = <<>> THEN "loading" ELSE "ready"

\* buildAgentRecords, for one agent
AgentRecord(a) ==
    LET rules == {r \in DOMAIN shown.facts : AgentOf[r] = a}
    IN [grade |-> GradeRules([r \in rules |-> shown.facts[r].rows], refresh.now),
        ticks |-> UNION {RequestTicks(shown.facts[r].rows) : r \in rules}]

\* The cards of AgentsScreen.
AgentCards ==
    IF Screen = "ready"
    THEN [a \in {AgentOf[r] : r \in DOMAIN shown.facts} |-> AgentRecord(a)] ELSE <<>>

\* PlaquesScreen, TrackScreen and WeekScreen, for one rule
ShownPlaques(r) ==
    LET h == shown.facts[r]
    IN [first |-> FirstPayment(h), refusal |-> FirstRefusal(h), ten |-> TenRefusals(h),
        thirty |-> ThirtyDays(h, refresh.now), ended |-> RuleEnded(h, refresh.now)]

ShownCard(r) == TrackRecordFor(shown.facts[r], refresh.now)

ShownWeek(r) ==
    WeekReviewFor(shown.facts[r], refresh.now, CurrentWeek(shown.facts[r], refresh.now))

-----------------------------------------------------------------------------

RecordsInit ==
    /\ can \in RecordStories
    /\ clock = can.start
    /\ accounts = [r \in RecordRules |-> [spent |-> 0, status |-> "active", last |-> 0, override |-> 0]]
    /\ ledgers = [r \in RecordRules |-> <<[i |-> 1, kind |-> "opened", ts |-> 1, nonce |-> 0,
                                           amount |-> RuleCap, reason |-> "ok"]>>]
    /\ view = NoView /\ refresh = NotRefreshed /\ loads = <<>> /\ shown = NothingShown

\* The next payment, and in some stories the last one again.
RecordNonces(r) == {accounts[r].last + 1} \union (IF can.again THEN {accounts[r].last} \ {0} ELSE {})

\* Bound: only in some stories does anything happen while a refresh or a load is running.
MayOverlap == can.overlap \/ (loads = <<>> /\ refresh.stage = "idle")

RecordsNext ==
    \/ \E r \in can.rules :
        \/ \E nonce \in RecordNonces(r), amount \in 1 .. 2 : MayOverlap /\ Charge(r, nonce, amount)
        \/ \E nonce \in RecordNonces(r) : MayOverlap /\ GrantOverride(r, nonce)
        \/ MayOverlap /\ RevokeRule(r)
        \/ MayOverlap /\ Decline(r)
    \/ MayOverlap /\ DayGoesOn
    \/ MayOverlap /\ RefreshBegins
    \/ RulesListed \/ RefreshEnds \/ RefreshFails
    \/ \E j \in DOMAIN loads : (\E r \in can.rules : ReadHistory(j, r)) \/ FinishLoad(j) \/ LoadFails(j)

RecordsSpec == RecordsInit /\ [][RecordsNext]_recordVars

-----------------------------------------------------------------------------
(* Properties                                                              *)

\* Every row the rule had when it was read is in the history that is shown.
Whole(r) ==
    \A i \in DOMAIN ledgers[r] :
        \/ ledgers[r][i] \in shown.facts[r].rows
        \/ \A row \in shown.facts[r].rows : row.i < i

\* The histories are those of the last read: it has ended.
UpToDate == loads = <<>> /\ shown.from = view.at /\ Screen = "ready"

\* A plaque that is shown is true of the rule's whole ledger, once the read it was computed from
\* is the last and as long as no row has left the ring: the first payment and the first refusal
\* are the first ever, nothing was allowed by then under "ten refusals, none allowed", what is
\* counted for a rule's day thirty is all that had happened by then if the rules were listed after
\* it, and a rule that is called finished pays nothing any more, unless the phone's clock alone
\* says so and it was ahead of the chain's (plaques.ts).
PlaquesAreTrue ==
    UpToDate => \A r \in DOMAIN shown.facts : Whole(r) =>
        LET h == shown.facts[r]
            plaques == ShownPlaques(r)
            ever == RowsOf(r)
            mark == plaques.thirty.at
        IN
        /\ plaques.first.earned => \A row \in Kind(ever, "paid") : plaques.first.at <= row.ts
        /\ plaques.refusal.earned => \A row \in Kind(ever, "refused") : plaques.refusal.at <= row.ts
        /\ plaques.ten.earned =>
            \A row \in Kind(ever, "override") : row.i > Max({x.i : x \in h.rows})
        /\ plaques.thirty.earned /\ view.at > mark =>
            CountsUntil(h.rows, mark) = CountsUntil(ever, mark)
        /\ plaques.ended.earned /\ (h.status # "active" \/ refresh.now <= clock) =>
            \A n \in 1 .. 9 : Verdict(r, n, 1) # "ok"

\* No nonce of the rule is on the record as allowed twice. Two permissions of one nonce that was
\* never refused count as two requests outside the rule, and its first refusal makes them one.
AllowedOnce(rows) ==
    \A x, y \in Kind(rows, "override") : x.nonce = y.nonce => x = y

\* From one reading of an agent's rules to the next no row left the ring, and no new one is a
\* payment of the rule's own limit.
NothingEarned(a) ==
    \A r \in DOMAIN shown.facts : AgentOf[r] = a =>
        /\ shown.facts[r].rows \subseteq shown'.facts[r].rows
        /\ \A row \in shown'.facts[r].rows \ shown.facts[r].rows : ~(row.kind = "paid" /\ row.amount = 1)
        /\ AllowedOnce(shown'.facts[r].rows)

\* Nothing but a payment inside the rule makes an agent's grade better: a refusal, a permission
\* of the owner, a payment under one or a signed decline never does, from one reading to the
\* next, while no row leaves the ring and no nonce is allowed twice (gradeRules).
GradesAreEarned ==
    [][ \/ UNCHANGED <<shown, refresh>>
        \/ \A a \in DOMAIN AgentCards \intersect DOMAIN AgentCards' :
            AgentCards[a].grade.band # 0 /\ AgentCards'[a].grade.band # 0 /\ NothingEarned(a)
                => AgentCards'[a].grade.band >= AgentCards[a].grade.band ]_recordVars

\* The review of the week a request was made in counts it, the review of no other week does,
\* and none is left out (weekReviewFor).
WeeksCountEachOnce ==
    Screen = "ready" => \A r \in DOMAIN shown.facts :
        LET h == shown.facts[r]
            counted == CountRule(h.rows)
            weeks == 1 .. CurrentWeek(h, clock)
        IN OpenedAtOf(h.rows) # 0 =>
            \A row \in counted.paidInside \union counted.refused :
                /\ row \in WeekReviewFor(h, row.ts, CurrentWeek(h, row.ts))
                /\ Cardinality({w \in weeks : row \in WeekReviewFor(h, clock, w)}) = 1
                /\ row \in ShownWeek(r) <=> CurrentWeek(h, row.ts) = CurrentWeek(h, refresh.now)

\* The card, the grade and the reasons are three ways to count the same rows, and the card never
\* says more was spent than the payments it counts come to: the account is read before the rows
\* (useAgentHistories, trackRecordFor), while no row has left the ring.
CardsAddUp ==
    Screen = "ready" => \A r \in DOMAIN shown.facts : Whole(r) =>
        LET h == shown.facts[r]
            card == ShownCard(r)
            tallies == ReasonTallies(h.rows)
            grade == GradeRules([x \in {r} |-> h.rows], refresh.now)
        IN
        /\ card.paid = grade.paid /\ card.allowances = grade.allowances
        /\ MapThenSumSet(LAMBDA reason : tallies[reason], DOMAIN tallies) = card.refused
        /\ card.paid + grade.outside = Cardinality(RequestTicks(h.rows))
        /\ card.spent <= MapThenSumSet(LAMBDA row : row.amount, Kind(h.rows, "paid"))

\* The plaques, weeks and cards shown for an agent are true of its rules (plaques.ts,
\* weekReview.ts, trackRecord.ts).
RecordsAreTrue == PlaquesAreTrue /\ WeeksCountEachOnce /\ CardsAddUp

\* What is shown never goes back to an earlier reading: a load that ends after a newer one has
\* begun is dropped (the alive flag of useAgentHistories).
ShownNeverGoesBack == [][ shown'.facts # <<>> => shown'.from >= shown.from ]_recordVars

\* A grade is earned by what was asked and answered, and an older read never replaces a newer
\* one (GradesAreEarned, ShownNeverGoesBack: useAgentHistories, grade.ts).
RecordsOnlyGrow == GradesAreEarned /\ ShownNeverGoesBack

=============================================================================
