------------------------------- MODULE Widgets -------------------------------
(*****************************************************************************)
(* The home screen widgets of the phone (app/lib/widgetData.ts, app/widgets).*)
(* One widget shows the selected rule, every other widget the rule that was  *)
(* picked for it.  A job reads the payment rules, the trade rules, the       *)
(* selection, one ledger after the other and the bindings, each a read of    *)
(* its own, and then draws.  Jobs overlap: the app coming to the front, the  *)
(* background task, the launcher's own updates and the screen that picks a   *)
(* rule all run one.                                                         *)
(*****************************************************************************)
EXTENDS Naturals, Sequences, FiniteSets, FiniteSetsExt

CONSTANTS
    PayRules,       \* payment rules, as their ids: a larger id was opened later
    TradeRules,     \* trade rules, likewise
    RuleWidgets,    \* ids of widgets that show a picked rule
    Spend,          \* the widget that shows the selected rule
    Jobs,           \* how many jobs may overlap
    RuleEnd,        \* when the rules end
    MaxTime,        \* bound: the clock
    MaxRows,        \* bound: decisions on all ledgers
    MaxBegun,       \* bound: jobs begun
    MaxChanges      \* bound: what the owner does to rules, selection and widgets

VARIABLES
    hour, ledger, session,                  \* the world
    account,                                 \* the rules on the chain
    selected,                                \* the phone's store: the selected rule
    bindings,                                \* and the rules picked for widgets
    job, drawn,
    want, crossed, changes, begun            \* ghosts: picks made, picks that overlapped

widgetVars == <<hour, account, ledger, session, selected, bindings, job, drawn, want, crossed,
          changes, begun>>
world == <<hour, account, ledger, session>>
store == <<selected, bindings>>
ghosts == <<want, crossed, changes, begun>>

ASSUME WidgetRules ==
    /\ PayRules \subseteq Nat \ {0} /\ TradeRules \subseteq Nat \ {0}
    /\ PayRules \intersect TradeRules = {}
    /\ IsFiniteSet(PayRules) /\ IsFiniteSet(TradeRules) /\ MaxRows \in Nat

Rules == PayRules \union TradeRules
AllWidgets == RuleWidgets \union {Spend}
None == 0
Unread == MaxRows + 1

\* WidgetDraw: a message, or the face of a rule with the time its label says.
Message(body) == [kind |-> body, rule |-> None, paid |-> 0, seen |-> 0, line |-> "",
                  label |-> 0, blind |-> FALSE]

Idle == [at |-> "idle", for |-> Spend, choose |-> FALSE, label |-> 0, found |-> <<>>,
         blind |-> FALSE, chosen |-> None, seen |-> <<>>, board |-> Message("loading"),
         faces |-> <<>>, copy |-> <<>>, face |-> None]

WidgetsInit ==
    /\ hour = 1
    /\ account = [r \in Rules |-> [status |-> "active", paid |-> 0]]
    /\ ledger = [r \in Rules |-> <<>>]
    /\ session = TRUE
    /\ selected = None
    /\ bindings = <<>>
    /\ job = [j \in Jobs |-> Idle]
    /\ drawn = [w \in AllWidgets |-> Message("loading")]
    /\ want = <<>>
    /\ crossed = FALSE
    /\ changes = 0
    /\ begun = 0

-----------------------------------------------------------------------------
(* The world. *)

Listed(r) == account[r].status # "closed"

\* A charge or a trade is decided and recorded.
Decides(r, kind) ==
    /\ account[r].status = "active" /\ hour < RuleEnd
    /\ Cardinality({p \in Rules \X (1..MaxRows) : p[2] <= Len(ledger[p[1]])}) < MaxRows
    /\ ledger' = [ledger EXCEPT ![r] = Append(@, [ts |-> hour, kind |-> kind])]
    /\ account' = [account EXCEPT ![r].paid = @ + (IF kind = "paid" THEN 1 ELSE 0)]
    /\ UNCHANGED <<hour, session, store, job, drawn, ghosts>>

\* The owner stops a rule, or closes a stopped one.
EndsRule(r) ==
    /\ changes < MaxChanges /\ changes' = changes + 1
    /\ \/ account[r].status = "active" /\ account' = [account EXCEPT ![r].status = "revoked"]
       \/ account[r].status = "revoked" /\ account' = [account EXCEPT ![r].status = "closed"]
    /\ UNCHANGED <<hour, ledger, session, store, job, drawn, want, crossed, begun>>

ClockTicks == hour < MaxTime /\ hour' = hour + 1
              /\ UNCHANGED <<account, ledger, session, store, job, drawn, ghosts>>

\* useChain stores the rule the owner switches to.
Selects(r) == /\ changes < MaxChanges /\ changes' = changes + 1
              /\ selected # r /\ selected' = r
              /\ UNCHANGED <<world, bindings, job, drawn, want, crossed, begun>>

SignsOut == /\ changes < MaxChanges /\ changes' = changes + 1
            /\ session /\ session' = FALSE
            /\ UNCHANGED <<hour, account, ledger, store, job, drawn, want, crossed, begun>>

-----------------------------------------------------------------------------
(* loadWidgetBoard. *)

\* The job has its board, and goes on to the bindings.
HasBoard(j, message) == job' = [job EXCEPT ![j].at = "bind", ![j].board = Message(message)]

\* refreshHomeWidgets, widgetTaskHandler for one widget, or RuleChoiceScreen for one.
JobBegins(j, for, choose) ==
    /\ job[j].at = "idle" /\ begun < MaxBegun /\ begun' = begun + 1
    /\ for # "all" => drawn[for].kind # "deleted"
    /\ job' = [job EXCEPT ![j] = [Idle EXCEPT !.at = IF session THEN "payments" ELSE "bind",
                                              !.board = Message("signedOut"),
                                              !.for = for, !.choose = choose, !.label = hour]]
    /\ drawn' = IF for = "all" \/ choose THEN drawn
                ELSE [drawn EXCEPT ![for] = Message("loading")]
    /\ UNCHANGED <<world, store, want, crossed, changes>>

\* fetchOwnerMandates.
PaymentsListed(j) ==
    /\ job[j].at = "payments"
    /\ job' = [job EXCEPT ![j].at = "trades",
                          ![j].found = [r \in {p \in PayRules : Listed(p)} |-> account[r]]]
    /\ UNCHANGED <<world, store, drawn, ghosts>>

PaymentsUnlisted(j) ==
    /\ job[j].at = "payments" /\ HasBoard(j, "error")
    /\ UNCHANGED <<world, store, drawn, ghosts>>

\* fetchOwnerTradeRules, each rule taken as a mandate (tradeRuleAsMandate).
TradesListed(j) ==
    LET trades == {t \in TradeRules : Listed(t)}
        shown == [r \in DOMAIN job[j].found \union trades |->
                    IF r \in trades THEN account[r] ELSE job[j].found[r]]
    IN  /\ job[j].at = "trades"
        /\ IF DOMAIN shown = {} THEN HasBoard(j, "noRule")
           ELSE job' = [job EXCEPT ![j].at = "selection", ![j].found = shown]
        /\ UNCHANGED <<world, store, drawn, ghosts>>

\* Without payment rules a failure is an error; with some, the trade rules are left out.
TradesUnlisted(j) ==
    /\ job[j].at = "trades"
    /\ IF DOMAIN job[j].found = {} THEN HasBoard(j, "error")
       ELSE job' = [job EXCEPT ![j].at = "selection", ![j].blind = TRUE]
    /\ UNCHANGED <<world, store, drawn, ghosts>>

SelectionRead(j) ==
    /\ job[j].at = "selection"
    /\ job' = [job EXCEPT ![j].at = "ledgers", ![j].chosen = selected]
    /\ UNCHANGED <<world, store, drawn, ghosts>>

\* The payment rules' ledgers first, newest rule first, then the trade rules'.
NextLedger(j) ==
    LET left == DOMAIN job[j].found \ DOMAIN job[j].seen
    IN  IF left \intersect PayRules # {} THEN Max(left \intersect PayRules) ELSE Max(left)

\* A tie in time goes to the row that comes later.
LatestListedDecision(rows) ==
    IF rows = <<>> THEN None
    ELSE CHOOSE i \in DOMAIN rows : /\ \A k \in DOMAIN rows : rows[k].ts <= rows[i].ts
                                    /\ \A k \in (i + 1)..Len(rows) : rows[k].ts < rows[i].ts

\* pickMandate, at the time of the phone's clock.
PickListed(found, preferred) ==
    LET Live == {r \in DOMAIN found : found[r].status = "active" /\ hour < RuleEnd}
        Unstopped == {r \in DOMAIN found : found[r].status = "active"}
    IN  IF preferred \in DOMAIN found THEN preferred
        ELSE IF Live # {} THEN Max(Live)
        ELSE IF Unstopped # {} THEN Max(Unstopped)
        ELSE Max(DOMAIN found)

\* The label is the time the job began, so the line of a rule is of that time too.
RuleLiveLine(a, now) ==
    IF a.status = "active" /\ now < RuleEnd THEN "live"
    ELSE IF a.status = "revoked" THEN "stopped" ELSE "ended"

MutBuildRuleFace(r, a, seen, jb) ==
    [kind |-> "rule", rule |-> r, paid |-> a.paid, seen |-> seen,
     line |-> RuleLiveLine(a, hour), label |-> hour, blind |-> jb.blind]
BuildRuleFace(r, a, seen, jb) ==
    [kind |-> "rule", rule |-> r, paid |-> a.paid, seen |-> seen,
     line |-> RuleLiveLine(a, jb.label), label |-> jb.label, blind |-> jb.blind]

\* assembleWidgetBoard follows the last ledger at once.
AssembleWidgetBoard(jb, seen) ==
    LET faces == [r \in DOMAIN jb.found |-> BuildRuleFace(r, jb.found[r], seen[r], jb)]
    IN  [jb EXCEPT !.at = "bind", !.seen = seen, !.faces = faces,
                   !.board = faces[PickListed(jb.found, jb.chosen)]]

LedgerFor(j) ==
    LET r == NextLedger(j)
    IN  /\ job[j].at = "ledgers"
        /\ \E row \in {LatestListedDecision(ledger[r]), Unread} :
             LET seen == [q \in DOMAIN job[j].seen \union {r} |->
                            IF q = r THEN row ELSE job[j].seen[q]]
             IN  job' = [job EXCEPT ![j] = IF DOMAIN seen = DOMAIN job[j].found
                                           THEN AssembleWidgetBoard(@, seen)
                                           ELSE [@ EXCEPT !.seen = seen]]
        /\ UNCHANGED <<world, store, drawn, ghosts>>

-----------------------------------------------------------------------------
(* Drawing. *)

DrawForSpend(jb) == jb.board

DrawForRule(jb, bound, w) ==
    IF jb.board.kind # "rule" THEN jb.board
    ELSE IF w \notin DOMAIN bound THEN Message("pick")
    ELSE IF bound[w] \notin DOMAIN jb.faces THEN [Message("gone") EXCEPT !.rule = bound[w],
                                                                  !.blind = jb.blind]
    ELSE jb.faces[bound[w]]

\* A widget the launcher no longer has is not drawn.
Drawn(ws, face(_)) ==
    [w \in AllWidgets |-> IF w \in ws /\ drawn[w].kind # "deleted" THEN face(w) ELSE drawn[w]]

\* refreshHomeWidgets draws the spend widget; the rule widgets are drawn after it returns.
RefreshHomeWidgets(j) ==
    LET Face(w) == DrawForSpend(job[j])
    IN  /\ job[j].at = "bind" /\ job[j].for = "all"
        /\ drawn' = Drawn({Spend}, Face)
        /\ job' = [job EXCEPT ![j].at = "rules", ![j].copy = bindings]
        /\ UNCHANGED <<world, store, ghosts>>

RefreshRuleWidgets(j) ==
    LET Face(w) == DrawForRule(job[j], job[j].copy, w)
    IN  /\ job[j].at = "rules"
        /\ drawn' = Drawn(RuleWidgets, Face)
        /\ job' = [job EXCEPT ![j] = Idle]
        /\ UNCHANGED <<world, store, ghosts>>

\* A store that cannot be read leaves a task without bindings.
WidgetTaskHandler(j) ==
    /\ job[j].at = "bind" /\ job[j].for # "all" /\ ~job[j].choose
    /\ \E bound \in {bindings, <<>>} :
         LET Face(w) == IF w = Spend THEN DrawForSpend(job[j])
                        ELSE DrawForRule(job[j], bound, w)
         IN  drawn' = Drawn({job[j].for}, Face)
    /\ job' = [job EXCEPT ![j] = Idle]
    /\ UNCHANGED <<world, store, ghosts>>

\* A job thrown away: Android ends the process, or a refresh fails to read the store.
JobLost(j) ==
    /\ job[j].at \notin {"idle", "write", "forget"} /\ ~job[j].choose
    /\ job' = [job EXCEPT ![j] = Idle]
    /\ UNCHANGED <<world, store, drawn, ghosts>>

-----------------------------------------------------------------------------
(* Picking a rule for a widget, and forgetting a deleted widget.              *)

\* Another change of the bindings is under way.
Writing(i) == job[i].at \in {"write", "forget"}
Crosses(j) == \E i \in Jobs \ {j} : Writing(i)

\* RuleChoiceScreen: the owner taps one of the faces the screen has loaded.
Picks(j, r) ==
    /\ job[j].at = "bind" /\ job[j].choose /\ r \in DOMAIN job[j].faces
    /\ job' = [job EXCEPT ![j].at = "write", ![j].copy = bindings, ![j].face = r]
    /\ crossed' = (crossed \/ Crosses(j))
    /\ UNCHANGED <<world, store, drawn, want, changes, begun>>

\* withWidgetBinding keeps the other widgets' rules.
WithWidgetBinding(copy, w, r) ==
    [v \in DOMAIN copy \union {w} |-> IF v = w THEN r ELSE copy[v]]
WithoutWidgetBinding(copy, w) == [v \in DOMAIN copy \ {w} |-> copy[v]]

PickSaved(j) ==
    LET w == job[j].for
    IN  /\ job[j].at = "write"
        /\ bindings' = WithWidgetBinding(job[j].copy, w, job[j].face)
        /\ drawn' = [drawn EXCEPT ![w] = IF @.kind = "deleted" THEN @
                                         ELSE job[j].faces[job[j].face]]
        /\ want' = [v \in DOMAIN want \union {w} |-> IF v = w THEN job[j].face ELSE want[v]]
        /\ job' = [job EXCEPT ![j] = Idle]
        /\ UNCHANGED <<world, selected, crossed, changes, begun>>

\* "Not now", or a screen that has nothing to pick.
ChoiceClosed(j) ==
    /\ job[j].at = "bind" /\ job[j].choose
    /\ job' = [job EXCEPT ![j] = Idle]
    /\ UNCHANGED <<world, store, drawn, ghosts>>

\* WIDGET_DELETED: the launcher has removed the widget, its screen and its id.
WidgetDeleted(j, w) ==
    /\ changes < MaxChanges /\ changes' = changes + 1
    /\ job[j].at = "idle" /\ drawn[w].kind # "deleted"
    /\ \A i \in Jobs : ~(job[i].choose /\ job[i].for = w)
    /\ drawn' = [drawn EXCEPT ![w] = Message("deleted")]
    /\ job' = [job EXCEPT ![j] = [Idle EXCEPT !.at = "forget", !.for = w, !.copy = bindings]]
    /\ crossed' = (crossed \/ Crosses(j))
    /\ UNCHANGED <<world, store, want, begun>>

ForgetWidgetBinding(j) ==
    /\ job[j].at = "forget"
    /\ bindings' = WithoutWidgetBinding(job[j].copy, job[j].for)
    /\ want' = [v \in DOMAIN want \ {job[j].for} |-> want[v]]
    /\ job' = [job EXCEPT ![j] = Idle]
    /\ UNCHANGED <<world, selected, drawn, crossed, changes, begun>>

-----------------------------------------------------------------------------
WidgetsNext ==
    \/ \E r \in Rules, kind \in {"paid", "refused"} : Decides(r, kind)
    \/ \E r \in Rules : EndsRule(r) \/ Selects(r)
    \/ ClockTicks
    \/ SignsOut
    \/ \E j \in Jobs :
         \/ \E for \in AllWidgets : JobBegins(j, for, FALSE)
         \/ JobBegins(j, "all", FALSE)
         \/ \E for \in RuleWidgets : JobBegins(j, for, TRUE) \/ WidgetDeleted(j, for)
         \/ PaymentsListed(j) \/ PaymentsUnlisted(j)
         \/ TradesListed(j) \/ TradesUnlisted(j)
         \/ SelectionRead(j) \/ LedgerFor(j)
         \/ RefreshHomeWidgets(j) \/ RefreshRuleWidgets(j) \/ WidgetTaskHandler(j)
         \/ JobLost(j)
         \/ \E r \in Rules : Picks(j, r)
         \/ PickSaved(j) \/ ChoiceClosed(j) \/ ForgetWidgetBinding(j)

WidgetsSpec == WidgetsInit /\ [][WidgetsNext]_widgetVars

-----------------------------------------------------------------------------
(* Properties. *)

Faces == {drawn[w] : w \in {v \in AllWidgets : drawn[v].kind = "rule"}}
PaidIn(rows) == Cardinality({i \in DOMAIN rows : rows[i].kind = "paid"})

\* A face is as new as the time it says it was updated: every payment made before that
\* time is in what it shows, however long the reads behind it took.  And it agrees with
\* itself: the last decision it names is not older than a payment it has counted.
FacesHoldTogether ==
    \A f \in Faces :
        LET rows == ledger[f.rule]
        IN  /\ f.paid >= Cardinality({i \in DOMAIN rows :
                                        rows[i].kind = "paid" /\ rows[i].ts < f.label})
            /\ f.seen # Unread => PaidIn(SubSeq(rows, 1, f.seen)) >= f.paid

\* "This rule is no longer on the chain" is said of a rule that was closed, or of a trade
\* rule while the trade rules could not be listed: never because of a read that failed
\* altogether, and never of a payment rule that exists.
GoneIsGone ==
    \A w \in RuleWidgets :
        drawn[w].kind = "gone" => \/ ~Listed(drawn[w].rule)
                                  \/ drawn[w].blind /\ drawn[w].rule \in TradeRules

\* The stored bindings are the picks the owner made on the widgets still there, as long as
\* no two changes of them overlapped (both read the store before they write it).
BindingsFollowPicks == crossed \/ bindings = want

\* All of them: what the home screen shows is true, and is what the owner picked.
WidgetsAreTrue == FacesHoldTogether /\ GoneIsGone /\ BindingsFollowPicks

=============================================================================
