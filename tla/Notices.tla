------------------------------ MODULE Notices ------------------------------
(***************************************************************************)
(* What the phone tells its owner without being asked: a notice for every  *)
(* decision on a rule (app/lib/notify.ts, decisionNotifyTask.ts) and the   *)
(* quiet note, at most one a day (quietNote.ts, settings/quiet-note.tsx).  *)
(* Both come from one background scan, and the settings screen writes the  *)
(* quiet note too.                                                         *)
(*                                                                         *)
(* A day has three periods; the hour of the note is the period it starts   *)
(* with. An alarm that is due is delivered on its own day, and a plan for  *)
(* the note is carried out before the period is over. The store, a read    *)
(* or the notification service may fail, and the app may be       *)
(* killed between any two steps; a story bounds how often.                 *)
(***************************************************************************)
EXTENDS Integers, Sequences, FiniteSets, SequencesExt

CONSTANTS
    PayRules,       \* payment rules, as a sequence in the order they are listed
    TradeRules,     \* trade rules, likewise
    NoticeRing,     \* rows a ring keeps
    NoticeStories   \* what may happen, and how often

Trades == Range(TradeRules)
RuleOrder == PayRules \o TradeRules

ASSUME NoticeAssumption ==
    /\ NoticeRing \in Nat \ {0} /\ IsFiniteSet(NoticeStories)
    /\ Range(PayRules) \intersect Trades = {}
    /\ \A s \in NoticeStories :
        s \in [rules : SUBSET Range(RuleOrder), kinds : SUBSET {"paid", "refused", "override"},
              decisions : Nat, days : Nat, edits : Nat, faults : Nat, on : BOOLEAN]

VARIABLES
    rings,      \* the rows of every rule, oldest first
    made,       \* decisions made so far, which also numbers them
    live,       \* rules that are active
    now,        \* the phone's clock
    seenStore,  \* ids under seenStorageKey, per rule
    noteStore,  \* QuietSettings under QUIET_NOTE_KEY
    alarm,      \* the note the system is to show later
    allowed,    \* the system lets the app show notifications
    noteScan,       \* scanOnce, while it runs
    form,       \* the settings screen
    announced,       \* how often each decision was announced
    shown,      \* notes shown, per day
    left,       \* what may still happen
    upset       \* history, read by the properties only: what a failure made the phone
                \* forget, what was old when a rule was first read, what is to be announced

noticeVars == <<rings, made, live, now, seenStore, noteStore, alarm, allowed, noteScan, form, announced,
                shown, left, upset>>
chainVars == <<rings, made, live>>
newsVars == <<seenStore, announced>>
noteVars == <<noteStore, alarm, shown>>

-----------------------------------------------------------------------------
(* Decisions                                                               *)

DecisionIds == 1 .. Max({s.decisions : s \in NoticeStories})

\* A row of a ring: its identity (encodeDecisionId), what it is, and its day.
Row(id, kind, day) == [id |-> id, kind |-> kind, day |-> day]

\* isNotifiable
Notifiable(row) == row.kind \in {"paid", "refused"}

\* The latest rows, when one more is pushed.
Pushed(ring, row) ==
    LET all == Append(ring, row)
    IN IF Len(all) > NoticeRing THEN Tail(all) ELSE all

Decide(r, kind) ==
    /\ left.decisions > 0 /\ r \in live
    /\ made' = made + 1
    /\ rings' = [rings EXCEPT ![r] = Pushed(@, Row(made + 1, kind, now.day))]
    /\ left' = [left EXCEPT !.decisions = @ - 1]
    /\ upset' = IF allowed /\ seenStore[r].known /\ kind # "override"
                THEN [upset EXCEPT !.due = @ \union {made + 1}] ELSE upset
    /\ UNCHANGED <<live, now, newsVars, noteVars, allowed, noteScan, form>>

RuleEnds(r) ==
    /\ left.edits > 0 /\ r \in live
    /\ live' = live \ {r}
    /\ left' = [left EXCEPT !.edits = @ - 1]
    /\ UNCHANGED <<rings, made, now, newsVars, noteVars, allowed, noteScan, form, upset>>

\* The ids planDecisionNotices keeps of a ring.
Ids(ring) == {row.id : row \in {row \in Range(ring) : Notifiable(row)}}

Missing == [known |-> FALSE, ids |-> {}]

\* Mutant: a rule without a stored key has an empty seen set.
MutNews(ledgers) == [r \in DOMAIN ledgers |-> Ids(ledgers[r]) \ seenStore[r].ids]

\* planDecisionNotices, less the rules that are read for the first time: their rows are kept
\* and not announced.
News(ledgers) ==
    [r \in DOMAIN ledgers |->
        IF seenStore[r].known THEN Ids(ledgers[r]) \ seenStore[r].ids ELSE {}]

NoNews(news) == \A r \in DOMAIN news : news[r] = {}

\* The rule whose news comes next, in the order of the list, and its oldest id.
IsNext(news, r, id) ==
    /\ \A other \in news[r] : id <= other
    /\ \E i \in DOMAIN RuleOrder :
          /\ RuleOrder[i] = r
          /\ \A k \in 1 .. i - 1 : RuleOrder[k] \in DOMAIN news => news[RuleOrder[k]] = {}

\* Mutant: everything that was planned is kept, shown or not.
MutKeptIds(r, ring, presented) == [known |-> TRUE, ids |-> Ids(ring)]

\* What deliverDecisionNotices stores for a rule: of the ids still on the ring the ones stored
\* before and the ones just presented.
KeptIds(r, ring, presented) ==
    [known |-> TRUE,
     ids |-> IF ~seenStore[r].known THEN Ids(ring)
             ELSE {id \in Ids(ring) : id \in seenStore[r].ids \/ id \in presented}]

-----------------------------------------------------------------------------
(* The quiet note                                                          *)

NoBody == [count |-> 0, at |-> 0]

\* defaultQuietSettings
DefaultSettings ==
    [enabled |-> FALSE, send |-> "every-evening", hour |-> 2, lastSent |-> 0,
     for |-> 0, body |-> NoBody, at |-> 0]

NoCopy == [moved |-> FALSE, body |-> NoBody]

\* quietNoteCopy: what the ring still holds of the day, and the time of the check
Copy(ring, day, period) ==
    LET today == Len(SelectSeq(ring, LAMBDA row : row.day = day /\ Notifiable(row)))
    IN [moved |-> today > 0, body |-> [count |-> today, at |-> period + 1]]

\* quietRuleFor: the selected rule when it is live (the first is selected), or the first that
\* is; no note when there is none or its ledger was not read
QuietRuleFor(ledgers) ==
    LET usable == SelectSeq(PayRules, LAMBDA r : r \in live)
    IN IF usable = <<>> \/ Head(usable) \notin DOMAIN ledgers THEN NoCopy
       ELSE Copy(ledgers[Head(usable)], now.day, now.period)

Unscheduled(s) == [s EXCEPT !.for = 0, !.body = NoBody, !.at = 0]

Plan(cancel, notes, settings, persist) ==
    [cancel |-> cancel, notes |-> notes, settings |-> settings, persist |-> persist]

NoPlan(s) == Plan(FALSE, {}, s, FALSE)

\* Nothing is to be said today: whatever was scheduled is taken back.
TakeBack(s) == Plan(s.for # 0, {}, Unscheduled(s), s.for # 0)

\* The note goes out at once, or was shown by its alarm.
Sent(s, notes) ==
    Plan(notes # {}, notes, [Unscheduled(s) EXCEPT !.lastSent = now.day], TRUE)

\* planQuietNote once the hour has come: what was scheduled for today has been shown
AfterTheHour(s, copy) ==
    IF s.for = now.day THEN Sent(s, {})
    ELSE IF s.send = "every-evening" \/ copy.moved THEN Sent(s, {0})
    ELSE TakeBack(s)

\* planQuietNote before the hour: schedule it, unless the same note already is
BeforeTheHour(s, copy) ==
    IF ~(s.send = "every-evening" \/ copy.moved) THEN TakeBack(s)
    ELSE IF s.for = now.day /\ s.body = copy.body /\ s.at = s.hour THEN NoPlan(s)
    ELSE Plan(TRUE, {s.hour}, [s EXCEPT !.for = now.day, !.body = copy.body, !.at = s.hour], TRUE)

PlanQuietNote(s, copy, granted) ==
    CASE ~s.enabled \/ s.send = "never" ->
            IF ~s.enabled /\ s.for = 0 THEN NoPlan(s)
            ELSE Plan(TRUE, {}, [Unscheduled(s) EXCEPT !.enabled = FALSE], TRUE)
      [] s.enabled /\ s.send # "never" /\ ~granted -> Plan(TRUE, {}, Unscheduled(s), TRUE)
      [] s.enabled /\ s.send # "never" /\ granted ->
            IF copy = NoCopy THEN TakeBack(s)
            ELSE IF s.lastSent = now.day THEN NoPlan(s)
            ELSE IF now.period >= s.hour THEN AfterTheHour(s, copy)
            ELSE BeforeTheHour(s, copy)

\* refreshQuietNote from the settings screen: what was chosen is stored, and off means off
Overridden(plan) ==
    [plan EXCEPT !.persist = TRUE, !.cancel = @ \/ ~plan.settings.enabled]

\* applyQuietPlan, first half. A note is for now (0) or for a later period of today.
Schedules(plan) ==
    /\ alarm' = IF plan.notes # {} THEN {[day |-> now.day, at |-> p] : p \in plan.notes \ {0}}
                ELSE IF plan.cancel THEN {} ELSE alarm
    /\ shown' = IF 0 \in plan.notes /\ allowed THEN [shown EXCEPT ![now.day] = @ + 1] ELSE shown

\* Second half.
Persists(plan) == noteStore' = IF plan.persist THEN plan.settings ELSE noteStore

-----------------------------------------------------------------------------
(* The scan                                                                *)

NoScan == [phase |-> "off", todo |-> {}, ledgers |-> <<>>, news |-> <<>>, presented |-> {},
           failed |-> FALSE, plan |-> NoPlan(DefaultSettings)]

\* A failure: one fewer is left, and what was announced and not stored yet is forgotten.
Fault(unsaved) ==
    /\ left.faults > 0
    /\ left' = [left EXCEPT !.faults = @ - 1]
    /\ upset' = [upset EXCEPT !.news = unsaved \union @,
                              !.days = IF noteScan.phase \in {"schedule", "persist"}
                                          \/ form.phase \in {"schedule", "persist"}
                                       THEN @ \union {now.day} ELSE @]

\* scanDecisionsIfAllowed, or the background task; scanTail runs one at a time. The rules are
\* listed first, and a scan that cannot list them ends there.
ScanBegins ==
    /\ noteScan = NoScan /\ allowed
    /\ noteScan' = [NoScan EXCEPT !.phase = "ledgers", !.todo = left.rules]
    /\ UNCHANGED <<chainVars, now, newsVars, noteVars, allowed, form, left, upset>>

RulesFail ==
    /\ noteScan = NoScan /\ allowed
    /\ Fault({})
    /\ UNCHANGED <<chainVars, now, newsVars, noteVars, allowed, noteScan, form>>

\* Payment rules are read first.
InTurn(r) == r \in noteScan.todo /\ (r \in Trades => noteScan.todo \subseteq Trades)

LedgerRead(r) ==
    /\ noteScan.phase = "ledgers" /\ InTurn(r)
    /\ noteScan' = [noteScan EXCEPT !.todo = @ \ {r},
                            !.ledgers = [x \in DOMAIN @ \union {r} |->
                                            IF x = r THEN rings[r] ELSE @[x]]]
    /\ UNCHANGED <<chainVars, now, newsVars, noteVars, allowed, form, left, upset>>

\* One ledger fails, or the listing of the trade rules does.
LedgerUnread(r) ==
    /\ noteScan.phase = "ledgers" /\ InTurn(r)
    /\ Fault({})
    /\ \/ noteScan' = [noteScan EXCEPT !.todo = @ \ {r}]
       \/ r \in Trades /\ noteScan.todo = Trades \intersect left.rules /\ noteScan' = [noteScan EXCEPT !.todo = {}]
    /\ UNCHANGED <<chainVars, now, newsVars, noteVars, allowed, form>>

\* From presenting to storing, with what is left to present.
Saving(s) == [s EXCEPT !.phase = "save", !.todo = DOMAIN s.ledgers, !.news = <<>>]

PlanNews ==
    /\ noteScan.phase = "ledgers" /\ noteScan.todo = {}
    /\ noteScan' = LET news == News(noteScan.ledgers) IN
               IF NoNews(news) THEN Saving(noteScan) ELSE [noteScan EXCEPT !.phase = "present", !.news = news]
    /\ UNCHANGED <<chainVars, now, newsVars, noteVars, allowed, form, left, upset>>

Present ==
    /\ noteScan.phase = "present"
    /\ \E r \in DOMAIN noteScan.news : \E id \in noteScan.news[r] :
        LET next == [noteScan EXCEPT !.news[r] = @ \ {id}, !.presented = @ \union {id}] IN
        /\ IsNext(noteScan.news, r, id)
        /\ noteScan' = IF NoNews(next.news) THEN Saving(next) ELSE next
        /\ announced' = [announced EXCEPT ![id] = @ + 1]
    /\ UNCHANGED <<chainVars, now, seenStore, noteVars, allowed, form, left, upset>>

PresentFails ==
    /\ noteScan.phase = "present"
    /\ Fault({})
    /\ noteScan' = Saving([noteScan EXCEPT !.failed = TRUE])
    /\ UNCHANGED <<chainVars, now, newsVars, noteVars, allowed, form>>

SaveSeen(r) ==
    /\ noteScan.phase = "save" /\ r \in noteScan.todo
    /\ seenStore' = [seenStore EXCEPT ![r] = KeptIds(r, noteScan.ledgers[r], noteScan.presented)]
    /\ noteScan' = [noteScan EXCEPT !.todo = @ \ {r}]
    /\ upset' = IF seenStore[r].known THEN upset
                ELSE [upset EXCEPT !.old = @ \union Ids(noteScan.ledgers[r])]
    /\ UNCHANGED <<chainVars, now, announced, noteVars, allowed, form, left>>

\* Ids that were presented and are not stored.
Unsaved == UNION {{id \in Ids(noteScan.ledgers[r]) : id \in noteScan.presented} :
                    r \in IF noteScan.phase = "save" THEN noteScan.todo ELSE DOMAIN noteScan.ledgers}

SaveFails ==
    /\ noteScan.phase = "save" /\ noteScan.todo # {}
    /\ Fault(Unsaved)
    /\ noteScan' = NoScan
    /\ UNCHANGED <<chainVars, now, newsVars, noteVars, allowed, form>>

\* The note for today was shown by its alarm, and the settings do not say so yet.
OnlyTheAlarmKnows == noteStore.for = now.day /\ now.period >= noteStore.at

\* The plan forgets it, because there is nothing to write a note from.
Overlooked(plan) == OnlyTheAlarmKnows /\ plan.settings.lastSent # now.day

\* A scan that could not present everything throws here, before the quiet note.
PlanNote ==
    /\ noteScan.phase = "save" /\ noteScan.todo = {}
    /\ noteScan' = IF noteScan.failed THEN NoScan
               ELSE [NoScan EXCEPT !.phase = "schedule",
                        !.plan = PlanQuietNote(noteStore, QuietRuleFor(noteScan.ledgers), TRUE)]
    /\ upset' = IF ~noteScan.failed
                    /\ (Overlooked(noteScan'.plan) \/ form.phase \in {"schedule", "persist"})
                THEN [upset EXCEPT !.days = @ \union {now.day}] ELSE upset
    /\ UNCHANGED <<chainVars, now, newsVars, noteVars, allowed, form, left>>

ScanSchedules ==
    /\ noteScan.phase = "schedule"
    /\ Schedules(noteScan.plan)
    /\ noteScan' = [noteScan EXCEPT !.phase = "persist"]
    /\ UNCHANGED <<chainVars, now, newsVars, noteStore, allowed, form, left, upset>>

ScanPersists ==
    /\ noteScan.phase = "persist"
    /\ Persists(noteScan.plan)
    /\ noteScan' = NoScan
    /\ UNCHANGED <<chainVars, now, newsVars, alarm, shown, allowed, form, left, upset>>

\* The app is killed. What was stored and what the system was given stay.
Killed ==
    /\ noteScan # NoScan \/ form.phase # "closed"
    /\ Fault(IF noteScan.phase \in {"present", "save"} THEN Unsaved ELSE {})
    /\ noteScan' = NoScan
    /\ form' = [phase |-> "closed", settings |-> DefaultSettings, plan |-> NoPlan(DefaultSettings)]
    /\ UNCHANGED <<chainVars, now, newsVars, noteVars, allowed>>

-----------------------------------------------------------------------------
(* The settings screen                                                     *)

Form(phase, settings, plan) == [phase |-> phase, settings |-> settings, plan |-> plan]
ClosedForm == Form("closed", DefaultSettings, NoPlan(DefaultSettings))

OpenForm ==
    /\ form = ClosedForm /\ left.edits > 0
    /\ form' = Form("open", noteStore, NoPlan(DefaultSettings))
    /\ UNCHANGED <<chainVars, now, newsVars, noteVars, allowed, noteScan, left, upset>>

CloseForm ==
    /\ form.phase = "open"
    /\ form' = ClosedForm
    /\ UNCHANGED <<chainVars, now, newsVars, noteVars, allowed, noteScan, left, upset>>

\* What QuietNoteScreen hands over: the choice on top of the settings it was given.
Chosen(send, hour) ==
    [form.settings EXCEPT !.enabled = send # "never", !.send = send, !.hour = hour]

\* onSave, over the ledger of the rule the screen shows. Turning the note on asks for permission.
SaveForm(send, hour) ==
    LET next == Chosen(send, hour)
        ledgers == [r \in {Head(PayRules)} |-> rings[r]]
    IN
    /\ form.phase = "open" /\ left.edits > 0
    /\ Head(PayRules) \in live
    /\ left' = [left EXCEPT !.edits = @ - 1]
    /\ \E granted \in IF send = "never" THEN {FALSE} ELSE {allowed, TRUE} :
        /\ allowed' = (allowed \/ granted)
        /\ form' = Form("schedule", DefaultSettings,
                        Overridden(PlanQuietNote(next, QuietRuleFor(ledgers), granted)))
    /\ upset' = IF form.settings # noteStore \/ noteScan.phase \in {"schedule", "persist"}
                    \/ OnlyTheAlarmKnows
                THEN [upset EXCEPT !.days = @ \union {now.day}] ELSE upset
    /\ UNCHANGED <<chainVars, now, newsVars, noteVars, noteScan>>

FormSchedules ==
    /\ form.phase = "schedule"
    /\ Schedules(form.plan)
    /\ form' = [form EXCEPT !.phase = "persist"]
    /\ UNCHANGED <<chainVars, now, newsVars, noteStore, allowed, noteScan, left, upset>>

FormPersists ==
    /\ form.phase = "persist"
    /\ Persists(form.plan)
    /\ form' = IF left.edits = 0 THEN ClosedForm
               ELSE Form("open", noteStore', NoPlan(DefaultSettings))
    /\ UNCHANGED <<chainVars, now, newsVars, alarm, shown, allowed, noteScan, left, upset>>

-----------------------------------------------------------------------------
(* The system                                                              *)

Due(a) == a.day = now.day /\ now.period >= a.at

AlarmFires ==
    /\ \E a \in alarm : Due(a)
    /\ alarm' = {}
    /\ shown' = IF allowed THEN [shown EXCEPT ![now.day] = @ + 1] ELSE shown
    /\ UNCHANGED <<chainVars, now, newsVars, noteStore, allowed, noteScan, form, left, upset>>

TimePasses ==
    /\ \A a \in alarm : ~Due(a)
    /\ {noteScan.phase, form.phase} \intersect {"schedule", "persist"} = {}
    /\ \/ now.period < 2 /\ now' = [now EXCEPT !.period = @ + 1] /\ UNCHANGED left
       \/ /\ now.period = 2 /\ left.days > 0
          /\ now' = [day |-> now.day + 1, period |-> 0]
          /\ left' = [left EXCEPT !.days = @ - 1]
    /\ UNCHANGED <<chainVars, newsVars, noteVars, allowed, noteScan, form, upset>>

-----------------------------------------------------------------------------

NoticesInit ==
    /\ left \in NoticeStories
    /\ rings = [r \in Range(RuleOrder) |-> <<>>] /\ made = 0 /\ live = left.rules
    /\ now = [day |-> 1, period |-> IF left.days = 0 THEN 2 ELSE 0]
    /\ seenStore = [r \in Range(RuleOrder) |-> Missing]
    /\ alarm = {} /\ noteScan = NoScan /\ form = ClosedForm
    /\ noteStore = [DefaultSettings EXCEPT !.enabled = left.on]
    /\ allowed \in IF left.edits = 0 THEN {TRUE} ELSE BOOLEAN
    /\ announced = [id \in DecisionIds |-> 0]
    /\ shown = [d \in 1 .. left.days + 1 |-> 0]
    /\ upset = [news |-> {}, days |-> {}, old |-> {}, due |-> {}]

ScanSteps ==
    \/ (\E r \in left.rules : LedgerRead(r)) \/ PlanNews \/ Present
    \/ (\E r \in left.rules : SaveSeen(r)) \/ PlanNote \/ ScanSchedules \/ ScanPersists

NoticesNext ==
    \/ \E r \in left.rules, kind \in left.kinds : Decide(r, kind)
    \/ \E r \in Range(PayRules) : RuleEnds(r)
    \/ ScanBegins \/ ScanSteps
    \/ RulesFail \/ (\E r \in left.rules : LedgerUnread(r)) \/ PresentFails \/ SaveFails \/ Killed
    \/ OpenForm \/ CloseForm
    \/ \E send \in {"every-evening", "moved", "never"}, hour \in {1, 2} : SaveForm(send, hour)
    \/ FormSchedules \/ FormPersists
    \/ AlarmFires \/ TimePasses

\* A scan goes on until it ends, and another begins every 15 minutes or when the app is opened.
NoticesSpec ==
    /\ NoticesInit /\ [][NoticesNext]_noticeVars
    /\ WF_noticeVars(ScanSteps) /\ WF_noticeVars(ScanBegins)

-----------------------------------------------------------------------------
(* Properties                                                              *)

OnRing(id) == \E r \in left.rules : \E i \in DOMAIN rings[r] : rings[r][i].id = id

\* The quiet note comes at most once a day, however scans, alarms and changes of the settings
\* fall ("never more than one", quietNote.ts:20), except on a day on which the app was stopped
\* or failed between showing a note and storing that, or the note was overlooked because its
\* ledger was unread, or the owner saved settings over ones that had changed, during a scan's
\* own change, or after the alarm alone had shown the note.
OneNoteADay == \A d \in DOMAIN shown : shown[d] <= 1 \/ d \in upset.days

\* A decision is announced at most once, and never when it was on the rule before the phone
\* first read it, unless the announcement was not stored: the app was killed or the store
\* failed in between (deliverDecisionNotices).
NewsIsToldOnce ==
    /\ \A id \in DOMAIN announced : announced[id] <= 1 \/ id \in upset.news
    /\ \A id \in upset.old : announced[id] = 0

\* A decision is announced once and the quiet note comes once a day, however scans, alarms and
\* the settings screen fall (decisionNotifyTask.ts, quietNote.ts).
NoticesComeOnce == NewsIsToldOnce /\ OneNoteADay

\* A decision on a rule the phone has read before is announced in the end, whatever fails on
\* the way, unless it leaves the ring before a scan comes to it.
NewsIsTold ==
    \A id \in DecisionIds : []<>(id \in upset.due => announced[id] > 0 \/ ~OnRing(id))

=============================================================================
