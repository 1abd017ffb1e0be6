------------------------------ MODULE MCShown ------------------------------
(***************************************************************************)
(* What people are shown: on the phone the agents' records, the home       *)
(* widgets and the rules as the app reads them; at the merchant the quotes *)
(* and payments of the terminal.  They share no state: a behaviour is of   *)
(* one of them.                                                            *)
(***************************************************************************)
EXTENDS AgentRecords, Widgets, RuleReads, Terminal, TLC

MCAgentOf == [a |-> "x", b |-> "x"]

MCAccountOf == [r \in Listable |-> 1]

\* One rule under a series of charges and permissions, one read by a phone whose clock is
\* behind, one over more than a week with a revocation and a phone whose clock is ahead, one
\* that ends while reads of it fail, and two rules whose loads overlap.
Quiet == [asks |-> 2, grants |-> 0, revokes |-> 0, declines |-> 0, ticks |-> 0, jumps |-> {}, skews |-> {0},
          start |-> 3, again |-> FALSE, overlap |-> FALSE, loads |-> 2, faults |-> 0, rules |-> {"a"}]

MCRecordStories ==
    {[Quiet EXCEPT !.asks = 5, !.grants = 2],
     [Quiet EXCEPT !.asks = 4, !.declines = 1, !.again = TRUE, !.skews = {-1}],
     [Quiet EXCEPT !.start = 1, !.asks = 1, !.grants = 1, !.revokes = 1, !.ticks = 3, !.jumps = {1, 4, 13},
                   !.skews = {14}, !.loads = 1],
     [Quiet EXCEPT !.asks = 2, !.revokes = 1, !.ticks = 1, !.jumps = {13}, !.skews = {0, 14}, !.faults = 1],
     [Quiet EXCEPT !.ticks = 1, !.jumps = {1}, !.faults = 1, !.overlap = TRUE,
                   !.rules = {"a", "b"}]}

\* Three stories of the widgets: decisions are taken while one job runs; the owner stops and
\* closes rules, switches and signs out around two jobs; jobs overlap while widgets are
\* picked and deleted.
WidgetParts == {"deciding", "closing", "overlapping"}

Dec(neg, whole, frac) == [neg |-> neg, whole |-> whole, frac |-> frac, sci |-> FALSE, exp |-> 0]
Sci(whole, frac, exp) == [neg |-> FALSE, whole |-> whole, frac |-> frac, sci |-> TRUE, exp |-> exp]

Price(start, end, quoted, price) == [start |-> start, end |-> end, quoted |-> quoted, price |-> price]
Body(entries) == [array |-> TRUE, entries |-> entries]

\* Three days around the end of February of a century year, two slots a day: a whole day;
\* one wide window listed before a slot's own; no windows; a page that is no JSON.
MCDayBodies(d) ==
    LET t == d * DAY
        half == t + DAY \div 2
    IN { Body(<<Price(t, half, FALSE, Sci(<<1>>, <<2, 5>>, 0 - 1)),
                Price(half, t + DAY, TRUE, Dec(TRUE, <<0>>, <<3>>))>>),
         Body(<<Price(t, t + DAY, FALSE, Dec(FALSE, <<2>>, <<3, 4, 9>>)),
                Price(half, t + DAY, FALSE, Sci(<<3>>, <<>>, 1))>>),
         Body(<<>>),
         [array |-> FALSE, entries |-> <<>>] }

Date(m, d) == [y |-> 2100, m |-> m, d |-> d]
MCFirstDate == Date(2, 28)
Doc(date, usd, sek) == [dates |-> {date}, usd |-> usd, sek |-> sek]

\* Fixings four and five days before a date, one dated after it, one with two rates, one
\* without a currency.
MCFxDocs ==
    { Doc(Date(2, 25), {11}, {112}), Doc(Date(2, 24), {11}, {112}),
      Doc(Date(3, 1), {12}, {110}), Doc(Date(2, 27), {11, 12}, {112}), Doc(Date(2, 27), {11}, {}) }

Symmetry == Permutations(Requests)

VARIABLE part

OneJob == \A j \in Jobs : job'[j].at # "idle" => j = 1

WidgetsAct ==
    \/ part = "deciding" /\ OneJob /\ begun' < 2 /\ UNCHANGED <<changes, session>>
    \/ part = "closing" /\ OneJob /\ begun' < 3 /\ UNCHANGED <<hour, ledger>>
    \/ /\ part = "overlapping" /\ changes' < 2
       /\ UNCHANGED <<world, selected>>
       /\ \A j \in Jobs :
            job'[j].at # "idle" => /\ job'[j].for \in RuleWidgets /\ ~job'[j].blind
                                   /\ \A r \in DOMAIN job'[j].seen : job'[j].seen[r] # Unread

\* Two stories of the reads: one account whose rules open, end, close and are chosen, the
\* first of two reads tried again when rate limited, and two accounts that take turns.
ReadParts == {"one account", "two accounts"}

ReadsAct ==
    \/ part = "one account" /\ hooks'.owner # 2 /\ fetch'[2].tries = 0
    \/ part = "two accounts" /\ UNCHANGED <<standing, chosen>>

runVars == <<recordVars, widgetVars, readVars, terminalVars, part>>

\* The parts that do not move stay in one of their initial states.
RunInit ==
    /\ part \in {"records", "terminal"} \union ReadParts \union WidgetParts
    /\ RecordsInit /\ WidgetsInit /\ ReadInit /\ TerminalInit
    /\ part # "records" => can.again
    /\ part \notin ReadParts => \A r \in Listable : standing[r] = "none"
    /\ part # "terminal" => currency = "SEK" /\ asks.what = "quote"

\* The payments list needs one second past its time to live, the quotes two days.
RunNext ==
    \/ /\ part = "records" /\ RecordsNext
       /\ UNCHANGED <<widgetVars, readVars, terminalVars, part>>
    \/ /\ part \in WidgetParts /\ WidgetsNext /\ WidgetsAct
       /\ UNCHANGED <<recordVars, readVars, terminalVars, part>>
    \/ /\ part \in ReadParts /\ ReadNext /\ ReadsAct
       /\ UNCHANGED <<recordVars, widgetVars, terminalVars, part>>
    \/ /\ part = "terminal" /\ TerminalNext /\ (asks.what = "payments" => now' < LastTick)
       /\ UNCHANGED <<recordVars, widgetVars, readVars, part>>

RunSpec == RunInit /\ [][RunNext]_runVars

-----------------------------------------------------------------------------

\* A quote is for a window that contains the instant it was asked for, and its amount is
\* the published price times volume and rate, rounded down, on a fixing that is fresh by the
\* calendar (QuoteIsForItsInstant, QuoteIsExact: quoteForWindow, amountBaseUnits, fx.ts),
\* whichever cache the terminal answered from; its payments list is as old as it says
\* (PaymentsAreAsOldAsSaid: currentPayments).
TerminalTellsTheTruth ==
    part = "terminal" => QuoteIsForItsInstant /\ QuoteIsExact /\ PaymentsAreAsOldAsSaid

=============================================================================
