---------------------------- MODULE MCPhoneTells ----------------------------
(***************************************************************************)
(* What people are told while they are away: the alerts of a vault, which  *)
(* the watcher and two phones raise, and the notices of the owner's phone. *)
(* The two read different accounts and keep different files: a behaviour   *)
(* is of one or the other.                                                 *)
(***************************************************************************)
EXTENDS HoldAlerts, Notices

Story(reader, kinds, entries, faulty) ==
    [reader |-> reader, kinds |-> kinds, entries |-> entries, faults |-> faulty]

AlertStories ==
    {\* the ends of a withdrawal beside payments made at once and earlier recoveries
     Story("watcher", {"HELD", "STOPPED", "RECOVERED"}, 4, 0),
     Story("watcher", {"HELD", "PAID", "SKIPPED", "AT_ONCE"}, 3, 0),
     \* the HELD entry rolls off while the wait is shortened
     Story("watcher", {"HELD", "AT_ONCE", "CHANGE"}, 4, 0),
     \* failures
     Story("watcher", {"HELD", "PAID"}, 2, 2),
     \* the owner's phone, and the list its two halves share
     Story("owner", {"HELD", "STOPPED", "OTHER"}, 2, 0),
     Story("owner", {"HELD", "CHANGE", "AT_ONCE"}, 4, 0),
     Story("owner", {"HELD", "STOPPED"}, 2, 1),
     \* the guardian's phone: alerts, then brakes
     Story("guardian", {"HELD", "RECOVERED", "CHANGE"}, 3, 0),
     Story("guardian", {"HELD", "STOPPED"}, 2, 2),
     Story("guardian", {"HELD", "PAID", "BRAKE"}, 2, 0)}

\* A payment rule and a trade rule whose ring keeps one row.
MCPayRules == <<"a">>
MCTradeRules == <<"t">>

\* Decisions made while scans fail twice; two days of the quiet note with a change of its
\* settings, and with a failure.
NewsStory == [rules |-> {"a", "t"}, kinds |-> {"paid", "override"}, decisions |-> 2,
              days |-> 0, edits |-> 0, faults |-> 2, on |-> FALSE]
NoteStory == [rules |-> {"a"}, kinds |-> {"refused"}, decisions |-> 1,
              days |-> 1, edits |-> 0, faults |-> 0, on |-> TRUE]

MCNoticeStories == {NewsStory, [NoteStory EXCEPT !.edits = 1], [NoteStory EXCEPT !.faults = 1]}

VARIABLE part

runVars == <<alertVars, noticeVars, part>>

\* The part that does not move stays in one of its initial states.
RunInit ==
    /\ part \in {"alerts", "notices"}
    /\ AlertsInit /\ NoticesInit
    /\ part = "alerts" => left.faults = 2
    /\ part = "notices" => story = Story("watcher", {"HELD", "PAID"}, 2, 2)

RunNext ==
    \/ part = "alerts" /\ AlertsNext /\ UNCHANGED <<noticeVars, part>>
    \/ part = "notices" /\ NoticesNext /\ UNCHANGED <<alertVars, part>>

\* The fairness of AlertsSpec and of NoticesSpec.
RunSpec ==
    /\ RunInit /\ [][RunNext]_runVars
    /\ WF_alertVars(part = "alerts" /\ Scans)
    /\ WF_noticeVars(part = "notices" /\ ScanSteps)
    /\ WF_noticeVars(part = "notices" /\ ScanBegins)

-----------------------------------------------------------------------------

\* A withdrawal that goes on waiting is announced (HeldIsAnnounced), and so is a decision on
\* a rule the phone has read before (NewsIsTold): scans begin again and again.
NewsArrives == HeldIsAnnounced /\ NewsIsTold

=============================================================================
