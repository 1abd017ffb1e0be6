----------------------------- MODULE TellProofs -----------------------------
(***************************************************************************)
(* Theorems about what people are told without being asked: the notices of *)
(* the owner's phone, for any rules, rings and stories, and the alerts of  *)
(* a vault, for any number of withdrawals, waits and stories.              *)
(*                                                                         *)
(* A decision is announced once because what was announced is stored, or   *)
(* is about to be by the scan that announced it, or a failure came between *)
(* and is on record; and because what a scan has not read of a ring is     *)
(* newer than all that was stored. The quiet note comes once a day because *)
(* one plan at a time is carried out, and the settings that are stored, or *)
(* will be when it is, account for the note that was shown today and for   *)
(* the alarm that is set.                                                  *)
(*                                                                         *)
(* An alert is true because what the record says of the vault stays true   *)
(* while the vault moves on, so that two reads at two moments never        *)
(* contradict each other; it is given once because each reader has written *)
(* down what it told, or is about to. The reminders set are on the list a  *)
(* later scan takes back from, and each half of a scan leaves those of the *)
(* other half alone.                                                       *)
(***************************************************************************)
EXTENDS HoldAlerts, Notices, CommonProofs, SequenceTheorems

-----------------------------------------------------------------------------
(* Notices: what is on the rings and what is remembered                    *)

NoticeRules == Range(RuleOrder)

NoticeRow == [id : Nat, kind : {"paid", "refused", "override"}, day : Nat]

Budget == [rules : SUBSET NoticeRules, kinds : SUBSET {"paid", "refused", "override"},
           decisions : Nat, days : Nat, edits : Nat, faults : Nat, on : BOOLEAN]

\* The news on a rule's ring, and the news a scan has read of it.
OnIt(r) == Ids(rings[r])

ReadOf(r) == IF r \in DOMAIN noteScan.ledgers THEN Ids(noteScan.ledgers[r]) ELSE {}

NewsOf(r) == OnIt(r) \union ReadOf(r)

\* The rules a scan has read and not stored.
Unstored == IF noteScan.phase = "save" THEN noteScan.todo ELSE DOMAIN noteScan.ledgers

ScanFields(s) ==
    [phase |-> s.phase, todo |-> s.todo, ledgers |-> s.ledgers, news |-> s.news,
     presented |-> s.presented, failed |-> s.failed, plan |-> s.plan]

NoticeTypes ==
    /\ left \in Budget /\ made \in Nat /\ 1 .. made + left.decisions \subseteq DecisionIds
    /\ now = [day |-> now.day, period |-> now.period] /\ now.day \in Nat \ {0} /\ now.period \in Nat
    /\ rings \in [NoticeRules -> Seq(NoticeRow)]
    /\ seenStore \in [NoticeRules -> [known : BOOLEAN, ids : SUBSET Nat]]
    /\ announced \in [DecisionIds -> Nat]
    /\ shown \in [1 .. now.day + left.days -> Nat]
    /\ upset \in [news : SUBSET Nat, days : SUBSET Nat, old : SUBSET Nat, due : SUBSET Nat]
    /\ noteScan = ScanFields(noteScan) /\ DOMAIN noteScan.ledgers \subseteq NoticeRules
    /\ noteScan.todo \subseteq NoticeRules

\* A scan announces what it has read, and stores what it has announced.
ScanInv ==
    /\ noteScan.phase \in {"off", "ledgers", "present", "save", "schedule", "persist"}
    /\ noteScan.phase \in {"off", "schedule", "persist"} => DOMAIN noteScan.ledgers = {}
    /\ noteScan.phase \in {"off", "schedule", "persist", "ledgers"} => noteScan.presented = {}
    /\ noteScan.phase = "save" => noteScan.todo \subseteq DOMAIN noteScan.ledgers
    /\ noteScan.phase = "present" =>
        /\ DOMAIN noteScan.news = DOMAIN noteScan.ledgers
        /\ \A r \in DOMAIN noteScan.news :
              /\ noteScan.news[r] \subseteq ReadOf(r)
              /\ noteScan.news[r] # {} => seenStore[r].known
              /\ noteScan.news[r] \intersect (seenStore[r].ids \union noteScan.presented) = {}

\* A decision is of one rule, and what a scan has not read of a ring came later.
IdsInv ==
    /\ \A r \in NoticeRules : NewsOf(r) \union seenStore[r].ids \subseteq 1 .. made
    /\ \A r, q \in NoticeRules : r # q => NewsOf(r) \intersect NewsOf(q) = {}
    /\ \A r \in DOMAIN noteScan.ledgers : \A id \in OnIt(r) \ ReadOf(r) :
          announced[id] = 0 /\ id \notin seenStore[r].ids /\ id \notin upset.old
    /\ \A id \in DecisionIds : announced[id] > 0 => id \in 1 .. made
    /\ upset.old \subseteq 1 .. made

\* What was announced is stored, or will be by the scan that announced it, unless a failure
\* came between; a rule that is read for the first time has announced nothing.
StoredInv ==
    /\ \A r \in NoticeRules : \A id \in NewsOf(r) : announced[id] > 0 =>
          /\ seenStore[r].known
          /\ \/ id \in upset.news \/ id \in seenStore[r].ids
             \/ r \in Unstored /\ id \in ReadOf(r) /\ id \in noteScan.presented
    /\ \A r \in NoticeRules : \A id \in NewsOf(r) :
          id \in upset.old => seenStore[r].known /\ id \in seenStore[r].ids

NewsInv == NoticeTypes /\ ScanInv /\ IdsInv /\ StoredInv /\ NewsIsToldOnce

\* Pushing a row onto a ring adds it and may drop the oldest.
LEMMA PushedRows ==
    ASSUME NEW ring \in Seq(NoticeRow), NEW row \in NoticeRow
    PROVE  /\ Pushed(ring, row) \in Seq(NoticeRow)
           /\ Ids(Pushed(ring, row)) \subseteq Ids(ring) \union {row.id}
  <1>1. PICK all : all = Append(ring, row)
    OBVIOUS
  <1>2. all \in Seq(NoticeRow) /\ Len(all) = Len(ring) + 1
        /\ \A i \in 1 .. Len(all) : all[i] = IF i <= Len(ring) THEN ring[i] ELSE row
    BY <1>1
  <1>3. PICK new : new = Pushed(ring, row)
    OBVIOUS
  <1>4. new = all \/ new = Tail(all)
    BY <1>1, <1>3 DEF Pushed
  <1>5. new \in Seq(NoticeRow) /\ \A i \in 1 .. Len(new) : \E k \in 1 .. Len(all) : new[i] = all[k]
    <2>1. CASE new = all
      BY <1>2, <2>1
    <2>2. CASE new = Tail(all)
      <3>1. new \in Seq(NoticeRow) /\ Len(new) = Len(all) - 1 /\ \A i \in 1 .. Len(new) : new[i] = all[i + 1]
        BY <1>2, <2>2
      <3>2. \A i \in 1 .. Len(new) : i + 1 \in 1 .. Len(all)
        BY <1>2, <3>1
      <3> QED BY <3>1, <3>2
    <2> QED BY <1>4, <2>1, <2>2
  <1>6. DOMAIN new = 1 .. Len(new) /\ DOMAIN ring = 1 .. Len(ring)
    BY <1>5
  <1>7. \A i \in 1 .. Len(new) : new[i] = row \/ \E k \in 1 .. Len(ring) : new[i] = ring[k]
    <2> SUFFICES ASSUME NEW i \in 1 .. Len(new) PROVE new[i] = row \/ \E k \in 1 .. Len(ring) : new[i] = ring[k]
      OBVIOUS
    <2>1. PICK k \in 1 .. Len(all) : new[i] = all[k]
      BY <1>5
    <2>2. Len(ring) \in Nat
      OBVIOUS
    <2> QED BY <1>2, <2>1, <2>2
  <1>8. \A x \in Range(new) : x \in Range(ring) \/ x = row
    BY <1>6, <1>7 DEF Range
  <1> QED
    BY <1>3, <1>5, <1>8 DEF Ids

\* Steps that write no ring and store nothing, after which a scan has no more than it had, and
\* forgets of what it announced and has not stored only what is counted as forgotten.
LEMMA NewsKept ==
    ASSUME NewsInv, NoticeTypes', ScanInv', UNCHANGED <<rings, made, seenStore, announced>>,
           upset'.old = upset.old, upset.news \subseteq upset'.news,
           \A r \in DOMAIN noteScan'.ledgers :
              r \in DOMAIN noteScan.ledgers /\ noteScan'.ledgers[r] = noteScan.ledgers[r],
           \A r \in Unstored : \A id \in ReadOf(r) \intersect noteScan.presented :
              \/ id \in upset'.news
              \/ r \in Unstored' /\ r \in DOMAIN noteScan'.ledgers /\ id \in noteScan'.presented
    PROVE  NewsInv'
  <1>1. \A r : OnIt(r)' = OnIt(r) /\ ReadOf(r)' \subseteq ReadOf(r)
    BY DEF OnIt, ReadOf
  <1>2. \A r : r \in DOMAIN noteScan'.ledgers => ReadOf(r)' = ReadOf(r)
    BY DEF ReadOf
  <1>3. \A r : NewsOf(r)' \subseteq NewsOf(r)
    BY <1>1 DEF NewsOf
  <1>4. /\ \A r, q \in NoticeRules : r # q => NewsOf(r)' \intersect NewsOf(q)' = {}
        /\ \A r \in NoticeRules : NewsOf(r)' \union seenStore[r].ids \subseteq 1 .. made
    BY <1>3 DEF NewsInv, IdsInv
  <1>5. IdsInv'
    BY <1>1, <1>2, <1>4 DEF NewsInv, IdsInv
  <1>6. StoredInv'
    BY <1>1, <1>2, <1>3 DEF NewsInv, StoredInv
  <1>7. NewsIsToldOnce'
    BY DEF NewsInv, NewsIsToldOnce
  <1> QED
    BY <1>5, <1>6, <1>7 DEF NewsInv

\* A decision is new to every rule and to every memory.
LEMMA DecideKeepsNews ==
    ASSUME NewsInv, NEW r \in left.rules, NEW kind \in left.kinds, Decide(r, kind)
    PROVE  NewsInv'
  <1>1. /\ left \in Budget /\ left.decisions > 0 /\ r \in NoticeRules /\ made \in Nat
        /\ kind \in {"paid", "refused", "override"}
    BY DEF NewsInv, NoticeTypes, Budget, Decide
  <1>2. /\ made' = made + 1 /\ left' = [left EXCEPT !.decisions = @ - 1]
        /\ rings' = [rings EXCEPT ![r] = Pushed(@, Row(made + 1, kind, now.day))]
        /\ UNCHANGED <<now, seenStore, announced, shown, noteScan>>
        /\ upset'.news = upset.news /\ upset'.old = upset.old /\ upset'.days = upset.days
        /\ upset' \in [news : SUBSET Nat, days : SUBSET Nat, old : SUBSET Nat, due : SUBSET Nat]
    <2>1. upset \in [news : SUBSET Nat, days : SUBSET Nat, old : SUBSET Nat, due : SUBSET Nat]
      BY DEF NewsInv, NoticeTypes
    <2>2. upset' = upset \/ upset' = [upset EXCEPT !.due = @ \union {made + 1}]
      BY DEF Decide
    <2>3. /\ upset'.news = upset.news /\ upset'.old = upset.old /\ upset'.days = upset.days
          /\ upset' \in [news : SUBSET Nat, days : SUBSET Nat, old : SUBSET Nat, due : SUBSET Nat]
      BY <1>1, <2>1, <2>2
    <2> QED BY <2>3 DEF Decide, newsVars, noteVars
  <1>3. PICK row : row = Row(made + 1, kind, now.day)
    OBVIOUS
  <1>4. row \in NoticeRow /\ row.id = made + 1
    BY <1>1, <1>3 DEF Row, NoticeRow, NewsInv, NoticeTypes
  <1>5. rings[r] \in Seq(NoticeRow)
    BY <1>1 DEF NewsInv, NoticeTypes
  <1>6. PICK new : new = Pushed(rings[r], row)
    OBVIOUS
  <1>7. new \in Seq(NoticeRow) /\ Ids(new) \subseteq Ids(rings[r]) \union {made + 1}
    BY <1>4, <1>5, <1>6, PushedRows
  <1>8. rings' = [rings EXCEPT ![r] = new] /\ rings \in [NoticeRules -> Seq(NoticeRow)]
    BY <1>2, <1>3, <1>6 DEF NewsInv, NoticeTypes
  <1>9. /\ OnIt(r)' \subseteq OnIt(r) \union {made + 1}
        /\ \A q \in NoticeRules : q # r => OnIt(q)' = OnIt(q)
        /\ \A q : ReadOf(q)' = ReadOf(q)
    BY <1>1, <1>2, <1>7, <1>8 DEF OnIt, ReadOf
  <1>10. left' \in Budget /\ left'.decisions = left.decisions - 1 /\ left'.days = left.days
    BY <1>1, <1>2 DEF Budget
  <1>11. NoticeTypes'
    <2>1. 1 .. made' + left'.decisions \subseteq DecisionIds
      BY <1>1, <1>2, <1>10 DEF NewsInv, NoticeTypes, Budget
    <2> QED BY <1>1, <1>2, <1>7, <1>8, <1>10, <2>1 DEF NewsInv, NoticeTypes, ScanFields
  <1>12. ScanInv'
    BY <1>2, <1>9 DEF NewsInv, ScanInv
  <1>13. /\ \A q \in NoticeRules : q # r => NewsOf(q)' = NewsOf(q)
         /\ NewsOf(r)' \subseteq NewsOf(r) \union {made + 1}
    BY <1>9 DEF NewsOf
  <1>14. /\ made + 1 \in DecisionIds /\ announced[made + 1] = 0 /\ made + 1 \notin upset.old
         /\ \A q \in NoticeRules : made + 1 \notin NewsOf(q) /\ made + 1 \notin seenStore[q].ids
    <2>1. made + 1 \in DecisionIds
      <3>1. made + 1 \in 1 .. made + left.decisions
        BY <1>1 DEF Budget
      <3> QED BY <3>1 DEF NewsInv, NoticeTypes
    <2>2. made + 1 \notin 1 .. made
      BY <1>1
    <2>3. announced[made + 1] \in Nat
      BY <2>1 DEF NewsInv, NoticeTypes
    <2> QED BY <2>1, <2>2, <2>3 DEF NewsInv, IdsInv
  <1>15. IdsInv'
    <2>1. 1 .. made \subseteq 1 .. made'
      BY <1>1, <1>2
    <2>2. made + 1 \in 1 .. made'
      BY <1>1, <1>2
    <2>3. \A q \in NoticeRules : NewsOf(q)' \union seenStore'[q].ids \subseteq 1 .. made'
      BY <1>2, <1>13, <2>1, <2>2 DEF NewsInv, IdsInv
    <2>4. \A p, q \in NoticeRules : p # q => NewsOf(p)' \intersect NewsOf(q)' = {}
      BY <1>13, <1>14 DEF NewsInv, IdsInv
    <2>5. \A q \in DOMAIN noteScan'.ledgers : \A id \in OnIt(q)' \ ReadOf(q)' :
              announced'[id] = 0 /\ id \notin seenStore'[q].ids /\ id \notin upset'.old
      <3>1. DOMAIN noteScan.ledgers \subseteq NoticeRules
        BY DEF NewsInv, NoticeTypes
      <3> QED BY <1>2, <1>9, <1>14, <3>1 DEF NewsInv, IdsInv
    <2>6. \A id \in DecisionIds : announced'[id] > 0 => id \in 1 .. made'
      BY <1>2, <2>1 DEF NewsInv, IdsInv
    <2> QED BY <1>2, <2>1, <2>3, <2>4, <2>5, <2>6 DEF NewsInv, IdsInv
  <1>16. StoredInv'
    <2>1. \A q \in NoticeRules : \A id \in NewsOf(q)' : id = made + 1 \/ id \in NewsOf(q)
      BY <1>13
    <2>2. Unstored' = Unstored
      BY <1>2 DEF Unstored
    <2>3. ~(announced[made + 1] > 0)
      BY <1>14
    <2> QED BY <1>2, <1>9, <1>14, <2>1, <2>2, <2>3 DEF NewsInv, StoredInv
  <1>17. NewsIsToldOnce'
    BY <1>2 DEF NewsInv, NewsIsToldOnce
  <1> QED
    BY <1>11, <1>12, <1>15, <1>16, <1>17 DEF NewsInv

\* A scan reads the ring of one more rule.
LEMMA LedgerReadKeepsNews ==
    ASSUME NewsInv, NEW r \in left.rules, LedgerRead(r)
    PROVE  NewsInv'
  <1>1. /\ noteScan.phase = "ledgers" /\ r \in noteScan.todo /\ r \in NoticeRules
        /\ noteScan.presented = {} /\ DOMAIN noteScan.ledgers \subseteq NoticeRules
        /\ noteScan.todo \subseteq NoticeRules /\ noteScan = ScanFields(noteScan)
    BY DEF LedgerRead, InTurn, NewsInv, NoticeTypes, ScanInv
  <1>2. PICK got : got = [x \in DOMAIN noteScan.ledgers \union {r} |->
                              IF x = r THEN rings[r] ELSE noteScan.ledgers[x]]
    OBVIOUS
  <1>3. noteScan' = [noteScan EXCEPT !.todo = @ \ {r}, !.ledgers = got]
    BY <1>2 DEF LedgerRead
  <1>4. /\ noteScan'.phase = "ledgers" /\ noteScan'.presented = {} /\ noteScan'.ledgers = got
        /\ noteScan'.todo = noteScan.todo \ {r} /\ noteScan' = ScanFields(noteScan')
    BY <1>1, <1>3 DEF ScanFields
  <1>5. UNCHANGED <<rings, made, left, now, seenStore, announced, shown, upset>>
    BY DEF LedgerRead, chainVars, newsVars, noteVars
  <1>6. /\ DOMAIN got = DOMAIN noteScan.ledgers \union {r} /\ got[r] = rings[r]
        /\ \A q \in DOMAIN noteScan.ledgers : q # r => got[q] = noteScan.ledgers[q]
    BY <1>2
  <1>7. /\ ReadOf(r)' = OnIt(r) /\ \A q : OnIt(q)' = OnIt(q)
        /\ \A q : q # r => ReadOf(q)' = ReadOf(q)
    BY <1>4, <1>5, <1>6 DEF ReadOf, OnIt
  <1>8. \A q : NewsOf(q)' \subseteq NewsOf(q)
    BY <1>7 DEF NewsOf
  <1>9. NoticeTypes'
    BY <1>1, <1>4, <1>5, <1>6 DEF NewsInv, NoticeTypes
  <1>10. ScanInv'
    BY <1>4 DEF ScanInv
  <1>11. IdsInv'
    <2>1. \A q \in DOMAIN noteScan'.ledgers : \A id \in OnIt(q)' \ ReadOf(q)' :
              announced'[id] = 0 /\ id \notin seenStore'[q].ids /\ id \notin upset'.old
      BY <1>4, <1>5, <1>6, <1>7 DEF NewsInv, IdsInv
    <2> QED BY <1>5, <1>8, <2>1 DEF NewsInv, IdsInv
  <1>12. StoredInv'
    BY <1>1, <1>5, <1>8 DEF NewsInv, StoredInv
  <1>13. NewsIsToldOnce'
    BY <1>5 DEF NewsInv, NewsIsToldOnce
  <1> QED
    BY <1>9, <1>10, <1>11, <1>12, <1>13 DEF NewsInv

\* What is announced next was neither stored nor announced, unless that was forgotten.
LEMMA PresentKeepsNews == ASSUME NewsInv, Present PROVE NewsInv'
  <1>1. /\ noteScan.phase = "present" /\ DOMAIN noteScan.news = DOMAIN noteScan.ledgers
        /\ DOMAIN noteScan.ledgers \subseteq NoticeRules
        /\ noteScan = ScanFields(noteScan)
    BY DEF Present, NewsInv, NoticeTypes, ScanInv
  <1>2. PICK r, id :
            LET next == [noteScan EXCEPT !.news[r] = @ \ {id}, !.presented = @ \union {id}] IN
            /\ r \in DOMAIN noteScan.news /\ id \in noteScan.news[r]
            /\ noteScan' = IF NoNews(next.news) THEN Saving(next) ELSE next
            /\ announced' = [announced EXCEPT ![id] = @ + 1]
    BY DEF Present
  <1>3. UNCHANGED <<rings, made, left, now, seenStore, shown, upset>>
    BY DEF Present, chainVars, noteVars
  <1>4. /\ r \in NoticeRules /\ id \in ReadOf(r) /\ id \in NewsOf(r) /\ seenStore[r].known
        /\ id \notin seenStore[r].ids /\ id \notin noteScan.presented /\ id \in DecisionIds
    <2>1. /\ r \in NoticeRules /\ id \in ReadOf(r) /\ id \in NewsOf(r) /\ seenStore[r].known
          /\ id \notin seenStore[r].ids /\ id \notin noteScan.presented
      BY <1>1, <1>2 DEF NewsInv, ScanInv, NewsOf
    <2>2. id \in 1 .. made /\ 1 .. made \subseteq DecisionIds
      BY <2>1 DEF NewsInv, IdsInv, NoticeTypes, Budget
    <2> QED BY <2>1, <2>2
  <1>5. id \notin upset.old /\ (announced[id] = 0 \/ id \in upset.news)
    <2>1. announced[id] \in Nat
      BY <1>4 DEF NewsInv, NoticeTypes
    <2> QED BY <1>4, <2>1 DEF NewsInv, StoredInv
  <1>6. PICK left1 : left1 = [noteScan.news EXCEPT ![r] = @ \ {id}]
    OBVIOUS
  <1>7. PICK next : next = [noteScan EXCEPT !.news = left1, !.presented = @ \union {id}]
    OBVIOUS
  <1>8. next = [noteScan EXCEPT !.news[r] = @ \ {id}, !.presented = @ \union {id}]
    BY <1>1, <1>6, <1>7 DEF ScanFields
  <1>9. /\ next = ScanFields(next) /\ next.phase = "present" /\ next.todo = noteScan.todo
        /\ next.ledgers = noteScan.ledgers /\ next.news = left1
        /\ next.presented = noteScan.presented \union {id}
    BY <1>1, <1>7 DEF ScanFields
  <1>10. noteScan' = next \/ noteScan' = Saving(next)
    BY <1>2, <1>8
  <1>11. /\ noteScan'.ledgers = noteScan.ledgers /\ noteScan'.presented = noteScan.presented \union {id}
         /\ noteScan' = ScanFields(noteScan')
         /\ \/ noteScan'.phase = "present" /\ noteScan'.news = left1 /\ noteScan'.todo = noteScan.todo
            \/ noteScan'.phase = "save" /\ noteScan'.todo = DOMAIN noteScan.ledgers
    BY <1>9, <1>10 DEF Saving, ScanFields
  <1>12. Unstored = DOMAIN noteScan.ledgers /\ Unstored' = DOMAIN noteScan.ledgers
    BY <1>1, <1>11 DEF Unstored
  <1>13. \A q : OnIt(q)' = OnIt(q) /\ ReadOf(q)' = ReadOf(q) /\ NewsOf(q)' = NewsOf(q)
    BY <1>3, <1>11 DEF OnIt, ReadOf, NewsOf
  <1>14. /\ announced' \in [DecisionIds -> Nat] /\ announced'[id] = announced[id] + 1
         /\ \A x \in DecisionIds : x # id => announced'[x] = announced[x]
         /\ \A x : x # id /\ x \in 1 .. made => announced'[x] = announced[x]
    <2>1. announced \in [DecisionIds -> Nat] /\ 1 .. made \subseteq DecisionIds
      BY DEF NewsInv, NoticeTypes, Budget
    <2> QED BY <1>2, <1>4, <2>1
  <1>15. \A q \in NoticeRules : id \in NewsOf(q) => q = r
    BY <1>4 DEF NewsInv, IdsInv
  <1>16. NoticeTypes'
    BY <1>1, <1>3, <1>11, <1>14 DEF NewsInv, NoticeTypes
  <1>17. ScanInv'
    <2>1. CASE noteScan'.phase = "save"
      BY <1>11, <2>1 DEF ScanInv
    <2>2. CASE noteScan'.phase = "present"
      <3>1. noteScan'.news = left1
        BY <1>11, <2>2
      <3>2. DOMAIN left1 = DOMAIN noteScan.news
        BY <1>6
      <3>3. \A q \in DOMAIN left1 : left1[q] = IF q = r THEN noteScan.news[r] \ {id} ELSE noteScan.news[q]
        BY <1>2, <1>6
      <3>4. ASSUME NEW q \in DOMAIN noteScan'.news
            PROVE  /\ noteScan'.news[q] \subseteq ReadOf(q)'
                   /\ noteScan'.news[q] # {} => seenStore'[q].known
                   /\ noteScan'.news[q] \intersect (seenStore'[q].ids \union noteScan'.presented) = {}
        <4>1. /\ noteScan.news[q] \subseteq ReadOf(q)
              /\ noteScan.news[q] # {} => seenStore[q].known
              /\ noteScan.news[q] \intersect (seenStore[q].ids \union noteScan.presented) = {}
          BY <1>1, <3>1, <3>2, <3>4 DEF NewsInv, ScanInv
        <4>2. id \notin noteScan'.news[q]
          <5>1. CASE q = r
            BY <3>1, <3>2, <3>3, <3>4, <5>1
          <5>2. CASE q # r
            <6>1. id \notin ReadOf(q)
              BY <1>1, <1>15, <3>1, <3>2, <3>4, <5>2 DEF NewsOf
            <6> QED BY <3>1, <3>2, <3>3, <3>4, <4>1, <5>2, <6>1
          <5> QED BY <5>1, <5>2
        <4>3. noteScan'.news[q] \subseteq noteScan.news[q]
          BY <3>1, <3>2, <3>3, <3>4
        <4> QED BY <1>3, <1>11, <1>13, <4>1, <4>2, <4>3
      <3> QED BY <1>1, <1>11, <2>2, <3>1, <3>2, <3>4 DEF ScanInv
    <2> QED BY <1>11, <2>1, <2>2
  <1>18. IdsInv'
    <2>1. \A q \in DOMAIN noteScan'.ledgers : \A x \in OnIt(q)' \ ReadOf(q)' :
              announced'[x] = 0 /\ x \notin seenStore'[q].ids /\ x \notin upset'.old
      <3>1. ASSUME NEW q \in DOMAIN noteScan.ledgers, NEW x \in OnIt(q) \ ReadOf(q) PROVE x # id /\ x \in 1 .. made
        <4>1. q \in NoticeRules
          BY <1>1
        <4> QED BY <1>4, <1>15, <3>1, <4>1 DEF NewsOf, NewsInv, IdsInv
      <3> QED BY <1>3, <1>11, <1>13, <1>14, <3>1 DEF NewsInv, IdsInv
    <2>2. id \in 1 .. made
      BY <1>4 DEF NewsInv, IdsInv
    <2> QED BY <1>3, <1>13, <1>14, <2>1, <2>2 DEF NewsInv, IdsInv
  <1>19. StoredInv'
    <2>1. ASSUME NEW q \in NoticeRules, NEW x \in NewsOf(q), announced'[x] > 0
          PROVE  /\ seenStore'[q].known
                 /\ \/ x \in upset'.news \/ x \in seenStore'[q].ids
                    \/ q \in Unstored' /\ x \in ReadOf(q)' /\ x \in noteScan'.presented
      <3>1. CASE x = id
        <4>1. q = r
          BY <1>15, <2>1, <3>1
        <4> QED BY <1>1, <1>2, <1>3, <1>4, <1>11, <1>12, <1>13, <3>1, <4>1
      <3>2. CASE x # id
        <4>1. x \in 1 .. made
          BY <2>1 DEF NewsInv, IdsInv
        <4>2. announced[x] > 0
          BY <1>14, <2>1, <3>2, <4>1
        <4> QED BY <1>3, <1>11, <1>12, <1>13, <2>1, <4>2 DEF NewsInv, StoredInv
      <3> QED BY <3>1, <3>2
    <2> QED BY <1>3, <1>13, <2>1 DEF NewsInv, StoredInv
  <1>20. NewsIsToldOnce'
    <2>1. upset.old \subseteq 1 .. made /\ DOMAIN announced = DecisionIds /\ DOMAIN announced' = DecisionIds
      BY <1>14 DEF NewsInv, IdsInv, NoticeTypes
    <2> QED BY <1>3, <1>5, <1>14, <2>1 DEF NewsInv, NewsIsToldOnce
  <1> QED
    BY <1>16, <1>17, <1>18, <1>19, <1>20 DEF NewsInv

\* What is stored of a rule is what it had announced before, or what the phone found on it when
\* it was first read.
LEMMA SaveKeepsNews == ASSUME NewsInv, NEW r \in left.rules, SaveSeen(r) PROVE NewsInv'
  <1>1. /\ noteScan.phase = "save" /\ r \in noteScan.todo /\ r \in NoticeRules
        /\ r \in DOMAIN noteScan.ledgers /\ DOMAIN noteScan.ledgers \subseteq NoticeRules
        /\ noteScan.todo \subseteq DOMAIN noteScan.ledgers
        /\ noteScan = ScanFields(noteScan)
    BY DEF SaveSeen, NewsInv, NoticeTypes, ScanInv
  <1>2. PICK saved : saved = KeptIds(r, noteScan.ledgers[r], noteScan.presented)
    OBVIOUS
  <1>3. /\ seenStore' = [seenStore EXCEPT ![r] = saved] /\ noteScan' = [noteScan EXCEPT !.todo = @ \ {r}]
        /\ UNCHANGED <<rings, made, left, now, announced, shown>>
        /\ upset' = IF seenStore[r].known THEN upset
                    ELSE [upset EXCEPT !.old = @ \union Ids(noteScan.ledgers[r])]
    BY <1>2 DEF SaveSeen, chainVars, noteVars
  <1>4. ReadOf(r) = Ids(noteScan.ledgers[r])
    BY <1>1 DEF ReadOf
  <1>5. /\ saved.known = TRUE /\ saved.ids \subseteq ReadOf(r) /\ saved = [known |-> saved.known, ids |-> saved.ids]
        /\ ~seenStore[r].known => saved.ids = ReadOf(r)
        /\ seenStore[r].known => \A id \in ReadOf(r) :
              id \in seenStore[r].ids \/ id \in noteScan.presented => id \in saved.ids
    BY <1>2, <1>4 DEF KeptIds
  <1>6. seenStore \in [NoticeRules -> [known : BOOLEAN, ids : SUBSET Nat]]
    BY DEF NewsInv, NoticeTypes
  <1>7. /\ ReadOf(r) \subseteq 1 .. made /\ ReadOf(r) \subseteq NewsOf(r)
        /\ made \in Nat /\ 1 .. made \subseteq DecisionIds
    BY <1>1 DEF NewsInv, IdsInv, NewsOf, NoticeTypes, Budget
  <1>8. /\ seenStore' \in [NoticeRules -> [known : BOOLEAN, ids : SUBSET Nat]]
        /\ seenStore'[r].known /\ seenStore'[r].ids = saved.ids
        /\ \A q \in NoticeRules : q # r => seenStore'[q] = seenStore[q]
    <2>1. saved.ids \subseteq Nat
      BY <1>5, <1>7
    <2>2. saved \in [known : BOOLEAN, ids : SUBSET Nat]
      BY <1>5, <2>1
    <2> QED BY <1>1, <1>3, <1>5, <1>6, <2>2
  <1>9. upset \in [news : SUBSET Nat, days : SUBSET Nat, old : SUBSET Nat, due : SUBSET Nat]
    BY DEF NewsInv, NoticeTypes
  <1>10. /\ upset'.news = upset.news
         /\ upset' \in [news : SUBSET Nat, days : SUBSET Nat, old : SUBSET Nat, due : SUBSET Nat]
         /\ seenStore[r].known => upset'.old = upset.old
         /\ ~seenStore[r].known => upset'.old = upset.old \union ReadOf(r)
    BY <1>3, <1>4, <1>7, <1>9
  <1>11. /\ noteScan' = ScanFields(noteScan') /\ noteScan'.phase = "save"
         /\ noteScan'.todo = noteScan.todo \ {r} /\ noteScan'.ledgers = noteScan.ledgers
         /\ noteScan'.presented = noteScan.presented
    BY <1>1, <1>3 DEF ScanFields
  <1>12. \A q : OnIt(q)' = OnIt(q) /\ ReadOf(q)' = ReadOf(q) /\ NewsOf(q)' = NewsOf(q)
    BY <1>3, <1>11 DEF OnIt, ReadOf, NewsOf
  <1>13. Unstored = noteScan.todo /\ Unstored' = noteScan.todo \ {r}
    BY <1>1, <1>11 DEF Unstored
  <1>14. \A q \in NoticeRules : q # r => ReadOf(r) \intersect NewsOf(q) = {}
    BY <1>1, <1>7 DEF NewsInv, IdsInv
  <1>15. NoticeTypes'
    BY <1>1, <1>3, <1>8, <1>10, <1>11 DEF NewsInv, NoticeTypes
  <1>16. ScanInv'
    BY <1>1, <1>11 DEF ScanInv
  <1>17. ~seenStore[r].known => \A id \in ReadOf(r) : announced[id] = 0
    <2>1. \A id \in ReadOf(r) : announced[id] \in Nat
      BY <1>7 DEF NewsInv, NoticeTypes
    <2> QED BY <1>1, <1>7, <2>1 DEF NewsInv, StoredInv
  <1>18. IdsInv'
    <2>1. \A q \in DOMAIN noteScan'.ledgers : \A id \in OnIt(q)' \ ReadOf(q)' :
              announced'[id] = 0 /\ id \notin seenStore'[q].ids /\ id \notin upset'.old
      <3>1. ASSUME NEW q \in DOMAIN noteScan.ledgers, NEW id \in OnIt(q) \ ReadOf(q)
            PROVE  announced[id] = 0 /\ id \notin seenStore'[q].ids /\ id \notin upset'.old
        <4>1. announced[id] = 0 /\ id \notin seenStore[q].ids /\ id \notin upset.old
          BY <3>1 DEF NewsInv, IdsInv
        <4>2. id \notin ReadOf(r)
          BY <1>1, <1>14, <3>1 DEF NewsOf
        <4>3. q \in NoticeRules
          BY <1>1
        <4> QED BY <1>5, <1>8, <1>10, <4>1, <4>2, <4>3
      <3> QED BY <1>3, <1>11, <1>12, <3>1
    <2>2. \A q \in NoticeRules : NewsOf(q) \union seenStore'[q].ids \subseteq 1 .. made
      BY <1>5, <1>7, <1>8 DEF NewsInv, IdsInv
    <2>3. upset'.old \subseteq 1 .. made
      BY <1>7, <1>10 DEF NewsInv, IdsInv
    <2> QED BY <1>3, <1>12, <2>1, <2>2, <2>3 DEF NewsInv, IdsInv
  <1>19. StoredInv'
    <2>1. ASSUME NEW q \in NoticeRules, NEW id \in NewsOf(q), announced[id] > 0
          PROVE  /\ seenStore'[q].known
                 /\ \/ id \in upset'.news \/ id \in seenStore'[q].ids
                    \/ q \in Unstored' /\ id \in ReadOf(q) /\ id \in noteScan.presented
      <3>1. /\ seenStore[q].known
            /\ \/ id \in upset.news \/ id \in seenStore[q].ids
               \/ q \in Unstored /\ id \in ReadOf(q) /\ id \in noteScan.presented
        BY <2>1 DEF NewsInv, StoredInv
      <3>2. CASE q # r
        BY <1>8, <1>10, <1>13, <2>1, <3>1, <3>2
      <3>3. CASE q = r
        <4>1. id \in ReadOf(r)
          <5>1. id \in OnIt(r) \ ReadOf(r) => announced[id] = 0
            BY <1>1 DEF NewsInv, IdsInv
          <5> QED BY <2>1, <3>3, <5>1 DEF NewsOf
        <4> QED BY <1>5, <1>8, <1>10, <3>1, <3>3, <4>1
      <3> QED BY <3>2, <3>3
    <2>2. ASSUME NEW q \in NoticeRules, NEW id \in NewsOf(q), id \in upset'.old
          PROVE  seenStore'[q].known /\ id \in seenStore'[q].ids
      <3>1. id \in upset.old => seenStore[q].known /\ id \in seenStore[q].ids
        BY <2>2 DEF NewsInv, StoredInv
      <3>2. CASE q # r
        BY <1>8, <1>10, <1>14, <2>2, <3>1, <3>2
      <3>3. CASE q = r /\ id \in upset.old
        <4>1. id \in OnIt(r) \ ReadOf(r) => id \notin upset.old
          BY <1>1 DEF NewsInv, IdsInv
        <4> QED BY <1>5, <1>8, <2>2, <3>1, <3>3, <4>1 DEF NewsOf
      <3>4. CASE q = r /\ id \notin upset.old
        BY <1>5, <1>8, <1>10, <2>2, <3>4
      <3> QED BY <3>2, <3>3, <3>4
    <2> QED BY <1>3, <1>11, <1>12, <2>1, <2>2 DEF StoredInv
  <1>20. NewsIsToldOnce'
    BY <1>3, <1>10, <1>17 DEF NewsInv, NewsIsToldOnce
  <1> QED
    BY <1>15, <1>16, <1>18, <1>19, <1>20 DEF NewsInv

\* A failure spends one of the faults and counts what it makes the phone forget.
LEMMA FaultFields ==
    ASSUME NoticeTypes, NEW unsaved \in SUBSET Nat, Fault(unsaved)
    PROVE  /\ left' \in Budget /\ left'.decisions = left.decisions /\ left'.days = left.days
           /\ left'.rules = left.rules
           /\ upset' \in [news : SUBSET Nat, days : SUBSET Nat, old : SUBSET Nat, due : SUBSET Nat]
           /\ upset'.news = unsaved \union upset.news /\ upset'.old = upset.old
           /\ upset.days \subseteq upset'.days
           /\ {noteScan.phase, form.phase} \intersect {"schedule", "persist"} # {} =>
                now.day \in upset'.days
  <1>1. /\ left.faults > 0 /\ left' = [left EXCEPT !.faults = @ - 1] /\ left \in Budget
        /\ upset \in [news : SUBSET Nat, days : SUBSET Nat, old : SUBSET Nat, due : SUBSET Nat]
        /\ now.day \in Nat
    BY DEF Fault, NoticeTypes
  <1>2. PICK days : days = IF noteScan.phase \in {"schedule", "persist"} \/ form.phase \in {"schedule", "persist"}
                           THEN upset.days \union {now.day} ELSE upset.days
    OBVIOUS
  <1>3. upset' = [upset EXCEPT !.news = unsaved \union @, !.days = days]
    BY <1>2 DEF Fault
  <1>4. days \in SUBSET Nat /\ upset.days \subseteq days
    BY <1>1, <1>2
  <1>5. left' \in Budget /\ left'.decisions = left.decisions /\ left'.days = left.days
        /\ left'.rules = left.rules
    BY <1>1 DEF Budget
  <1> QED
    BY <1>1, <1>2, <1>3, <1>4, <1>5

LEMMA PlainFault ==
    ASSUME NoticeTypes, Fault({})
    PROVE  /\ left' \in Budget /\ left'.decisions = left.decisions /\ left'.days = left.days
           /\ left'.rules = left.rules
           /\ upset' \in [news : SUBSET Nat, days : SUBSET Nat, old : SUBSET Nat, due : SUBSET Nat]
           /\ upset'.news = upset.news /\ upset'.old = upset.old
  <1>1. PICK none : none = {}
    OBVIOUS
  <1>2. none \in SUBSET Nat /\ Fault(none) /\ none \union upset.news = upset.news
    BY <1>1
  <1> QED
    BY <1>2, FaultFields

\* What was announced and not stored are ids.
LEMMA UnsavedIds ==
    ASSUME NewsInv
    PROVE  /\ Unsaved \subseteq Nat
           /\ noteScan.phase \in {"present", "save"} =>
                \A r \in Unstored : ReadOf(r) \intersect noteScan.presented \subseteq Unsaved
  <1>1. \A r \in Unstored : r \in DOMAIN noteScan.ledgers /\ r \in NoticeRules
    <2>1. DOMAIN noteScan.ledgers \subseteq NoticeRules
      BY DEF NewsInv, NoticeTypes
    <2> QED BY <2>1 DEF NewsInv, ScanInv, Unstored
  <1>2. \A r \in Unstored : ReadOf(r) = Ids(noteScan.ledgers[r])
    BY <1>1 DEF ReadOf
  <1>3. Unsaved = UNION {{id \in Ids(noteScan.ledgers[r]) : id \in noteScan.presented} : r \in Unstored}
    BY DEF Unsaved, Unstored
  <1>4. \A r \in Unstored : ReadOf(r) \subseteq Nat
    <2>1. made \in Nat
      BY DEF NewsInv, NoticeTypes
    <2> QED BY <1>1, <2>1 DEF NewsInv, IdsInv, NewsOf
  <1> QED
    BY <1>2, <1>3, <1>4

\* Steps that do not touch the scan's news.
LEMMA NewsAside ==
    ASSUME NewsInv, NoticeTypes', UNCHANGED <<rings, made, seenStore, announced, noteScan>>,
           upset'.old = upset.old, upset.news \subseteq upset'.news
    PROVE  NewsInv'
  <1>1. ScanInv'
    BY DEF NewsInv, ScanInv, ReadOf
  <1>2. Unstored' = Unstored /\ \A r : ReadOf(r)' = ReadOf(r)
    BY DEF Unstored, ReadOf
  <1>3. \A r \in Unstored : r \in DOMAIN noteScan.ledgers
    BY DEF Unstored, NewsInv, ScanInv
  <1> QED
    BY <1>1, <1>2, <1>3, NewsKept

\* A scan that is over has read nothing.
LEMMA NoScanFields ==
    /\ NoScan = ScanFields(NoScan) /\ NoScan.phase = "off" /\ DOMAIN NoScan.ledgers = {}
    /\ NoScan.todo = {} /\ NoScan.presented = {}
  BY DEF NoScan, ScanFields

\* A scan begins, or ends, with nothing read.
LEMMA NewsOver ==
    ASSUME NewsInv, NoticeTypes', UNCHANGED <<rings, made, seenStore, announced>>,
           noteScan'.phase \in {"off", "ledgers", "schedule", "persist"},
           DOMAIN noteScan'.ledgers = {}, noteScan'.presented = {},
           upset'.old = upset.old, upset.news \subseteq upset'.news,
           Unstored = {} \/ noteScan.presented = {} \/ Unsaved \subseteq upset'.news
    PROVE  NewsInv'
  <1>1. ScanInv'
    BY DEF ScanInv
  <1>2. \A r \in Unstored : \A id \in ReadOf(r) \intersect noteScan.presented : id \in upset'.news
    <2>1. CASE Unstored = {} \/ noteScan.presented = {}
      BY <2>1
    <2>2. CASE noteScan.phase \in {"present", "save"} /\ Unsaved \subseteq upset'.news
      BY <2>2, UnsavedIds
    <2>3. noteScan.phase \notin {"present", "save"} => noteScan.presented = {}
      BY DEF NewsInv, ScanInv
    <2> QED BY <2>1, <2>2, <2>3
  <1> QED
    BY <1>1, <1>2, NewsKept

LEMMA ScanKeepsNews ==
    ASSUME NewsInv,
           \/ ScanBegins \/ PlanNews \/ PlanNote \/ ScanSchedules \/ ScanPersists
           \/ (\E r \in left.rules : LedgerUnread(r)) \/ PresentFails \/ SaveFails \/ Killed
    PROVE  NewsInv'
  <1>1. /\ noteScan = ScanFields(noteScan) /\ DOMAIN noteScan.ledgers \subseteq NoticeRules
        /\ noteScan.todo \subseteq NoticeRules /\ left \in Budget /\ NoticeTypes
        /\ upset \in [news : SUBSET Nat, days : SUBSET Nat, old : SUBSET Nat, due : SUBSET Nat]
        /\ now.day \in Nat /\ left.rules \subseteq NoticeRules
    BY DEF NewsInv, NoticeTypes, Budget
  <1>2. CASE ScanBegins
    <2>1. /\ noteScan' = [NoScan EXCEPT !.phase = "ledgers", !.todo = left.rules]
          /\ noteScan = NoScan
          /\ UNCHANGED <<rings, made, now, seenStore, announced, shown, left, upset>>
      BY <1>2 DEF ScanBegins, chainVars, newsVars, noteVars
    <2>2. /\ noteScan' = ScanFields(noteScan') /\ noteScan'.phase = "ledgers"
          /\ noteScan'.todo = left.rules /\ DOMAIN noteScan'.ledgers = {} /\ noteScan'.presented = {}
      BY <2>1, NoScanFields DEF ScanFields
    <2>3. NoticeTypes'
      BY <1>1, <2>1, <2>2 DEF NoticeTypes
    <2> QED BY <2>1, <2>2, <2>3, NewsOver, NoScanFields
  <1>3. CASE PlanNews
    <2>1. PICK news : news = News(noteScan.ledgers)
      OBVIOUS
    <2>2. /\ noteScan.phase = "ledgers" /\ noteScan.todo = {} /\ noteScan.presented = {}
          /\ noteScan' = IF NoNews(news) THEN Saving(noteScan)
                         ELSE [noteScan EXCEPT !.phase = "present", !.news = news]
          /\ UNCHANGED <<rings, made, now, seenStore, announced, shown, left, upset>>
      BY <1>3, <2>1 DEF PlanNews, chainVars, newsVars, noteVars, NewsInv, ScanInv
    <2>3. /\ noteScan' = ScanFields(noteScan') /\ noteScan'.ledgers = noteScan.ledgers
          /\ noteScan'.presented = {}
          /\ \/ noteScan'.phase = "save" /\ noteScan'.todo = DOMAIN noteScan.ledgers
             \/ noteScan'.phase = "present" /\ noteScan'.todo = {} /\ noteScan'.news = news
      BY <1>1, <2>2 DEF Saving, ScanFields
    <2>4. NoticeTypes'
      BY <1>1, <2>2, <2>3 DEF NoticeTypes
    <2>5. /\ DOMAIN news = DOMAIN noteScan.ledgers
          /\ \A r \in DOMAIN news :
                /\ news[r] \subseteq ReadOf(r) /\ (news[r] # {} => seenStore[r].known)
                /\ news[r] \intersect seenStore[r].ids = {}
      BY <2>1 DEF News, ReadOf
    <2>6. \A r : ReadOf(r)' = ReadOf(r)
      BY <2>3 DEF ReadOf
    <2>7. ScanInv'
      BY <2>2, <2>3, <2>5, <2>6 DEF ScanInv
    <2> QED BY <2>2, <2>3, <2>4, <2>7, NewsKept
  <1>4. CASE PlanNote
    <2>1. /\ noteScan.phase = "save" /\ noteScan.todo = {}
          /\ UNCHANGED <<rings, made, now, seenStore, announced, shown, left>>
          /\ upset' = upset \/ upset' = [upset EXCEPT !.days = @ \union {now.day}]
      BY <1>4 DEF PlanNote, chainVars, newsVars, noteVars
    <2>2. PICK plan : plan = PlanQuietNote(noteStore, QuietRuleFor(noteScan.ledgers), TRUE)
      OBVIOUS
    <2>3. noteScan' = IF noteScan.failed THEN NoScan ELSE [NoScan EXCEPT !.phase = "schedule", !.plan = plan]
      BY <1>4, <2>2 DEF PlanNote
    <2>4. /\ noteScan' = ScanFields(noteScan') /\ noteScan'.phase \in {"off", "schedule"}
          /\ noteScan'.todo = {} /\ DOMAIN noteScan'.ledgers = {} /\ noteScan'.presented = {}
      BY <2>3, NoScanFields DEF ScanFields
    <2>5. /\ upset'.old = upset.old /\ upset'.news = upset.news
          /\ upset' \in [news : SUBSET Nat, days : SUBSET Nat, old : SUBSET Nat, due : SUBSET Nat]
      BY <1>1, <2>1
    <2>6. NoticeTypes'
      BY <1>1, <2>1, <2>4, <2>5 DEF NoticeTypes
    <2>7. Unstored = {}
      BY <2>1 DEF Unstored
    <2> QED BY <2>1, <2>4, <2>5, <2>6, <2>7, NewsOver
  <1>5. CASE ScanSchedules \/ ScanPersists
    <2>1. /\ noteScan.phase \in {"schedule", "persist"} /\ DOMAIN noteScan.ledgers = {}
          /\ noteScan.presented = {}
          /\ UNCHANGED <<rings, made, now, seenStore, announced, left, upset>>
      BY <1>5 DEF ScanSchedules, ScanPersists, chainVars, newsVars, NewsInv, ScanInv
    <2>2. noteScan' = NoScan \/ noteScan' = [noteScan EXCEPT !.phase = "persist"]
      BY <1>5 DEF ScanSchedules, ScanPersists
    <2>3. /\ noteScan' = ScanFields(noteScan') /\ noteScan'.phase \in {"off", "persist"}
          /\ noteScan'.todo \subseteq NoticeRules /\ DOMAIN noteScan'.ledgers = {} /\ noteScan'.presented = {}
      BY <1>1, <2>1, <2>2, NoScanFields DEF ScanFields
    <2>4. shown' = shown \/ shown' = [shown EXCEPT ![now.day] = @ + 1]
      BY <1>5 DEF ScanSchedules, ScanPersists, Schedules
    <2>5. shown' \in [1 .. now.day + left.days -> Nat]
      BY <1>1, <2>4 DEF NoticeTypes
    <2>6. NoticeTypes'
      BY <1>1, <2>1, <2>3, <2>5 DEF NoticeTypes
    <2> QED BY <2>1, <2>3, <2>6, NewsOver
  <1>6. CASE \E r \in left.rules : LedgerUnread(r)
    <2>1. /\ noteScan.phase = "ledgers" /\ noteScan.presented = {} /\ Fault({})
          /\ UNCHANGED <<rings, made, now, seenStore, announced, shown>>
      BY <1>6 DEF LedgerUnread, chainVars, newsVars, noteVars, NewsInv, ScanInv
    <2>2. PICK todo \in SUBSET noteScan.todo : noteScan' = [noteScan EXCEPT !.todo = todo]
      <3>1. PICK r \in left.rules : \/ noteScan' = [noteScan EXCEPT !.todo = @ \ {r}]
                                    \/ noteScan' = [noteScan EXCEPT !.todo = {}]
        BY <1>6 DEF LedgerUnread
      <3> QED BY <3>1
    <2>3. /\ noteScan' = ScanFields(noteScan') /\ noteScan'.ledgers = noteScan.ledgers
          /\ noteScan'.phase = "ledgers" /\ noteScan'.presented = {} /\ noteScan'.todo \subseteq NoticeRules
      BY <1>1, <2>1, <2>2 DEF ScanFields
    <2>4. /\ left' \in Budget /\ left'.decisions = left.decisions /\ left'.days = left.days
          /\ upset' \in [news : SUBSET Nat, days : SUBSET Nat, old : SUBSET Nat, due : SUBSET Nat]
          /\ upset'.news = upset.news /\ upset'.old = upset.old
      BY <1>1, <2>1, PlainFault
    <2>5. NoticeTypes'
      BY <1>1, <2>1, <2>3, <2>4 DEF NoticeTypes
    <2>6. ScanInv'
      BY <2>3 DEF ScanInv
    <2> QED BY <2>1, <2>3, <2>4, <2>5, <2>6, NewsKept
  <1>7. CASE PresentFails
    <2>1. /\ noteScan.phase = "present" /\ Fault({})
          /\ noteScan' = Saving([noteScan EXCEPT !.failed = TRUE])
          /\ UNCHANGED <<rings, made, now, seenStore, announced, shown>>
      BY <1>7 DEF PresentFails, chainVars, newsVars, noteVars
    <2>2. /\ noteScan' = ScanFields(noteScan') /\ noteScan'.ledgers = noteScan.ledgers
          /\ noteScan'.phase = "save" /\ noteScan'.presented = noteScan.presented
          /\ noteScan'.todo = DOMAIN noteScan.ledgers
      BY <1>1, <2>1 DEF Saving, ScanFields
    <2>3. /\ left' \in Budget /\ left'.decisions = left.decisions /\ left'.days = left.days
          /\ upset' \in [news : SUBSET Nat, days : SUBSET Nat, old : SUBSET Nat, due : SUBSET Nat]
          /\ upset'.news = upset.news /\ upset'.old = upset.old
      BY <1>1, <2>1, PlainFault
    <2>4. NoticeTypes'
      BY <1>1, <2>1, <2>2, <2>3 DEF NoticeTypes
    <2>5. ScanInv'
      BY <2>2 DEF ScanInv
    <2>6. Unstored = DOMAIN noteScan.ledgers /\ Unstored' = DOMAIN noteScan.ledgers
      BY <2>1, <2>2 DEF Unstored
    <2> QED BY <2>1, <2>2, <2>3, <2>4, <2>5, <2>6, NewsKept
  <1>8. CASE SaveFails \/ Killed
    <2>1. PICK unsaved : /\ Fault(unsaved)
                         /\ unsaved = Unsaved \/ (unsaved = {} /\ noteScan.phase \notin {"present", "save"})
      BY <1>8 DEF SaveFails, Killed
    <2>2. /\ noteScan' = NoScan /\ UNCHANGED <<rings, made, now, seenStore, announced, shown>>
      BY <1>8 DEF SaveFails, Killed, chainVars, newsVars, noteVars
    <2>3. unsaved \in SUBSET Nat
      BY <2>1, UnsavedIds
    <2>4. /\ left' \in Budget /\ left'.decisions = left.decisions /\ left'.days = left.days
          /\ upset' \in [news : SUBSET Nat, days : SUBSET Nat, old : SUBSET Nat, due : SUBSET Nat]
          /\ upset'.news = unsaved \union upset.news /\ upset'.old = upset.old
      BY <1>1, <2>1, <2>3, FaultFields
    <2>5. NoticeTypes'
      BY <1>1, <2>2, <2>4, NoScanFields DEF NoticeTypes
    <2>6. noteScan.presented = {} \/ Unsaved \subseteq upset'.news
      BY <2>1, <2>4 DEF NewsInv, ScanInv
    <2> QED BY <2>2, <2>4, <2>5, <2>6, NewsOver, NoScanFields
  <1> QED
    BY <1>2, <1>3, <1>4, <1>5, <1>6, <1>7, <1>8

\* The settings screen, alarms, failed lists, the end of a rule and the clock.
LEMMA AsideKeepsNews ==
    ASSUME NewsInv,
           \/ (\E r \in Range(PayRules) : RuleEnds(r)) \/ RulesFail \/ OpenForm \/ CloseForm
           \/ (\E send \in {"every-evening", "moved", "never"}, hour \in {1, 2} : SaveForm(send, hour))
           \/ FormSchedules \/ FormPersists \/ AlarmFires \/ TimePasses \/ UNCHANGED noticeVars
    PROVE  NewsInv'
  <1>1. /\ NoticeTypes /\ left \in Budget /\ now.day \in Nat \ {0} /\ now.period \in Nat
        /\ now = [day |-> now.day, period |-> now.period]
        /\ shown \in [1 .. now.day + left.days -> Nat]
        /\ upset \in [news : SUBSET Nat, days : SUBSET Nat, old : SUBSET Nat, due : SUBSET Nat]
    BY DEF NewsInv, NoticeTypes
  <1>2. UNCHANGED <<rings, made, seenStore, announced, noteScan>>
    BY DEF RuleEnds, RulesFail, OpenForm, CloseForm, SaveForm, FormSchedules, FormPersists, AlarmFires,
           TimePasses, noticeVars, chainVars, newsVars, noteVars
  <1>3. CASE UNCHANGED <<now, left, upset>>
    <2>1. shown' = shown \/ shown' = [shown EXCEPT ![now.day] = @ + 1]
      BY <1>1, <1>3 DEF RuleEnds, RulesFail, Fault, OpenForm, CloseForm, SaveForm, FormSchedules, FormPersists,
            AlarmFires, TimePasses, noticeVars, noteVars, Schedules
    <2>2. shown' \in [1 .. now.day + left.days -> Nat]
      BY <1>1, <2>1
    <2>3. NoticeTypes'
      BY <1>1, <1>2, <1>3, <2>2 DEF NoticeTypes
    <2> QED BY <1>2, <1>3, <2>3, NewsAside
  <1>4. CASE RulesFail
    <2>1. Fault({}) /\ UNCHANGED <<now, shown>>
      BY <1>4 DEF RulesFail, noteVars
    <2>2. /\ left' \in Budget /\ left'.decisions = left.decisions /\ left'.days = left.days
          /\ upset' \in [news : SUBSET Nat, days : SUBSET Nat, old : SUBSET Nat, due : SUBSET Nat]
          /\ upset'.news = upset.news /\ upset'.old = upset.old
      BY <1>1, <2>1, PlainFault
    <2>3. NoticeTypes'
      BY <1>1, <1>2, <2>1, <2>2 DEF NoticeTypes
    <2> QED BY <1>2, <2>2, <2>3, NewsAside
  <1>5. CASE (\E r \in Range(PayRules) : RuleEnds(r))
             \/ \E send \in {"every-evening", "moved", "never"}, hour \in {1, 2} : SaveForm(send, hour)
    <2>1. /\ left.edits > 0 /\ left' = [left EXCEPT !.edits = @ - 1] /\ UNCHANGED <<now, shown>>
          /\ upset' = upset \/ upset' = [upset EXCEPT !.days = @ \union {now.day}]
      BY <1>5 DEF RuleEnds, SaveForm, noteVars
    <2>2. /\ left' \in Budget /\ left'.decisions = left.decisions /\ left'.days = left.days
      <3>1. left \in Budget /\ left.edits > 0 /\ left' = [left EXCEPT !.edits = @ - 1]
        BY <1>1, <2>1
      <3> QED BY <3>1 DEF Budget
    <2>3. /\ upset' \in [news : SUBSET Nat, days : SUBSET Nat, old : SUBSET Nat, due : SUBSET Nat]
          /\ upset'.news = upset.news /\ upset'.old = upset.old
      BY <1>1, <2>1
    <2>4. NoticeTypes'
      BY <1>1, <1>2, <2>1, <2>2, <2>3 DEF NoticeTypes
    <2> QED BY <1>2, <2>3, <2>4, NewsAside
  <1>6. CASE TimePasses
    <2>1. UNCHANGED <<shown, upset>>
      BY <1>6 DEF TimePasses, noteVars
    <2>2. /\ now' = [day |-> now'.day, period |-> now'.period] /\ now'.day \in Nat \ {0} /\ now'.period \in Nat
          /\ left' \in Budget /\ left'.decisions = left.decisions
          /\ now'.day + left'.days = now.day + left.days
      <3>1. CASE now' = [now EXCEPT !.period = @ + 1] /\ UNCHANGED left
        BY <1>1, <3>1
      <3>2. CASE /\ left.days > 0 /\ now' = [day |-> now.day + 1, period |-> 0]
                 /\ left' = [left EXCEPT !.days = @ - 1]
        <4>1. left \in Budget /\ left.days > 0 /\ left' = [left EXCEPT !.days = @ - 1]
          BY <1>1, <3>2
        <4>2. left' \in Budget /\ left'.decisions = left.decisions /\ left'.days = left.days - 1
              /\ left.days \in Nat
          BY <4>1 DEF Budget
        <4>3. now'.day = now.day + 1 /\ now'.period = 0 /\ now' = [day |-> now.day + 1, period |-> 0]
          BY <3>2
        <4>4. PICK d, k : d = now.day /\ k = left.days
          OBVIOUS
        <4>5. d \in Nat \ {0} /\ k \in Nat /\ now'.day = d + 1 /\ left'.days = k - 1
          BY <1>1, <4>2, <4>3, <4>4
        <4>6. now'.day + left'.days = d + k /\ now'.day \in Nat \ {0}
          BY <4>5
        <4> QED BY <4>2, <4>3, <4>4, <4>6
      <3> QED BY <1>6, <3>1, <3>2 DEF TimePasses
    <2>3. NoticeTypes'
      BY <1>1, <1>2, <2>1, <2>2 DEF NoticeTypes
    <2> QED BY <1>2, <2>1, <2>3, NewsAside
  <1>7. UNCHANGED <<now, left, upset>> \/ RulesFail \/ TimePasses
        \/ (\E r \in Range(PayRules) : RuleEnds(r))
        \/ (\E send \in {"every-evening", "moved", "never"}, hour \in {1, 2} : SaveForm(send, hour))
    BY DEF OpenForm, CloseForm, FormSchedules, FormPersists, AlarmFires, noticeVars
  <1> QED
    BY <1>3, <1>4, <1>5, <1>6, <1>7

LEMMA NewsStep == NewsInv /\ [NoticesNext]_noticeVars => NewsInv'
  <1> SUFFICES ASSUME NewsInv, [NoticesNext]_noticeVars PROVE NewsInv'
    OBVIOUS
  <1>1. CASE \E r \in left.rules, kind \in left.kinds : Decide(r, kind)
    BY <1>1, DecideKeepsNews
  <1>2. CASE ScanSteps
    BY <1>2, LedgerReadKeepsNews, PresentKeepsNews, SaveKeepsNews, ScanKeepsNews DEF ScanSteps
  <1>3. CASE ScanBegins \/ (\E r \in left.rules : LedgerUnread(r)) \/ PresentFails \/ SaveFails \/ Killed
    BY <1>3, ScanKeepsNews
  <1>4. CASE \/ (\E r \in Range(PayRules) : RuleEnds(r)) \/ RulesFail \/ OpenForm \/ CloseForm
             \/ (\E send \in {"every-evening", "moved", "never"}, hour \in {1, 2} : SaveForm(send, hour))
             \/ FormSchedules \/ FormPersists \/ AlarmFires \/ TimePasses \/ UNCHANGED noticeVars
    BY <1>4, AsideKeepsNews
  <1> QED
    BY <1>1, <1>2, <1>3, <1>4 DEF NoticesNext

LEMMA NewsInvInit == NoticesInit => NewsInv
  <1> SUFFICES ASSUME NoticesInit PROVE NewsInv
    OBVIOUS
  <1>1. left \in NoticeStories /\ left \in Budget
    BY NoticeAssumption DEF NoticesInit, Budget, NoticeRules
  <1>2. 1 .. left.decisions \subseteq DecisionIds
    <2>1. PICK S : S = {s.decisions : s \in NoticeStories}
      OBVIOUS
    <2>2. left.decisions \in S /\ S \subseteq Int
      BY <1>1, <2>1, NoticeAssumption
    <2>3. IsFiniteSet(S)
      <3>1. PICK f : f = [s \in NoticeStories |-> s.decisions]
        OBVIOUS
      <3>2. f \in Surjection(NoticeStories, S)
        BY <2>1, <3>1 DEF Surjection
      <3> QED BY <3>2, NoticeAssumption, FS_Surjection
    <2>4. Max(S) \in Int /\ left.decisions <= Max(S)
      BY <2>2, <2>3, Greatest
    <2>5. DecisionIds = 1 .. Max(S)
      BY <2>1 DEF DecisionIds
    <2>6. left.decisions \in Nat
      BY <1>1 DEF Budget
    <2> QED BY <2>4, <2>5, <2>6
  <1>3. \A r \in NoticeRules : OnIt(r) = {} /\ rings[r] = <<>> /\ seenStore[r] = Missing
    BY DEF NoticesInit, OnIt, Ids, Range, NoticeRules
  <1>4. noteScan = NoScan /\ made = 0
    BY DEF NoticesInit
  <1>5. \A r \in NoticeRules : NewsOf(r) = {} /\ seenStore[r].ids = {}
    BY <1>3, <1>4, NoScanFields DEF NewsOf, ReadOf, Missing
  <1>6. \A id \in DecisionIds : announced[id] = 0
    BY DEF NoticesInit
  <1>7. NoticeTypes
    <2>1. rings \in [NoticeRules -> Seq(NoticeRow)]
      <3>1. <<>> \in Seq(NoticeRow)
        OBVIOUS
      <3> QED BY <3>1 DEF NoticesInit, NoticeRules
    <2>2. seenStore \in [NoticeRules -> [known : BOOLEAN, ids : SUBSET Nat]]
      BY DEF NoticesInit, NoticeRules, Missing
    <2>3. shown \in [1 .. now.day + left.days -> Nat] /\ now = [day |-> now.day, period |-> now.period]
          /\ now.day \in Nat \ {0} /\ now.period \in Nat
      BY <1>1 DEF NoticesInit, Budget
    <2>4. announced \in [DecisionIds -> Nat]
          /\ upset \in [news : SUBSET Nat, days : SUBSET Nat, old : SUBSET Nat, due : SUBSET Nat]
      BY DEF NoticesInit
    <2> QED BY <1>1, <1>2, <1>4, <2>1, <2>2, <2>3, <2>4, NoScanFields DEF NoticeTypes, Budget
  <1>8. ScanInv
    BY <1>4, NoScanFields DEF ScanInv
  <1>9. IdsInv /\ StoredInv
    <2>1. upset.old = {} /\ DOMAIN noteScan.ledgers = {}
      BY <1>4, NoScanFields DEF NoticesInit
    <2> QED BY <1>5, <1>6, <2>1 DEF IdsInv, StoredInv
  <1>10. NewsIsToldOnce
    BY <1>6 DEF NewsIsToldOnce, NoticesInit
  <1> QED
    BY <1>7, <1>8, <1>9, <1>10 DEF NewsInv

-----------------------------------------------------------------------------
(* The quiet note: plans                                                   *)

SettingsFields(s) ==
    [enabled |-> s.enabled, send |-> s.send, hour |-> s.hour, lastSent |-> s.lastSent,
     for |-> s.for, body |-> s.body, at |-> s.at]

IsSettings(s) == s = SettingsFields(s) /\ s.enabled \in BOOLEAN /\ {s.hour, s.lastSent, s.for, s.at} \subseteq Nat

IsNotePlan(plan) ==
    /\ plan = [cancel |-> plan.cancel, notes |-> plan.notes, settings |-> plan.settings, persist |-> plan.persist]
    /\ plan.notes \subseteq Nat /\ IsSettings(plan.settings)
    /\ plan.cancel \in BOOLEAN /\ plan.persist \in BOOLEAN

\* What settings say of a note that was shown today, and of an alarm set for today.
Told(s) == s.lastSent = now.day

Expects(s, at) == Told(s) \/ (s.for = now.day /\ s.at <= at)

Today == {a \in alarm : a.day = now.day}

Showing == shown[now.day] > 0 \/ \E a \in alarm : Due(a)

\* The settings account for what was shown and what is set.
Settled(s) ==
    /\ shown[now.day] > 0 => Expects(s, now.period)
    /\ \A a \in Today : Expects(s, a.at)

\* They will, once these notes have been set.
Ready(notes, cancel, s) ==
    /\ Showing => Told(s)
    /\ notes # {} => ~Showing
    /\ 0 \in notes => notes = {0} /\ Told(s)
    /\ \A p \in notes \ {0} : Expects(s, p)
    /\ notes = {} /\ ~cancel => \A a \in Today : Expects(s, a.at)

\* The settings that are stored when a plan has been carried out.
Carried(plan) == IF plan.persist THEN plan.settings ELSE noteStore

\* What planQuietNote decides is one of these.
IsOneOfPlans(plan, s, copy) ==
    \/ plan = NoPlan(s)
    \/ plan = TakeBack(s)
    \/ plan = Plan(TRUE, {}, Unscheduled(s), TRUE)
    \/ plan = Plan(TRUE, {}, [Unscheduled(s) EXCEPT !.enabled = FALSE], TRUE)
    \/ plan = Sent(s, {})
    \/ s.lastSent # now.day /\ s.for # now.day /\ plan = Sent(s, {0})
    \/ /\ s.lastSent # now.day /\ now.period < s.hour
       /\ plan = Plan(TRUE, {s.hour}, [s EXCEPT !.for = now.day, !.body = copy.body, !.at = s.hour], TRUE)

LEMMA PlanCases ==
    ASSUME now.period \in Nat,
           NEW s, IsSettings(s), NEW copy, NEW granted \in BOOLEAN, NEW plan,
           plan = PlanQuietNote(s, copy, granted)
    PROVE  IsOneOfPlans(plan, s, copy)
  <1>1. CASE ~s.enabled \/ s.send = "never"
    BY <1>1 DEF PlanQuietNote, IsSettings, IsOneOfPlans
  <1>2. CASE s.enabled /\ s.send # "never" /\ ~granted
    BY <1>2 DEF PlanQuietNote, IsSettings, IsOneOfPlans
  <1>3. CASE s.enabled /\ s.send # "never" /\ granted
    <2>1. plan = IF copy = NoCopy THEN TakeBack(s)
                 ELSE IF s.lastSent = now.day THEN NoPlan(s)
                 ELSE IF now.period >= s.hour THEN AfterTheHour(s, copy)
                 ELSE BeforeTheHour(s, copy)
      BY <1>3 DEF PlanQuietNote, IsSettings
    <2>2. plan = AfterTheHour(s, copy) =>
              \/ plan = Sent(s, {}) \/ plan = TakeBack(s)
              \/ s.for # now.day /\ plan = Sent(s, {0})
      BY DEF AfterTheHour
    <2>3. plan = BeforeTheHour(s, copy) =>
              \/ plan = TakeBack(s) \/ plan = NoPlan(s)
              \/ plan = Plan(TRUE, {s.hour}, [s EXCEPT !.for = now.day, !.body = copy.body, !.at = s.hour], TRUE)
      BY DEF BeforeTheHour
    <2>4. CASE copy = NoCopy \/ s.lastSent = now.day
      BY <2>1, <2>4 DEF IsOneOfPlans
    <2>5. CASE copy # NoCopy /\ s.lastSent # now.day /\ now.period >= s.hour
      BY <2>1, <2>2, <2>5 DEF IsOneOfPlans
    <2>6. CASE copy # NoCopy /\ s.lastSent # now.day /\ ~(now.period >= s.hour)
      <3>1. plan = BeforeTheHour(s, copy)
        BY <2>1, <2>6
      <3>2. s.hour \in Nat
        BY DEF IsSettings
      <3>3. now.period < s.hour
        BY <2>6, <3>2
      <3> QED BY <2>3, <2>6, <3>1, <3>3 DEF IsOneOfPlans
    <2> QED BY <2>4, <2>5, <2>6
  <1> QED
    BY <1>1, <1>2, <1>3

\* What each of them sets and stores.
LEMMA PlanFields ==
    ASSUME now.day \in Nat \ {0}, now.period \in Nat,
           NEW s, IsSettings(s), NEW copy, NEW granted \in BOOLEAN, NEW plan,
           plan = PlanQuietNote(s, copy, granted)
    PROVE  /\ IsNotePlan(plan)
           /\ ~plan.persist => plan.settings.lastSent = s.lastSent
           /\ \/ /\ plan.notes = {} /\ plan.settings.lastSent = s.lastSent
                 /\ plan.cancel \/ (plan.settings.for = s.for /\ plan.settings.at = s.at)
                    \/ (s.for = 0 /\ plan.settings.for = 0)
              \/ plan.notes = {} /\ plan.settings.lastSent = now.day /\ plan.persist
              \/ /\ plan.notes = {0} /\ plan.settings.lastSent = now.day /\ plan.persist
                 /\ s.lastSent # now.day /\ s.for # now.day
              \/ /\ plan.notes = {s.hour} /\ plan.settings.lastSent = s.lastSent /\ plan.persist
                 /\ plan.settings.for = now.day /\ plan.settings.at = s.hour
                 /\ s.lastSent # now.day /\ now.period < s.hour
  <1>1. PICK u : u = Unscheduled(s)
    OBVIOUS
  <1>2. IsSettings(u) /\ u.lastSent = s.lastSent /\ u.for = 0 /\ u.at = 0
    <2>1. s = SettingsFields(s) /\ s.enabled \in BOOLEAN /\ {s.hour, s.lastSent, s.for, s.at} \subseteq Nat
      BY DEF IsSettings
    <2>2. u = [enabled |-> s.enabled, send |-> s.send, hour |-> s.hour, lastSent |-> s.lastSent,
               for |-> 0, body |-> NoBody, at |-> 0]
      BY <1>1, <2>1 DEF Unscheduled, SettingsFields
    <2> QED BY <2>1, <2>2 DEF IsSettings, SettingsFields
  <1>3. CASE plan = NoPlan(s)
    BY <1>3 DEF NoPlan, Plan, IsNotePlan
  <1>4. CASE plan = TakeBack(s)
    <2>1. plan = Plan(s.for # 0, {}, u, s.for # 0)
      BY <1>1, <1>4 DEF TakeBack
    <2>2. CASE s.for = 0
      <3>1. plan = Plan(FALSE, {}, u, FALSE)
        BY <2>1, <2>2
      <3> QED BY <1>2, <2>2, <3>1 DEF Plan, IsNotePlan
    <2>3. CASE s.for # 0
      <3>1. plan = Plan(TRUE, {}, u, TRUE)
        BY <2>1, <2>3
      <3> QED BY <1>2, <2>3, <3>1 DEF Plan, IsNotePlan
    <2> QED BY <2>2, <2>3
  <1>5. CASE plan = Plan(TRUE, {}, Unscheduled(s), TRUE)
    BY <1>1, <1>2, <1>5 DEF Plan, IsNotePlan
  <1>6. CASE plan = Plan(TRUE, {}, [Unscheduled(s) EXCEPT !.enabled = FALSE], TRUE)
    <2>1. PICK v : v = [u EXCEPT !.enabled = FALSE]
      OBVIOUS
    <2>2. IsSettings(v) /\ v.lastSent = s.lastSent /\ v.for = 0
      BY <1>2, <2>1 DEF IsSettings, SettingsFields
    <2>3. plan = Plan(TRUE, {}, v, TRUE)
      BY <1>1, <1>6, <2>1
    <2> QED BY <2>2, <2>3 DEF Plan, IsNotePlan
  <1>7. PICK v : v = [u EXCEPT !.lastSent = now.day]
    OBVIOUS
  <1>8. IsSettings(v) /\ v.lastSent = now.day
    BY <1>2, <1>7 DEF IsSettings, SettingsFields
  <1>9. \A notes : Sent(s, notes) = Plan(notes # {}, notes, v, TRUE)
    BY <1>1, <1>7 DEF Sent
  <1>10. CASE plan = Sent(s, {})
    <2>1. plan = Plan(FALSE, {}, v, TRUE)
      BY <1>9, <1>10
    <2> QED BY <1>8, <2>1 DEF Plan, IsNotePlan
  <1>11. CASE s.lastSent # now.day /\ s.for # now.day /\ plan = Sent(s, {0})
    <2>1. plan = Plan(TRUE, {0}, v, TRUE)
      BY <1>9, <1>11
    <2>2. /\ plan = [cancel |-> TRUE, notes |-> {0}, settings |-> v, persist |-> TRUE]
          /\ plan.notes = {0} /\ plan.settings = v /\ plan.persist = TRUE /\ plan.cancel = TRUE
      BY <2>1 DEF Plan
    <2>3. IsNotePlan(plan)
      BY <1>8, <2>2 DEF IsNotePlan
    <2> QED BY <1>8, <1>11, <2>2, <2>3
  <1>12. CASE /\ s.lastSent # now.day /\ now.period < s.hour
              /\ plan = Plan(TRUE, {s.hour}, [s EXCEPT !.for = now.day, !.body = copy.body, !.at = s.hour], TRUE)
    <2>1. PICK w : w = [s EXCEPT !.for = now.day, !.body = copy.body, !.at = s.hour]
      OBVIOUS
    <2>2. IsSettings(w) /\ w.lastSent = s.lastSent /\ w.for = now.day /\ w.at = s.hour /\ s.hour \in Nat
      BY <2>1 DEF IsSettings, SettingsFields
    <2>3. plan = Plan(TRUE, {s.hour}, w, TRUE)
      BY <1>12, <2>1
    <2>4. /\ plan = [cancel |-> TRUE, notes |-> {s.hour}, settings |-> w, persist |-> TRUE]
          /\ plan.notes = {s.hour} /\ plan.settings = w /\ plan.persist = TRUE /\ plan.cancel = TRUE
      BY <2>3 DEF Plan
    <2>5. IsNotePlan(plan)
      BY <2>2, <2>4 DEF IsNotePlan
    <2> QED BY <1>12, <2>2, <2>4, <2>5
  <1> QED
    <2>1. IsOneOfPlans(plan, s, copy)
      BY PlanCases
    <2> QED BY <1>3, <1>4, <1>5, <1>6, <1>10, <1>11, <1>12, <2>1 DEF IsOneOfPlans

\* A plan made from settings that account for the day keeps accounting for it, unless it
\* forgets what only an alarm knows.
LEMMA PlanIsReady ==
    ASSUME now.day \in Nat \ {0}, now.period \in Nat, shown[now.day] \in Nat,
           \A a \in alarm : a.at \in Nat /\ a.day \in Nat,
           NEW s, IsSettings(s), Settled(s), NEW copy, NEW granted \in BOOLEAN, NEW plan,
           plan = PlanQuietNote(s, copy, granted),
           s.for = now.day /\ now.period >= s.at => plan.settings.lastSent = now.day
    PROVE  /\ Ready(plan.notes, plan.cancel, plan.settings)
           /\ ~plan.persist => Ready(plan.notes, plan.cancel, s)
  <1>1. {s.hour, s.lastSent, s.for, s.at} \subseteq Nat
    BY DEF IsSettings
  <1>2. Showing => Expects(s, now.period)
    <2>1. ASSUME NEW a \in alarm, Due(a) PROVE Expects(s, now.period)
      <3>1. a \in Today /\ now.period >= a.at /\ a.at \in Nat
        BY <2>1 DEF Due, Today
      <3>2. Expects(s, a.at)
        BY <3>1 DEF Settled
      <3> QED BY <1>1, <3>1, <3>2 DEF Expects
    <2> QED BY <2>1 DEF Showing, Settled
  <1>3. Showing => Told(s) \/ (s.for = now.day /\ plan.settings.lastSent = now.day)
    BY <1>1, <1>2 DEF Expects
  <1>4. \A a \in Today : Expects(s, a.at)
    BY DEF Settled
  <1>5. PICK t, notes, cancel : t = plan.settings /\ notes = plan.notes /\ cancel = plan.cancel
    OBVIOUS
  <1>6. /\ IsSettings(t)
        /\ ~plan.persist => t.lastSent = s.lastSent
        /\ \/ /\ notes = {} /\ t.lastSent = s.lastSent
              /\ cancel \/ (t.for = s.for /\ t.at = s.at) \/ (s.for = 0 /\ t.for = 0)
           \/ notes = {} /\ t.lastSent = now.day /\ plan.persist
           \/ /\ notes = {0} /\ t.lastSent = now.day /\ plan.persist
              /\ s.lastSent # now.day /\ s.for # now.day
           \/ /\ notes = {s.hour} /\ t.lastSent = s.lastSent /\ plan.persist
              /\ t.for = now.day /\ t.at = s.hour
              /\ s.lastSent # now.day /\ now.period < s.hour
    BY <1>5, PlanFields DEF IsNotePlan
  <1>7. Showing => Told(t) /\ (~plan.persist => Told(s))
    BY <1>3, <1>5, <1>6 DEF Told
  <1>8. notes # {} => ~Showing
    BY <1>3, <1>5, <1>6 DEF Told
  <1>9. 0 \in notes => notes = {0} /\ Told(t)
    BY <1>1, <1>6 DEF Told
  <1>10. \A p \in notes \ {0} : Expects(t, p)
    BY <1>1, <1>6 DEF Expects
  <1>11. notes = {} /\ ~cancel => \A a \in Today : Expects(t, a.at)
    <2> SUFFICES ASSUME notes = {}, ~cancel, NEW a \in Today PROVE Expects(t, a.at)
      OBVIOUS
    <2>1. Expects(s, a.at)
      BY <1>4
    <2> QED BY <1>6, <2>1 DEF Expects, Told
  <1>12. Ready(notes, cancel, t)
    BY <1>7, <1>8, <1>9, <1>10, <1>11 DEF Ready
  <1>13. ~plan.persist => Ready(notes, cancel, s)
    <2> SUFFICES ASSUME ~plan.persist PROVE Ready(notes, cancel, s)
      OBVIOUS
    <2>1. notes = {}
      BY <1>6
    <2> QED BY <1>4, <1>7, <2>1 DEF Ready
  <1> QED
    BY <1>5, <1>12, <1>13

-----------------------------------------------------------------------------
(* The quiet note: the day                                                 *)

Mid == {"schedule", "persist"}

ReadyPlan(plan) == Ready(plan.notes, plan.cancel, Carried(plan))

QuietTypes ==
    /\ allowed \in BOOLEAN
    /\ \A a \in alarm : {a.day, a.at} \subseteq Nat /\ a.day <= now.day
    /\ IsSettings(noteStore)
    /\ form = Form(form.phase, form.settings, form.plan)
    /\ form.phase \in {"closed", "open"} \union Mid
    /\ IsSettings(form.settings) /\ IsNotePlan(form.plan) /\ IsNotePlan(noteScan.plan)
    /\ \A d \in DOMAIN shown : d > now.day => shown[d] = 0

\* At most one plan is being carried out; what is stored, or will be when it is carried out,
\* accounts for the note that was shown and the alarm that is set.
TodayInv ==
    /\ ~(noteScan.phase \in Mid /\ form.phase \in Mid)
    /\ shown[now.day] <= 1 /\ (Today # {} => shown[now.day] = 0)
    /\ noteScan.phase \notin Mid /\ form.phase \notin Mid => Settled(noteStore)
    /\ noteScan.phase = "schedule" => ReadyPlan(noteScan.plan)
    /\ form.phase = "schedule" => ReadyPlan(form.plan)
    /\ noteScan.phase = "persist" => Settled(Carried(noteScan.plan))
    /\ form.phase = "persist" => Settled(Carried(form.plan))

QuietInv == QuietTypes /\ OneNoteADay /\ (now.day \notin upset.days => TodayInv)

\* Steps that show, set and store nothing, and neither make a plan nor carry one on.
LEMMA QuietAside ==
    ASSUME QuietInv, QuietTypes', UNCHANGED <<noteStore, alarm, shown, now>>, upset.days \subseteq upset'.days,
           now.day \notin upset'.days =>
              /\ \/ noteScan'.phase = noteScan.phase /\ noteScan'.plan = noteScan.plan
                 \/ noteScan'.phase \notin Mid /\ noteScan.phase \notin Mid
              /\ \/ form'.phase = form.phase /\ form'.plan = form.plan
                 \/ form'.phase \notin Mid /\ form.phase \notin Mid
    PROVE  QuietInv'
  <1>1. OneNoteADay'
    BY DEF QuietInv, OneNoteADay
  <1>2. ASSUME now'.day \notin upset'.days PROVE TodayInv'
    <2>1. TodayInv
      BY <1>2 DEF QuietInv
    <2>2. Today' = Today /\ Showing' = Showing
      BY DEF Today, Showing, Due
    <2>3. Settled(noteStore)' <=> Settled(noteStore)
      BY <2>2 DEF Settled, Expects, Told
    <2>4. noteScan'.plan = noteScan.plan =>
              /\ ReadyPlan(noteScan.plan)' <=> ReadyPlan(noteScan.plan)
              /\ Settled(Carried(noteScan.plan))' <=> Settled(Carried(noteScan.plan))
      BY <2>2 DEF ReadyPlan, Ready, Settled, Expects, Told, Carried
    <2>5. form'.plan = form.plan =>
              /\ ReadyPlan(form.plan)' <=> ReadyPlan(form.plan)
              /\ Settled(Carried(form.plan))' <=> Settled(Carried(form.plan))
      BY <2>2 DEF ReadyPlan, Ready, Settled, Expects, Told, Carried
    <2> QED BY <1>2, <2>1, <2>2, <2>3, <2>4, <2>5 DEF TodayInv, Mid
  <1> QED
    BY <1>1, <1>2 DEF QuietInv

\* Setting the notes of a plan that is ready.
LEMMA ScheduleEffect ==
    ASSUME NoticeTypes, QuietTypes, NEW plan, IsNotePlan(plan), Schedules(plan), now' = now, NEW s
    PROVE  /\ \A a \in alarm' : {a.day, a.at} \subseteq Nat /\ a.day <= now.day
           /\ DOMAIN shown' = DOMAIN shown
           /\ \A d \in DOMAIN shown : d # now.day => shown'[d] = shown[d]
           /\ /\ shown[now.day] <= 1 /\ (Today # {} => shown[now.day] = 0)
              /\ Ready(plan.notes, plan.cancel, s)
              => shown'[now.day] <= 1 /\ (Today' # {} => shown'[now.day] = 0) /\ Settled(s)'
  <1>1. /\ now.day \in Nat \ {0} /\ now.period \in Nat /\ now.day \in DOMAIN shown /\ shown[now.day] \in Nat
        /\ shown \in [DOMAIN shown -> Nat]
    <2>1. left.days \in Nat /\ now.day \in Nat \ {0} /\ shown \in [1 .. now.day + left.days -> Nat]
      BY DEF NoticeTypes, Budget
    <2>2. now.day \in 1 .. now.day + left.days
      BY <2>1
    <2> QED BY <2>1, <2>2 DEF NoticeTypes
  <1>2. PICK notes, cancel : notes = plan.notes /\ cancel = plan.cancel
    OBVIOUS
  <1>3. /\ alarm' = IF notes # {} THEN {[day |-> now.day, at |-> p] : p \in notes \ {0}}
                    ELSE IF cancel THEN {} ELSE alarm
        /\ shown' = IF 0 \in notes /\ allowed THEN [shown EXCEPT ![now.day] = @ + 1] ELSE shown
        /\ notes \subseteq Nat
    BY <1>2 DEF Schedules, IsNotePlan
  <1>4. \A a \in alarm' : {a.day, a.at} \subseteq Nat /\ a.day <= now.day
    <2>1. CASE notes # {}
      BY <1>1, <1>3, <2>1
    <2>2. CASE notes = {}
      BY <1>3, <2>2 DEF QuietTypes
    <2> QED BY <2>1, <2>2
  <1>5. /\ DOMAIN shown' = DOMAIN shown
        /\ \A d \in DOMAIN shown : d # now.day => shown'[d] = shown[d]
        /\ shown'[now.day] <= shown[now.day] + 1
        /\ 0 \notin notes => shown'[now.day] = shown[now.day]
    BY <1>1, <1>3
  <1>6. ASSUME shown[now.day] <= 1, Today # {} => shown[now.day] = 0, Ready(notes, cancel, s)
        PROVE  shown'[now.day] <= 1 /\ (Today' # {} => shown'[now.day] = 0) /\ Settled(s)'
    <2>1. CASE notes = {}
      <3>1. shown' = shown /\ alarm' \subseteq alarm /\ (~cancel => alarm' = alarm) /\ (cancel => alarm' = {})
        BY <1>3, <2>1
      <3>2. Today' \subseteq Today /\ (cancel => Today' = {})
        BY <3>1 DEF Today
      <3>3. shown[now.day] > 0 => Told(s)
        BY <1>6 DEF Ready, Showing
      <3>4. \A a \in Today' : Expects(s, a.at)
        BY <1>6, <2>1, <3>2 DEF Ready
      <3> QED BY <1>6, <3>1, <3>2, <3>3, <3>4 DEF Settled, Expects, Told
    <2>2. CASE 0 \in notes
      <3>1. notes = {0} /\ Told(s) /\ shown[now.day] = 0
        BY <1>1, <1>6, <2>2 DEF Ready, Showing
      <3>2. alarm' = {}
        BY <1>3, <3>1
      <3>3. shown'[now.day] <= 1
        BY <1>5, <3>1
      <3> QED BY <3>1, <3>2, <3>3 DEF Settled, Expects, Told, Today
    <2>3. CASE notes # {} /\ 0 \notin notes
      <3>1. shown' = shown /\ shown[now.day] = 0
        BY <1>1, <1>3, <1>6, <2>3 DEF Ready, Showing
      <3>2. \A a \in alarm' : \E p \in notes \ {0} : a = [day |-> now.day, at |-> p]
        BY <1>3, <2>3
      <3>3. \A a \in alarm' : Expects(s, a.at)
        BY <1>6, <3>2 DEF Ready
      <3> QED BY <3>1, <3>3 DEF Settled, Expects, Told, Today
    <2> QED BY <2>1, <2>2, <2>3
  <1> QED
    BY <1>2, <1>4, <1>5, <1>6

\* The settings and the plan of a phone that has neither.
LEMMA NothingPlanned ==
    /\ IsSettings(DefaultSettings) /\ IsNotePlan(NoPlan(DefaultSettings))
    /\ NoScan.plan = NoPlan(DefaultSettings) /\ NoScan.phase = "off"
  <1>1. IsSettings(DefaultSettings)
    BY DEF DefaultSettings, IsSettings, SettingsFields
  <1>2. PICK s : s = DefaultSettings
    OBVIOUS
  <1>3. IsNotePlan(NoPlan(s))
    BY <1>1, <1>2 DEF NoPlan, Plan, IsNotePlan
  <1> QED
    BY <1>1, <1>2, <1>3 DEF NoScan

\* The scan, or the screen, sets the notes of its plan, and then stores what it decided.
LEMMA QuietCarriesOn ==
    ASSUME NewsInv, QuietInv, ScanSchedules \/ FormSchedules \/ ScanPersists \/ FormPersists
    PROVE  QuietInv'
  <1>1. /\ NoticeTypes /\ QuietTypes /\ noteScan = ScanFields(noteScan)
        /\ form = Form(form.phase, form.settings, form.plan) /\ IsNotePlan(form.plan)
        /\ IsNotePlan(noteScan.plan) /\ IsSettings(form.settings) /\ IsSettings(noteStore)
    BY DEF NewsInv, NoticeTypes, QuietInv, QuietTypes
  <1>0. /\ ScanSchedules \/ ScanPersists => ~FormSchedules /\ ~FormPersists
        /\ ~(ScanSchedules /\ ScanPersists) /\ ~(FormSchedules /\ FormPersists)
    <2>1. ScanSchedules => noteScan.phase = "schedule" /\ noteScan'.phase = "persist"
      BY <1>1 DEF ScanSchedules, ScanFields
    <2>2. ScanPersists => noteScan.phase = "persist" /\ noteScan'.phase = "off"
      BY NoScanFields DEF ScanPersists
    <2>3. FormSchedules => form.phase = "schedule" /\ noteScan' = noteScan
      BY DEF FormSchedules
    <2>4. FormPersists => form.phase = "persist" /\ noteScan' = noteScan
      BY DEF FormPersists
    <2> QED BY <2>1, <2>2, <2>3, <2>4
  <1>2. PICK plan : \/ plan = noteScan.plan /\ (ScanSchedules \/ ScanPersists)
                    \/ plan = form.plan /\ (FormSchedules \/ FormPersists)
    OBVIOUS
  <1>3. IsNotePlan(plan) /\ UNCHANGED <<now, allowed, upset>>
    BY <1>1, <1>2 DEF ScanSchedules, FormSchedules, ScanPersists, FormPersists
  <1>4. PICK s : s = Carried(plan)
    OBVIOUS
  <1>5. IsSettings(s)
    BY <1>1, <1>3, <1>4 DEF Carried, IsNotePlan
  <1>6. CASE ScanSchedules \/ FormSchedules
    <2>1. Schedules(plan) /\ noteStore' = noteStore
      BY <1>0, <1>2, <1>6 DEF ScanSchedules, FormSchedules
    <2>2. /\ \A a \in alarm' : {a.day, a.at} \subseteq Nat /\ a.day <= now.day
          /\ DOMAIN shown' = DOMAIN shown
          /\ \A d \in DOMAIN shown : d # now.day => shown'[d] = shown[d]
          /\ /\ shown[now.day] <= 1 /\ (Today # {} => shown[now.day] = 0)
             /\ Ready(plan.notes, plan.cancel, s)
             => shown'[now.day] <= 1 /\ (Today' # {} => shown'[now.day] = 0) /\ Settled(s)'
      BY <1>1, <1>3, <2>1, ScheduleEffect
    <2>3. /\ \/ /\ ScanSchedules /\ noteScan.phase = "schedule" /\ plan = noteScan.plan
                /\ noteScan'.phase = "persist" /\ noteScan'.plan = noteScan.plan /\ form' = form
             \/ /\ FormSchedules /\ form.phase = "schedule" /\ plan = form.plan
                /\ form'.phase = "persist" /\ form'.plan = form.plan /\ noteScan' = noteScan
          /\ IsNotePlan(noteScan'.plan) /\ IsNotePlan(form'.plan) /\ IsSettings(form'.settings)
          /\ form' = Form(form'.phase, form'.settings, form'.plan)
          /\ form'.phase \in {"closed", "open"} \union Mid
      <3>1. CASE ScanSchedules
        <4>1. noteScan.phase = "schedule" /\ noteScan' = [noteScan EXCEPT !.phase = "persist"] /\ form' = form
          BY <3>1 DEF ScanSchedules
        <4>2. plan = noteScan.plan
          BY <1>0, <1>2, <3>1
        <4>3. noteScan'.phase = "persist" /\ noteScan'.plan = noteScan.plan
          BY <1>1, <4>1 DEF ScanFields
        <4> QED BY <1>1, <3>1, <4>1, <4>2, <4>3 DEF QuietTypes
      <3>2. CASE FormSchedules
        <4>1. form.phase = "schedule" /\ form' = [form EXCEPT !.phase = "persist"] /\ noteScan' = noteScan
          BY <3>2 DEF FormSchedules
        <4>2. plan = form.plan
          BY <1>0, <1>2, <3>2
        <4>3. form'.phase = "persist" /\ form'.plan = form.plan /\ form'.settings = form.settings
              /\ form' = Form(form'.phase, form'.settings, form'.plan)
          BY <1>1, <4>1 DEF Form
        <4> QED BY <1>1, <3>2, <4>1, <4>2, <4>3 DEF Mid
      <3> QED BY <1>6, <3>1, <3>2
    <2>4. QuietTypes'
      <3>1. \A d \in DOMAIN shown' : d > now'.day => shown'[d] = 0
        <4>1. now.day \in Nat
          BY <1>1 DEF NoticeTypes
        <4> QED BY <1>1, <1>3, <2>2, <4>1 DEF QuietTypes
      <3> QED BY <1>1, <1>3, <2>1, <2>2, <2>3, <3>1 DEF QuietTypes
    <2>5. ASSUME now'.day \notin upset'.days PROVE TodayInv'
      <3>1. TodayInv
        BY <1>3, <2>5 DEF QuietInv
      <3>2. ReadyPlan(plan)
        BY <2>3, <3>1 DEF TodayInv
      <3>3. shown'[now.day] <= 1 /\ (Today' # {} => shown'[now.day] = 0) /\ Settled(s)'
        BY <1>4, <2>2, <3>1, <3>2 DEF TodayInv, ReadyPlan
      <3>4. Carried(plan)' = s
        BY <1>4, <2>1 DEF Carried
      <3>5. CASE ScanSchedules
        <4>1. noteScan'.plan = plan /\ noteScan'.phase = "persist" /\ form'.phase \notin Mid
          <5>1. noteScan.phase = "schedule"
            BY <3>5 DEF ScanSchedules
          <5>2. form.phase \notin Mid /\ form' = form
            BY <3>1, <3>5, <5>1 DEF TodayInv, Mid, ScanSchedules
          <5>3. ~FormSchedules
            BY <5>2 DEF FormSchedules, Mid
          <5> QED BY <2>3, <5>2, <5>3
        <4>2. Carried(noteScan.plan)' = s
          BY <3>4, <4>1 DEF Carried
        <4>3. Settled(Carried(noteScan.plan))'
          BY <3>3, <4>2 DEF Settled, Expects, Told
        <4> QED BY <1>3, <3>3, <4>1, <4>3 DEF TodayInv, Mid
      <3>6. CASE FormSchedules
        <4>1. form'.plan = plan /\ form'.phase = "persist" /\ noteScan'.phase \notin Mid
          <5>1. form.phase = "schedule"
            BY <3>6 DEF FormSchedules
          <5>2. noteScan.phase \notin Mid /\ noteScan' = noteScan
            BY <3>1, <3>6, <5>1 DEF TodayInv, Mid, FormSchedules
          <5>3. ~ScanSchedules
            BY <5>2 DEF ScanSchedules, Mid
          <5> QED BY <2>3, <5>2, <5>3
        <4>2. Carried(form.plan)' = s
          BY <3>4, <4>1 DEF Carried
        <4>3. Settled(Carried(form.plan))'
          BY <3>3, <4>2 DEF Settled, Expects, Told
        <4> QED BY <1>3, <3>3, <4>1, <4>3 DEF TodayInv, Mid
      <3> QED BY <1>6, <3>5, <3>6
    <2>6. OneNoteADay'
      <3>1. CASE now.day \in upset.days
        BY <1>3, <2>2, <3>1 DEF QuietInv, OneNoteADay
      <3>2. CASE now.day \notin upset.days
        <4>1. shown'[now.day] <= 1
          BY <1>3, <2>5, <3>2 DEF TodayInv
        <4> QED BY <1>3, <2>2, <4>1 DEF QuietInv, OneNoteADay
      <3> QED BY <3>1, <3>2
    <2> QED BY <2>4, <2>5, <2>6 DEF QuietInv
  <1>7. CASE ScanPersists \/ FormPersists
    <2>1. noteStore' = s /\ UNCHANGED <<alarm, shown, left>>
      BY <1>0, <1>2, <1>4, <1>7 DEF ScanPersists, FormPersists, Persists, Carried
    <2>2. /\ \/ /\ noteScan.phase = "persist" /\ plan = noteScan.plan
                /\ noteScan'.phase \notin Mid /\ form' = form
             \/ /\ form.phase = "persist" /\ plan = form.plan
                /\ form'.phase \notin Mid /\ noteScan' = noteScan
          /\ IsNotePlan(noteScan'.plan) /\ IsNotePlan(form'.plan) /\ IsSettings(form'.settings)
          /\ form' = Form(form'.phase, form'.settings, form'.plan)
          /\ form'.phase \in {"closed", "open"} \union Mid
      <3>0. IsSettings(DefaultSettings) /\ IsNotePlan(NoPlan(DefaultSettings))
        BY NothingPlanned
      <3>1. CASE ScanPersists
        <4>1. noteScan.phase = "persist" /\ noteScan' = NoScan /\ form' = form
          BY <3>1 DEF ScanPersists
        <4>2. plan = noteScan.plan
          BY <1>0, <1>2, <3>1
        <4>3. noteScan'.phase = "off" /\ noteScan'.plan = NoPlan(DefaultSettings)
          BY <4>1 DEF NoScan
        <4> QED BY <1>1, <3>0, <4>1, <4>2, <4>3 DEF QuietTypes, Mid
      <3>2. CASE FormPersists
        <4>1. form.phase = "persist" /\ noteScan' = noteScan
          BY <3>2 DEF FormPersists
        <4>2. plan = form.plan
          BY <1>0, <1>2, <3>2
        <4>3. form' = Form("closed", DefaultSettings, NoPlan(DefaultSettings))
              \/ form' = Form("open", s, NoPlan(DefaultSettings))
          BY <2>1, <3>2 DEF FormPersists, ClosedForm
        <4>4. /\ form'.phase \in {"closed", "open"} /\ IsSettings(form'.settings) /\ IsNotePlan(form'.plan)
              /\ form' = Form(form'.phase, form'.settings, form'.plan)
          BY <1>5, <3>0, <4>3 DEF Form
        <4> QED BY <1>1, <4>1, <4>2, <4>4 DEF Mid
      <3> QED BY <1>7, <3>1, <3>2
    <2>3. QuietTypes'
      BY <1>1, <1>3, <1>5, <2>1, <2>2 DEF QuietTypes
    <2>4. ASSUME now'.day \notin upset'.days PROVE TodayInv'
      <3>1. TodayInv
        BY <1>3, <2>4 DEF QuietInv
      <3>2. Settled(s)
        BY <1>4, <2>2, <3>1 DEF TodayInv
      <3>3. noteScan'.phase \notin Mid /\ form'.phase \notin Mid
        BY <2>2, <3>1 DEF TodayInv, Mid
      <3>4. Settled(noteStore)'
        BY <1>3, <2>1, <3>2 DEF Settled, Expects, Told, Today
      <3>5. Today' = Today
        BY <1>3, <2>1 DEF Today
      <3> QED BY <1>3, <2>1, <3>1, <3>3, <3>4, <3>5 DEF TodayInv, Mid
    <2>5. OneNoteADay'
      BY <1>3, <2>1 DEF QuietInv, OneNoteADay
    <2> QED BY <2>3, <2>4, <2>5 DEF QuietInv
  <1> QED
    BY <1>6, <1>7

\* The shapes the steps of the day rely on.
LEMMA DayTypes ==
    ASSUME NewsInv, QuietInv
    PROVE  /\ NoticeTypes /\ QuietTypes /\ noteScan = ScanFields(noteScan)
           /\ now.day \in Nat \ {0} /\ now.period \in Nat /\ left.days \in Nat
           /\ DOMAIN shown = 1 .. now.day + left.days
           /\ now.day \in DOMAIN shown /\ shown \in [DOMAIN shown -> Nat]
           /\ \A a \in alarm : a.at \in Nat /\ a.day \in Nat
  <1>1. left.days \in Nat
    BY DEF NewsInv, NoticeTypes, Budget
  <1>2. now.day \in Nat \ {0} /\ now.period \in Nat /\ shown \in [1 .. now.day + left.days -> Nat]
    BY DEF NewsInv, NoticeTypes
  <1>3. now.day \in 1 .. now.day + left.days
    BY <1>1, <1>2
  <1> QED
    BY <1>1, <1>2, <1>3 DEF NewsInv, NoticeTypes, QuietInv, QuietTypes

\* The alarm shows its note, which the settings expect.
LEMMA AlarmKeepsQuiet == ASSUME NewsInv, QuietInv, AlarmFires PROVE QuietInv'
  <1>1. /\ QuietTypes /\ now.day \in Nat \ {0} /\ now.period \in Nat
        /\ now.day \in DOMAIN shown /\ shown \in [DOMAIN shown -> Nat]
        /\ \A a \in alarm : a.at \in Nat /\ a.day \in Nat
    BY DayTypes
  <1>2. PICK b \in alarm : Due(b)
    BY DEF AlarmFires
  <1>3. b \in Today /\ b.at \in Nat /\ now.period >= b.at
    BY <1>1, <1>2 DEF Due, Today
  <1>4. /\ UNCHANGED <<now, allowed, noteStore, noteScan, form, upset>> /\ alarm' = {} /\ Today' = {}
        /\ shown' = shown \/ shown' = [shown EXCEPT ![now.day] = @ + 1]
    BY DEF AlarmFires, Today
  <1>5. /\ DOMAIN shown' = DOMAIN shown /\ shown'[now.day] <= shown[now.day] + 1
        /\ \A d \in DOMAIN shown : d # now.day => shown'[d] = shown[d]
    BY <1>1, <1>4
  <1>6. QuietTypes'
    <2>1. \A d \in DOMAIN shown' : d > now'.day => shown'[d] = 0
      BY <1>1, <1>4, <1>5 DEF QuietTypes
    <2> QED BY <1>1, <1>4, <2>1 DEF QuietTypes
  <1>7. \A s : IsSettings(s) /\ (\A a \in Today : Expects(s, a.at)) => Expects(s, now.period)
    <2> SUFFICES ASSUME NEW s, IsSettings(s), \A a \in Today : Expects(s, a.at) PROVE Expects(s, now.period)
      OBVIOUS
    <2>1. Expects(s, b.at) /\ s.at \in Nat
      BY <1>3 DEF IsSettings
    <2> QED BY <1>1, <1>3, <2>1 DEF Expects
  <1>8. ASSUME now'.day \notin upset'.days PROVE TodayInv'
    <2>1. TodayInv
      BY <1>4, <1>8 DEF QuietInv
    <2>2. shown[now.day] = 0 /\ shown'[now.day] <= 1
      BY <1>1, <1>3, <1>5, <2>1 DEF TodayInv
    <2>3. PICK noted, p, q : noted = noteStore /\ p = noteScan.plan /\ q = form.plan
      OBVIOUS
    <2>4. PICK s, t : s = Carried(p) /\ t = Carried(q)
      OBVIOUS
    <2>5. IsSettings(noted) /\ IsSettings(s) /\ IsSettings(t)
      BY <1>1, <2>3, <2>4 DEF QuietTypes, Carried, IsNotePlan
    <2>6. ASSUME NEW u, IsSettings(u), Settled(u) PROVE Settled(u)'
      <3>1. Expects(u, now.period)
        BY <1>7, <2>6 DEF Settled
      <3> QED BY <1>4, <3>1 DEF Settled, Expects, Told
    <2>7. ASSUME NEW notes, NEW cancel, NEW u, Ready(notes, cancel, u) PROVE Ready(notes, cancel, u)'
      <3>1. Showing
        BY <1>2 DEF Showing
      <3>2. Told(u) /\ notes = {}
        BY <2>7, <3>1 DEF Ready
      <3> QED BY <1>4, <3>2 DEF Ready, Told
    <2>8. PICK pn, pc, qn, qc : pn = p.notes /\ pc = p.cancel /\ qn = q.notes /\ qc = q.cancel
      OBVIOUS
    <2>9. /\ noteScan.phase = "schedule" => Ready(pn, pc, s)
          /\ form.phase = "schedule" => Ready(qn, qc, t)
          /\ noteScan.phase = "persist" => Settled(s)
          /\ form.phase = "persist" => Settled(t)
          /\ noteScan.phase \notin Mid /\ form.phase \notin Mid => Settled(noted)
      BY <2>1, <2>3, <2>4, <2>8 DEF TodayInv, ReadyPlan
    <2>10. /\ noteScan.phase = "schedule" => Ready(pn, pc, s)'
           /\ form.phase = "schedule" => Ready(qn, qc, t)'
           /\ noteScan.phase = "persist" => Settled(s)'
           /\ form.phase = "persist" => Settled(t)'
           /\ noteScan.phase \notin Mid /\ form.phase \notin Mid => Settled(noted)'
      BY <2>5, <2>6, <2>7, <2>9
    <2>11. /\ noteStore' = noted /\ Carried(noteScan.plan)' = s /\ Carried(form.plan)' = t
           /\ noteScan'.plan.notes = pn /\ noteScan'.plan.cancel = pc
           /\ form'.plan.notes = qn /\ form'.plan.cancel = qc
      BY <1>4, <2>3, <2>4, <2>8 DEF Carried
    <2>12. /\ Ready(pn, pc, s)' => ReadyPlan(noteScan.plan)'
           /\ Ready(qn, qc, t)' => ReadyPlan(form.plan)'
           /\ Settled(s)' => Settled(Carried(noteScan.plan))'
           /\ Settled(t)' => Settled(Carried(form.plan))'
           /\ Settled(noted)' => Settled(noteStore)'
      BY <2>11 DEF ReadyPlan, Ready, Settled, Expects, Told
    <2>13. ~(noteScan.phase \in Mid /\ form.phase \in Mid)
      BY <2>1 DEF TodayInv
    <2> QED BY <1>4, <2>2, <2>10, <2>12, <2>13 DEF TodayInv
  <1>9. OneNoteADay'
    <2>1. CASE now.day \in upset.days
      BY <1>4, <1>5, <2>1 DEF QuietInv, OneNoteADay
    <2>2. CASE now.day \notin upset.days
      <3>1. shown'[now.day] <= 1
        BY <1>4, <1>8, <2>2 DEF TodayInv
      <3> QED BY <1>4, <1>5, <3>1 DEF QuietInv, OneNoteADay
    <2> QED BY <2>1, <2>2
  <1> QED
    BY <1>6, <1>8, <1>9 DEF QuietInv

\* Time passes when no plan is being carried out and no alarm is due.
LEMMA TimeKeepsQuiet == ASSUME NewsInv, QuietInv, TimePasses PROVE QuietInv'
  <1>1. /\ QuietTypes /\ now.day \in Nat \ {0} /\ now.period \in Nat /\ left.days \in Nat
        /\ DOMAIN shown = 1 .. now.day + left.days
        /\ now.day \in DOMAIN shown /\ shown \in [DOMAIN shown -> Nat]
        /\ \A a \in alarm : a.at \in Nat /\ a.day \in Nat
        /\ now = [day |-> now.day, period |-> now.period]
    BY DayTypes DEF NoticeTypes
  <1>2. /\ UNCHANGED <<noteStore, alarm, shown, allowed, noteScan, form, upset>>
        /\ noteScan.phase \notin Mid /\ form.phase \notin Mid
    BY DEF TimePasses, noteVars, Mid
  <1>3. OneNoteADay'
    BY <1>2 DEF QuietInv, OneNoteADay
  <1>4. CASE now' = [now EXCEPT !.period = @ + 1]
    <2>1. now'.day = now.day /\ now'.period = now.period + 1
      BY <1>1, <1>4
    <2>2. QuietTypes'
      BY <1>1, <1>2, <2>1 DEF QuietTypes
    <2>3. ASSUME now'.day \notin upset'.days PROVE TodayInv'
      <3>1. TodayInv /\ Settled(noteStore)
        BY <1>2, <2>1, <2>3 DEF QuietInv, TodayInv
      <3>2. PICK s : s = noteStore
        OBVIOUS
      <3>3. IsSettings(s) /\ Settled(s) /\ s.at \in Nat
        BY <1>1, <3>1, <3>2 DEF QuietTypes, IsSettings
      <3>4. Today' = Today
        BY <1>2, <2>1 DEF Today
      <3>5. Settled(s)'
        BY <1>1, <1>2, <2>1, <3>3, <3>4 DEF Settled, Expects, Told
      <3>6. Settled(noteStore)'
        BY <1>2, <3>2, <3>5 DEF Settled, Expects, Told
      <3> QED BY <1>2, <2>1, <3>1, <3>4, <3>6 DEF TodayInv, Mid
    <2> QED BY <1>3, <2>2, <2>3 DEF QuietInv
  <1>5. CASE left.days > 0 /\ now' = [day |-> now.day + 1, period |-> 0]
    <2>1. now'.day = now.day + 1 /\ now'.period = 0
      BY <1>5
    <2>2. PICK d : d = now.day
      OBVIOUS
    <2>3. d \in Nat /\ now'.day = d + 1 /\ d + 1 \in DOMAIN shown /\ d + 1 > d
      BY <1>1, <1>5, <2>1, <2>2
    <2>4. shown[d + 1] = 0
      BY <1>1, <2>2, <2>3 DEF QuietTypes
    <2>5. Today' = {}
      <3>1. \A a \in alarm : a.day \in Nat /\ a.day <= d
        BY <1>1, <2>2 DEF QuietTypes
      <3>2. \A a \in alarm : a.day # d + 1
        BY <2>3, <3>1
      <3> QED BY <1>2, <2>3, <3>2 DEF Today
    <2>6. QuietTypes'
      <3>1. \A a \in alarm : {a.day, a.at} \subseteq Nat /\ a.day <= d + 1
        BY <1>1, <2>2, <2>3 DEF QuietTypes
      <3>2. \A e \in DOMAIN shown : e > d + 1 => shown[e] = 0
        BY <1>1, <2>2, <2>3 DEF QuietTypes
      <3> QED BY <1>1, <1>2, <2>3, <3>1, <3>2 DEF QuietTypes
    <2>7. shown'[now'.day] = 0
      BY <1>2, <2>3, <2>4
    <2>8. Settled(noteStore)'
      BY <2>5, <2>7 DEF Settled
    <2>9. TodayInv'
      BY <1>2, <2>5, <2>7, <2>8 DEF TodayInv, Mid
    <2> QED BY <1>3, <2>6, <2>9 DEF QuietInv
  <1> QED
    BY <1>4, <1>5 DEF TimePasses

\* A scan plans the note from what is stored, which accounts for the day when no one else is
\* about to store something.
LEMMA PlanNoteKeepsQuiet == ASSUME NewsInv, QuietInv, PlanNote PROVE QuietInv'
  <1>1. /\ QuietTypes /\ now.day \in Nat \ {0} /\ now.period \in Nat
        /\ now.day \in DOMAIN shown /\ shown \in [DOMAIN shown -> Nat]
        /\ \A a \in alarm : a.at \in Nat /\ a.day \in Nat
        /\ upset \in [news : SUBSET Nat, days : SUBSET Nat, old : SUBSET Nat, due : SUBSET Nat]
    BY DayTypes DEF NoticeTypes
  <1>2. noteScan.phase = "save" /\ UNCHANGED <<now, allowed, noteStore, alarm, shown, form>>
    BY DEF PlanNote, noteVars
  <1>3. upset.days \subseteq upset'.days
    BY <1>1 DEF PlanNote
  <1>4. CASE noteScan.failed
    <2>1. noteScan' = NoScan
      BY <1>4 DEF PlanNote
    <2>2. IsNotePlan(noteScan'.plan) /\ noteScan'.phase = "off"
      BY <2>1, NothingPlanned
    <2>3. QuietTypes'
      BY <1>1, <1>2, <2>2 DEF QuietTypes
    <2> QED BY <1>2, <1>3, <2>2, <2>3, QuietAside DEF Mid
  <1>5. CASE ~noteScan.failed
    <2>1. PICK s, copy, plan : s = noteStore /\ copy = QuietRuleFor(noteScan.ledgers) /\ plan = PlanQuietNote(s, copy, TRUE)
      OBVIOUS
    <2>2. noteScan' = [NoScan EXCEPT !.phase = "schedule", !.plan = plan]
      BY <1>5, <2>1 DEF PlanNote
    <2>3. noteScan'.phase = "schedule" /\ noteScan'.plan = plan
      BY <2>2 DEF NoScan
    <2>4. IsSettings(s)
      BY <1>1, <2>1 DEF QuietTypes
    <2>5. IsNotePlan(plan)
      BY <1>1, <2>1, <2>4, PlanFields
    <2>6. QuietTypes'
      BY <1>1, <1>2, <2>3, <2>5 DEF QuietTypes
    <2>7. OneNoteADay'
      BY <1>2, <1>3 DEF QuietInv, OneNoteADay
    <2>8. ASSUME now'.day \notin upset'.days PROVE TodayInv'
      <3>1. now.day \notin upset.days
        BY <1>2, <1>3, <2>8
      <3>2. ~Overlooked(plan) /\ form.phase \notin Mid
        BY <1>1, <1>2, <1>5, <2>3, <2>8 DEF PlanNote, Mid
      <3>3. TodayInv /\ Settled(s)
        BY <1>2, <2>1, <3>1, <3>2 DEF QuietInv, TodayInv, Mid
      <3>4. s.for = now.day /\ now.period >= s.at => plan.settings.lastSent = now.day
        BY <2>1, <3>2 DEF Overlooked, OnlyTheAlarmKnows
      <3>5. /\ Ready(plan.notes, plan.cancel, plan.settings)
            /\ ~plan.persist => Ready(plan.notes, plan.cancel, s)
        BY <1>1, <2>1, <2>4, <3>3, <3>4, PlanIsReady
      <3>6. PICK notes, cancel, t : notes = plan.notes /\ cancel = plan.cancel /\ t = IF plan.persist THEN plan.settings ELSE s
        OBVIOUS
      <3>7. Ready(notes, cancel, t)
        BY <3>5, <3>6
      <3>8. Today' = Today /\ Showing' = Showing
        BY <1>2 DEF Today, Showing, Due
      <3>9. Ready(notes, cancel, t)'
        BY <1>2, <3>7, <3>8 DEF Ready, Expects, Told
      <3>10. noteScan'.plan.notes = notes /\ noteScan'.plan.cancel = cancel /\ Carried(noteScan.plan)' = t
        BY <1>2, <2>1, <2>3, <3>6 DEF Carried
      <3>11. ReadyPlan(noteScan.plan)'
        BY <3>9, <3>10 DEF ReadyPlan, Ready, Expects, Told
      <3>12. shown'[now'.day] <= 1 /\ (Today' # {} => shown'[now'.day] = 0)
        BY <1>2, <3>3, <3>8 DEF TodayInv
      <3>13. form'.phase \notin Mid
        BY <1>2, <3>2
      <3> QED BY <2>3, <3>11, <3>12, <3>13 DEF TodayInv, Mid
    <2> QED BY <2>6, <2>7, <2>8 DEF QuietInv
  <1> QED
    BY <1>4, <1>5

\* The screen plans the note from the settings it was given, when they are still the stored ones.
LEMMA SaveFormKeepsQuiet ==
    ASSUME NewsInv, QuietInv, NEW send \in {"every-evening", "moved", "never"}, NEW hour \in {1, 2},
           SaveForm(send, hour)
    PROVE  QuietInv'
  <1>1. /\ QuietTypes /\ now.day \in Nat \ {0} /\ now.period \in Nat
        /\ now.day \in DOMAIN shown /\ shown \in [DOMAIN shown -> Nat]
        /\ \A a \in alarm : a.at \in Nat /\ a.day \in Nat
        /\ upset \in [news : SUBSET Nat, days : SUBSET Nat, old : SUBSET Nat, due : SUBSET Nat]
    BY DayTypes DEF NoticeTypes
  <1>2. form.phase = "open" /\ UNCHANGED <<now, noteStore, alarm, shown, noteScan>>
    BY DEF SaveForm, noteVars
  <1>3. PICK s, copy : s = Chosen(send, hour) /\ copy = QuietRuleFor([r \in {Head(PayRules)} |-> rings[r]])
    OBVIOUS
  <1>4. PICK granted \in BOOLEAN :
            /\ allowed' = (allowed \/ granted)
            /\ form' = Form("schedule", DefaultSettings, Overridden(PlanQuietNote(s, copy, granted)))
    BY <1>1, <1>3 DEF SaveForm, QuietTypes
  <1>5. PICK p, plan : p = PlanQuietNote(s, copy, granted) /\ plan = Overridden(p)
    OBVIOUS
  <1>6. PICK given : given = form.settings
    OBVIOUS
  <1>7. /\ IsSettings(s) /\ s.lastSent = given.lastSent /\ s.for = given.for /\ s.at = given.at
    <2>1. IsSettings(given) /\ s = [given EXCEPT !.enabled = send # "never", !.send = send, !.hour = hour]
      BY <1>1, <1>3, <1>6 DEF QuietTypes, Chosen
    <2>2. (send # "never") \in BOOLEAN /\ hour \in Nat
      OBVIOUS
    <2> QED BY <2>1, <2>2 DEF IsSettings, SettingsFields
  <1>8. IsNotePlan(p)
    BY <1>1, <1>5, <1>7, PlanFields
  <1>9. /\ IsNotePlan(plan) /\ plan.notes = p.notes /\ plan.settings = p.settings /\ plan.persist = TRUE
        /\ p.cancel => plan.cancel
    <2>1. plan = [p EXCEPT !.persist = TRUE, !.cancel = @ \/ ~p.settings.enabled]
      BY <1>5 DEF Overridden
    <2>2. p.settings.enabled \in BOOLEAN
      BY <1>8 DEF IsNotePlan, IsSettings
    <2> QED BY <1>8, <2>1, <2>2 DEF IsNotePlan
  <1>10. form'.phase = "schedule" /\ form'.settings = DefaultSettings /\ form'.plan = plan
         /\ form' = Form(form'.phase, form'.settings, form'.plan)
    BY <1>4, <1>5 DEF Form
  <1>11. QuietTypes'
    <2>1. allowed' \in BOOLEAN
      BY <1>1, <1>4 DEF QuietTypes
    <2> QED BY <1>1, <1>2, <1>9, <1>10, <2>1, NothingPlanned DEF QuietTypes, Mid
  <1>12. upset.days \subseteq upset'.days
    BY <1>1 DEF SaveForm
  <1>13. OneNoteADay'
    BY <1>2, <1>12 DEF QuietInv, OneNoteADay
  <1>14. ASSUME now'.day \notin upset'.days PROVE TodayInv'
    <2>1. now.day \notin upset.days
      BY <1>2, <1>12, <1>14
    <2>2. form.settings = noteStore /\ noteScan.phase \notin Mid /\ ~OnlyTheAlarmKnows
      BY <1>1, <1>2, <1>14 DEF SaveForm, Mid
    <2>3. TodayInv /\ Settled(noteStore)
      BY <1>2, <2>1, <2>2 DEF QuietInv, TodayInv, Mid
    <2>4. Settled(s)
      BY <1>6, <1>7, <2>2, <2>3 DEF Settled, Expects, Told
    <2>5. ~(s.for = now.day /\ now.period >= s.at)
      BY <1>6, <1>7, <2>2 DEF OnlyTheAlarmKnows
    <2>6. Ready(p.notes, p.cancel, p.settings)
      BY <1>1, <1>5, <1>7, <2>4, <2>5, PlanIsReady
    <2>7. PICK notes, cancel, t : notes = plan.notes /\ cancel = plan.cancel /\ t = plan.settings
      OBVIOUS
    <2>8. Ready(notes, cancel, t)
      BY <1>9, <2>6, <2>7 DEF Ready
    <2>9. Today' = Today /\ Showing' = Showing
      BY <1>2 DEF Today, Showing, Due
    <2>10. Ready(notes, cancel, t)'
      BY <1>2, <2>8, <2>9 DEF Ready, Expects, Told
    <2>11. form'.plan.notes = notes /\ form'.plan.cancel = cancel /\ Carried(form.plan)' = t
      BY <1>9, <1>10, <2>7 DEF Carried
    <2>12. ReadyPlan(form.plan)'
      BY <2>10, <2>11 DEF ReadyPlan, Ready, Expects, Told
    <2>13. shown'[now'.day] <= 1 /\ (Today' # {} => shown'[now'.day] = 0)
      BY <1>2, <2>3, <2>9 DEF TodayInv
    <2>14. noteScan'.phase \notin Mid
      BY <1>2, <2>2
    <2> QED BY <1>10, <2>12, <2>13, <2>14 DEF TodayInv, Mid
  <1> QED
    BY <1>11, <1>13, <1>14 DEF QuietInv

\* The steps that leave the note alone.
LEMMA OthersKeepQuiet ==
    ASSUME NewsInv, QuietInv,
           \/ \E r \in left.rules, kind \in left.kinds : Decide(r, kind)
           \/ \E r \in Range(PayRules) : RuleEnds(r)
           \/ ScanBegins \/ RulesFail \/ (\E r \in left.rules : LedgerRead(r) \/ LedgerUnread(r))
           \/ PlanNews \/ Present \/ PresentFails \/ (\E r \in left.rules : SaveSeen(r)) \/ SaveFails
           \/ OpenForm \/ CloseForm \/ Killed \/ UNCHANGED noticeVars
    PROVE  QuietInv'
  <1>1. /\ NoticeTypes /\ QuietTypes /\ noteScan = ScanFields(noteScan)
        /\ upset \in [news : SUBSET Nat, days : SUBSET Nat, old : SUBSET Nat, due : SUBSET Nat]
        /\ NoScan.phase = "off" /\ IsNotePlan(NoScan.plan) /\ IsNotePlan(NoPlan(DefaultSettings))
        /\ IsSettings(DefaultSettings) /\ IsSettings(noteStore)
    BY DayTypes, NothingPlanned DEF NoticeTypes, QuietTypes
  <1>2. UNCHANGED <<noteStore, alarm, shown, now, allowed>>
    BY DEF Decide, RuleEnds, ScanBegins, RulesFail, LedgerRead, LedgerUnread, PlanNews, Present, PresentFails,
           SaveSeen, SaveFails, OpenForm, CloseForm, Killed, noticeVars, noteVars
  <1>3. upset.days \subseteq upset'.days
    <2>1. (\E unsaved : Fault(unsaved)) => upset.days \subseteq upset'.days
      BY <1>1 DEF Fault
    <2> QED BY <1>1, <2>1 DEF Decide, RuleEnds, ScanBegins, RulesFail, LedgerRead, LedgerUnread, PlanNews,
              Present, PresentFails, SaveSeen, SaveFails, OpenForm, CloseForm, Killed, noticeVars
  <1>4. CASE \/ \E r \in left.rules, kind \in left.kinds : Decide(r, kind)
             \/ \E r \in Range(PayRules) : RuleEnds(r)
             \/ RulesFail \/ UNCHANGED noticeVars
    <2>1. UNCHANGED <<noteScan, form>>
      BY <1>4 DEF Decide, RuleEnds, RulesFail, noticeVars
    <2>2. QuietTypes'
      BY <1>1, <1>2, <2>1 DEF QuietTypes
    <2> QED BY <1>2, <1>3, <2>1, <2>2, QuietAside
  <1>5. CASE \/ ScanBegins \/ (\E r \in left.rules : LedgerRead(r) \/ LedgerUnread(r))
             \/ PlanNews \/ Present \/ PresentFails \/ (\E r \in left.rules : SaveSeen(r)) \/ SaveFails
    <2>1. /\ noteScan.phase \notin Mid /\ noteScan'.phase \notin Mid
          /\ noteScan'.plan = noteScan.plan \/ noteScan'.plan = NoScan.plan
      <3>1. CASE ScanBegins \/ SaveFails
        BY <1>1, <3>1 DEF ScanBegins, SaveFails, NoScan, Mid
      <3>2. CASE (\E r \in left.rules : LedgerRead(r) \/ LedgerUnread(r)) \/ (\E r \in left.rules : SaveSeen(r))
        BY <1>1, <3>2 DEF LedgerRead, LedgerUnread, SaveSeen, ScanFields, Mid
      <3>3. CASE PlanNews
        BY <1>1, <3>3 DEF PlanNews, Saving, ScanFields, Mid
      <3>4. CASE PresentFails
        BY <1>1, <3>4 DEF PresentFails, Saving, ScanFields, Mid
      <3>5. CASE Present
        <4>1. PICK r, id : LET next == [noteScan EXCEPT !.news[r] = @ \ {id}, !.presented = @ \union {id}]
                           IN  noteScan' = IF NoNews(next.news) THEN Saving(next) ELSE next
          BY <3>5 DEF Present
        <4>2. PICK next : next = [noteScan EXCEPT !.news[r] = @ \ {id}, !.presented = @ \union {id}]
          OBVIOUS
        <4>3. next = ScanFields(next) /\ next.phase = noteScan.phase /\ next.plan = noteScan.plan
          BY <1>1, <4>2 DEF ScanFields
        <4>4. noteScan' = Saving(next) \/ noteScan' = next
          BY <4>1, <4>2
        <4> QED BY <3>5, <4>3, <4>4 DEF Present, Saving, ScanFields, Mid
      <3> QED BY <1>5, <3>1, <3>2, <3>3, <3>4, <3>5
    <2>2. form' = form
      BY <1>5 DEF ScanBegins, LedgerRead, LedgerUnread, PlanNews, Present, PresentFails, SaveSeen, SaveFails
    <2>3. QuietTypes'
      BY <1>1, <1>2, <2>1, <2>2 DEF QuietTypes
    <2> QED BY <1>2, <1>3, <2>1, <2>2, <2>3, QuietAside
  <1>6. CASE OpenForm \/ CloseForm
    <2>1. /\ noteScan' = noteScan /\ form.phase \in {"closed", "open"}
          /\ form' = Form("open", noteStore, NoPlan(DefaultSettings))
             \/ form' = Form("closed", DefaultSettings, NoPlan(DefaultSettings))
      BY <1>6 DEF OpenForm, CloseForm, ClosedForm, Form
    <2>2. /\ form'.phase \in {"closed", "open"} /\ IsSettings(form'.settings) /\ IsNotePlan(form'.plan)
          /\ form' = Form(form'.phase, form'.settings, form'.plan)
      BY <1>1, <2>1 DEF Form
    <2>3. QuietTypes'
      BY <1>1, <1>2, <2>1, <2>2 DEF QuietTypes
    <2> QED BY <1>2, <1>3, <2>1, <2>2, <2>3, QuietAside DEF Mid
  <1>7. CASE Killed
    <2>1. /\ noteScan' = NoScan /\ form' = Form("closed", DefaultSettings, NoPlan(DefaultSettings))
          /\ \E unsaved : Fault(unsaved)
      BY <1>7 DEF Killed, Form
    <2>2. /\ form'.phase = "closed" /\ form'.settings = DefaultSettings /\ form'.plan = NoPlan(DefaultSettings)
          /\ form' = Form(form'.phase, form'.settings, form'.plan)
      BY <2>1 DEF Form
    <2>3. QuietTypes'
      BY <1>1, <1>2, <2>1, <2>2 DEF QuietTypes
    <2>4. noteScan.phase \in Mid \/ form.phase \in Mid => now.day \in upset'.days
      BY <1>1, <2>1 DEF Fault, Mid
    <2> QED BY <1>1, <1>2, <1>3, <2>1, <2>2, <2>3, <2>4, QuietAside DEF Mid
  <1> QED
    BY <1>4, <1>5, <1>6, <1>7

LEMMA QuietStep == NewsInv /\ QuietInv /\ [NoticesNext]_noticeVars => QuietInv'
  <1> SUFFICES ASSUME NewsInv, QuietInv, [NoticesNext]_noticeVars PROVE QuietInv'
    OBVIOUS
  <1>1. CASE \/ \E r \in left.rules, kind \in left.kinds : Decide(r, kind)
             \/ \E r \in Range(PayRules) : RuleEnds(r)
             \/ ScanBegins \/ RulesFail \/ (\E r \in left.rules : LedgerRead(r) \/ LedgerUnread(r))
             \/ PlanNews \/ Present \/ PresentFails \/ (\E r \in left.rules : SaveSeen(r)) \/ SaveFails
             \/ OpenForm \/ CloseForm \/ Killed \/ UNCHANGED noticeVars
    BY <1>1, OthersKeepQuiet
  <1>2. CASE PlanNote
    BY <1>2, PlanNoteKeepsQuiet
  <1>3. CASE ScanSchedules \/ FormSchedules \/ ScanPersists \/ FormPersists
    BY <1>3, QuietCarriesOn
  <1>4. CASE \E send \in {"every-evening", "moved", "never"}, hour \in {1, 2} : SaveForm(send, hour)
    BY <1>4, SaveFormKeepsQuiet
  <1>5. CASE AlarmFires \/ TimePasses
    BY <1>5, AlarmKeepsQuiet, TimeKeepsQuiet
  <1> QED
    BY <1>1, <1>2, <1>3, <1>4, <1>5 DEF NoticesNext, ScanSteps

LEMMA QuietInvInit == NoticesInit => QuietInv
  <1> SUFFICES ASSUME NoticesInit PROVE QuietInv
    OBVIOUS
  <1>1. NewsInv
    BY NewsInvInit
  <1>2. /\ now.day = 1 /\ alarm = {} /\ noteScan = NoScan /\ form = ClosedForm /\ left.on \in BOOLEAN
        /\ noteStore = [DefaultSettings EXCEPT !.enabled = left.on]
        /\ \A d \in DOMAIN shown : shown[d] = 0
        /\ allowed \in BOOLEAN
    BY <1>1 DEF NoticesInit, NewsInv, NoticeTypes, Budget
  <1>3. now.day \in DOMAIN shown
    <2>1. left.days \in Nat /\ now.day \in Nat \ {0} /\ DOMAIN shown = 1 .. now.day + left.days
      BY <1>1 DEF NewsInv, NoticeTypes, Budget
    <2>2. now.day \in 1 .. now.day + left.days
      BY <2>1
    <2> QED BY <2>1, <2>2
  <1>4. IsSettings(noteStore)
    BY <1>2 DEF DefaultSettings, IsSettings, SettingsFields
  <1>5. /\ form.phase = "closed" /\ form.settings = DefaultSettings /\ form.plan = NoPlan(DefaultSettings)
        /\ form = Form(form.phase, form.settings, form.plan)
        /\ noteScan.phase = "off" /\ IsNotePlan(noteScan.plan)
    BY <1>2, NothingPlanned DEF ClosedForm, Form
  <1>6. QuietTypes
    BY <1>2, <1>4, <1>5, NothingPlanned DEF QuietTypes
  <1>7. TodayInv
    BY <1>2, <1>3, <1>5 DEF TodayInv, Today, Settled, Mid
  <1> QED
    BY <1>2, <1>6, <1>7 DEF QuietInv, OneNoteADay

\* A decision is announced at most once, never when it was on the rule before the phone first
\* read it, and the quiet note comes at most once a day: whatever the order of background
\* scans, alarms, failures and changes of the settings, except where the app was stopped
\* between showing and storing or the owner saved over another change
\* (app/lib/decisionNotifyTask.ts, notify.ts, quietNote.ts).
THEOREM NoticesAreToldOnce == NoticesSpec => []NoticesComeOnce
  <1>1. NoticesInit => NewsInv /\ QuietInv
    BY NewsInvInit, QuietInvInit
  <1>2. NewsInv /\ QuietInv /\ [NoticesNext]_noticeVars => (NewsInv /\ QuietInv)'
    BY NewsStep, QuietStep
  <1>3. NewsInv /\ QuietInv => NoticesComeOnce
    BY DEF NewsInv, QuietInv, NoticesComeOnce
  <1> QED
    BY <1>1, <1>2, <1>3, PTL DEF NoticesSpec

-----------------------------------------------------------------------------
(* Alerts: the vault and its record                                        *)

Ended == {"PAID", "STOPPED", "SKIPPED", "RECOVERED"}

HeldRow == [st : {"none", "pending"} \union Ended, held : Nat, unlock : Nat]

LogKinds == {"HELD", "CHANGE_PROPOSED", "CHANGE_APPLIED", "FROZEN"} \union Ended

LogRow == [kind : LogKinds, id : Nat, ts : Nat]

AnyVault ==
    [clock : Nat, delay : Nat, rows : [HeldIds -> HeldRow], change : [on : BOOLEAN, at : Nat, to : Nat],
     log : Seq(LogRow), total : Nat, frozen : BOOLEAN, other : BOOLEAN, recovered : SUBSET Nat]

\* What an entry of the record says of the vault.
EntryTrue(e, c) ==
    /\ e.kind = "HELD" /\ e.id \in HeldIds => c.rows[e.id].st # "none" /\ e.ts = c.rows[e.id].held
    /\ e.kind \in {"PAID", "STOPPED", "SKIPPED"} /\ e.id \in HeldIds => c.rows[e.id].st = e.kind
    /\ e.kind = "RECOVERED" => e.ts \in c.recovered

\* The wait only gets shorter, and what waits was held after every recovery.
VaultInv(c) ==
    /\ c \in AnyVault
    /\ c.change.on => c.change.to <= c.delay
    /\ \A t \in c.recovered : t <= c.clock
    /\ \A id \in HeldIds : c.rows[id].st # "none" => c.rows[id].unlock >= c.rows[id].held + c.delay
    /\ \A id \in Waiting(c.rows) : \A t \in c.recovered : t <= c.rows[id].held
    /\ \A i \in DOMAIN c.log : EntryTrue(c.log[i], c)

\* A withdrawal keeps its times, and ends once.
Follows(c, d) ==
    /\ c.clock <= d.clock
    /\ c.frozen => d.frozen
    /\ c.recovered \subseteq d.recovered
    /\ \A id \in HeldIds :
          \/ c.rows[id].st = "none" \/ d.rows[id] = c.rows[id]
          \/ /\ c.rows[id].st = "pending" /\ d.rows[id].st \in Ended
             /\ d.rows[id].held = c.rows[id].held /\ d.rows[id].unlock = c.rows[id].unlock

\* What follows what follows.
LEMMA FollowsOn ==
    ASSUME NEW b \in AnyVault, NEW c \in AnyVault, NEW d \in AnyVault, Follows(b, c), Follows(c, d)
    PROVE  Follows(b, d)
  <1>1. b.clock <= d.clock
    <2>1. PICK t, u, w : t = b.clock /\ u = c.clock /\ w = d.clock
      OBVIOUS
    <2>2. t \in Nat /\ u \in Nat /\ w \in Nat
      BY <2>1 DEF AnyVault
    <2>3. t <= u /\ u <= w
      BY <2>1 DEF Follows
    <2> QED BY <2>1, <2>2, <2>3
  <1>2. ASSUME NEW id \in HeldIds, b.rows[id].st # "none"
        PROVE  \/ d.rows[id] = b.rows[id]
               \/ /\ b.rows[id].st = "pending" /\ d.rows[id].st \in Ended
                  /\ d.rows[id].held = b.rows[id].held /\ d.rows[id].unlock = b.rows[id].unlock
    <2>1. c.rows[id].st # "none"
      BY <1>2 DEF Follows, Ended
    <2>2. c.rows[id] = b.rows[id] \/ c.rows[id].st # "pending"
      BY <1>2 DEF Follows, Ended
    <2> QED BY <1>2, <2>1, <2>2 DEF Follows
  <1> QED
    BY <1>1, <1>2 DEF Follows

\* What the record said stays so.
LEMMA EntriesStayTrue ==
    ASSUME NEW c, NEW d, Follows(c, d), NEW e, EntryTrue(e, c)
    PROVE  EntryTrue(e, d)
  BY DEF Follows, EntryTrue, Ended

\* The record with one more entry holds entries of before, and that one.
LEMMA RecordWith ==
    ASSUME NEW log \in Seq(LogRow), NEW e \in LogRow, RingSize \in Nat
    PROVE  /\ Kept(Append(log, e)) \in Seq(LogRow)
           /\ \A j \in DOMAIN Kept(Append(log, e)) :
                 Kept(Append(log, e))[j] = e \/ \E i \in DOMAIN log : Kept(Append(log, e))[j] = log[i]
  <1>1. PICK all : all = Append(log, e)
    OBVIOUS
  <1>2. /\ all \in Seq(LogRow) /\ Len(all) = Len(log) + 1 /\ Len(log) \in Nat
        /\ \A i \in 1 .. Len(all) : all[i] = e \/ \E k \in DOMAIN log : all[i] = log[k]
    BY <1>1
  <1>3. PICK drop : drop = IF Len(all) > RingSize THEN Len(all) - RingSize ELSE 0
    OBVIOUS
  <1>4. drop \in Nat /\ drop <= Len(all)
    BY <1>2, <1>3
  <1>5. Kept(all) = SubSeq(all, 1 + drop, Len(all))
    BY <1>3 DEF Kept
  <1>6. PICK m, n : m = 1 + drop /\ n = Len(all)
    OBVIOUS
  <1>7. m \in Nat \ {0} /\ n \in Nat /\ m <= n + 1
    BY <1>2, <1>4, <1>6
  <1>8. /\ SubSeq(all, m, n) \in Seq(LogRow)
        /\ \A j \in DOMAIN SubSeq(all, m, n) : SubSeq(all, m, n)[j] = all[m + j - 1] /\ m + j - 1 \in 1 .. n
    BY <1>2, <1>6, <1>7
  <1>9. PICK recent : recent = SubSeq(all, m, n)
    OBVIOUS
  <1>10. \A j \in DOMAIN recent : recent[j] = e \/ \E i \in DOMAIN log : recent[j] = log[i]
    <2> SUFFICES ASSUME NEW j \in DOMAIN recent PROVE recent[j] = e \/ \E i \in DOMAIN log : recent[j] = log[i]
      OBVIOUS
    <2>1. PICK k : k = m + j - 1
      OBVIOUS
    <2>2. recent[j] = all[k] /\ k \in 1 .. Len(all)
      BY <1>6, <1>8, <1>9, <2>1
    <2> QED BY <1>2, <2>2
  <1>11. Kept(Append(log, e)) = recent
    BY <1>1, <1>5, <1>6, <1>9
  <1> QED
    BY <1>8, <1>9, <1>10, <1>11

\* A vault that writes one entry.
LEMMA WritesDown ==
    ASSUME RingSize \in Nat, NEW b, VaultInv(b), NEW kind \in LogKinds, NEW id \in Nat, NEW d, d = Logs(b, kind, id),
           EntryTrue([kind |-> kind, id |-> id, ts |-> b.clock], b)
    PROVE  /\ VaultInv(d) /\ Follows(b, d)
           /\ d.rows = b.rows /\ d.clock = b.clock /\ d.frozen = b.frozen /\ d.recovered = b.recovered
           /\ d.delay = b.delay /\ d.change = b.change /\ d.other = b.other
  <1>1. PICK e, log : e = [kind |-> kind, id |-> id, ts |-> b.clock] /\ log = b.log
    OBVIOUS
  <1>2. b \in AnyVault /\ log \in Seq(LogRow) /\ b.clock \in Nat /\ b.total \in Nat
    BY <1>1 DEF VaultInv, AnyVault
  <1>3. e \in LogRow
    BY <1>1, <1>2 DEF LogRow
  <1>4. PICK new : new = Kept(Append(log, e))
    OBVIOUS
  <1>5. /\ new \in Seq(LogRow)
        /\ \A j \in DOMAIN new : new[j] = e \/ \E i \in DOMAIN log : new[j] = log[i]
    BY <1>2, <1>3, <1>4, RecordWith
  <1>6. d = [b EXCEPT !.log = new, !.total = b.total + 1]
    BY <1>1, <1>2, <1>4 DEF Logs
  <1>7. /\ d \in AnyVault /\ d.log = new
        /\ d.rows = b.rows /\ d.clock = b.clock /\ d.frozen = b.frozen /\ d.recovered = b.recovered
        /\ d.delay = b.delay /\ d.change = b.change /\ d.other = b.other
    <2>1. PICK total : total = b.total + 1
      OBVIOUS
    <2>2. total \in Nat /\ d = [b EXCEPT !.log = new, !.total = total]
      BY <1>2, <1>6, <2>1
    <2> QED BY <1>2, <1>5, <2>2 DEF AnyVault
  <1>8. Follows(b, d)
    BY <1>2, <1>7 DEF Follows
  <1>9. \A i \in DOMAIN d.log : EntryTrue(d.log[i], d)
    <2> SUFFICES ASSUME NEW i \in DOMAIN d.log PROVE EntryTrue(d.log[i], b)
      BY <1>8, EntriesStayTrue
    <2> QED BY <1>1, <1>5, <1>7 DEF VaultInv
  <1> QED
    BY <1>7, <1>8, <1>9 DEF VaultInv

\* A change of a vault that keeps what its record says of it.
LEMMA StaysVault ==
    ASSUME NEW c, VaultInv(c), NEW b \in AnyVault, Follows(c, b), b.log = c.log,
           b.change.on => b.change.to <= b.delay,
           \A t \in b.recovered : t <= b.clock,
           \A id \in HeldIds : b.rows[id].st # "none" => b.rows[id].unlock >= b.rows[id].held + b.delay,
           \A id \in Waiting(b.rows) : \A t \in b.recovered : t <= b.rows[id].held
    PROVE  VaultInv(b)
  <1>1. \A i \in DOMAIN b.log : EntryTrue(b.log[i], b)
    <2> SUFFICES ASSUME NEW i \in DOMAIN b.log PROVE EntryTrue(b.log[i], c)
      BY EntriesStayTrue
    <2> QED BY DEF VaultInv
  <1> QED
    BY <1>1 DEF VaultInv

\* A withdrawal ends.
LEMMA SettleFollows ==
    ASSUME RingSize \in Nat, NEW c, VaultInv(c), NEW id \in Waiting(c.rows),
           NEW kind \in {"PAID", "STOPPED", "SKIPPED"}, NEW d, d = Settles(c, id, kind)
    PROVE  VaultInv(d) /\ Follows(c, d) /\ d.rows[id].st = kind
  <1>1. /\ c \in AnyVault /\ c.clock \in Nat /\ c.delay \in Nat /\ c.rows \in [HeldIds -> HeldRow]
        /\ c.recovered \in SUBSET Nat /\ id \in HeldIds /\ id \in Nat /\ c.rows[id].st = "pending"
    BY DEF VaultInv, AnyVault, Waiting, HeldIds
  <1>2. PICK row, rows, b : /\ row = [c.rows[id] EXCEPT !.st = kind]
                            /\ rows = [c.rows EXCEPT ![id] = row] /\ b = [c EXCEPT !.rows = rows]
    OBVIOUS
  <1>3. c.rows[id] \in HeldRow
    BY <1>1
  <1>4. /\ row \in HeldRow /\ row.st = kind /\ row.held = c.rows[id].held /\ row.unlock = c.rows[id].unlock
    BY <1>2, <1>3 DEF HeldRow, Ended
  <1>5. rows \in [HeldIds -> HeldRow] /\ rows[id] = row /\ \A k \in HeldIds : k # id => rows[k] = c.rows[k]
    BY <1>1, <1>2, <1>4
  <1>6. /\ b \in AnyVault /\ b.log = c.log /\ b.rows = rows /\ b.clock = c.clock /\ b.frozen = c.frozen
        /\ b.recovered = c.recovered /\ b.delay = c.delay /\ b.change = c.change
    BY <1>1, <1>2, <1>5 DEF AnyVault
  <1>7. d = Logs(b, kind, id)
    BY <1>2 DEF Settles
  <1>8. Follows(c, b)
    BY <1>1, <1>4, <1>5, <1>6 DEF Follows, Ended
  <1>9. \A k \in HeldIds : rows[k].st # "none" => rows[k].unlock >= rows[k].held + c.delay
    BY <1>1, <1>4, <1>5 DEF VaultInv
  <1>10. \A k \in Waiting(rows) : \A t \in c.recovered : t <= rows[k].held
    BY <1>1, <1>4, <1>5 DEF VaultInv, Waiting
  <1>11. VaultInv(b)
    <2>1. (c.change.on => c.change.to <= c.delay) /\ \A t \in c.recovered : t <= c.clock
      BY DEF VaultInv
    <2> QED BY <1>6, <1>8, <1>9, <1>10, <2>1, StaysVault
  <1>12. EntryTrue([kind |-> kind, id |-> id, ts |-> b.clock], b)
    BY <1>4, <1>5, <1>6 DEF EntryTrue
  <1>13. VaultInv(d) /\ Follows(b, d) /\ d.rows = b.rows
    <2>1. kind \in LogKinds
      BY DEF LogKinds, Ended
    <2> QED BY <1>1, <1>7, <1>11, <1>12, <2>1, WritesDown
  <1> QED
    BY <1>1, <1>4, <1>5, <1>6, <1>8, <1>13, FollowsOn DEF VaultInv

\* Everything that waits is moved to safety.
LEMMA RecoverFollows ==
    ASSUME RingSize \in Nat, NEW c, VaultInv(c), NEW d, d = Recovers(c)
    PROVE  VaultInv(d) /\ Follows(c, d) /\ Waiting(d.rows) = {}
  <1>1. /\ c \in AnyVault /\ c.clock \in Nat /\ c.delay \in Nat /\ c.rows \in [HeldIds -> HeldRow]
        /\ c.recovered \in SUBSET Nat
    BY DEF VaultInv, AnyVault
  <1>2. PICK rows, recovered, b :
            /\ rows = [id \in HeldIds |-> IF c.rows[id].st = "pending"
                                          THEN [c.rows[id] EXCEPT !.st = "RECOVERED"] ELSE c.rows[id]]
            /\ recovered = c.recovered \union {c.clock}
            /\ b = [c EXCEPT !.rows = rows, !.recovered = recovered]
    OBVIOUS
  <1>3. ASSUME NEW id \in HeldIds
        PROVE  /\ rows[id] \in HeldRow
               /\ rows[id].held = c.rows[id].held /\ rows[id].unlock = c.rows[id].unlock
               /\ c.rows[id].st = "pending" => rows[id].st = "RECOVERED"
               /\ c.rows[id].st # "pending" => rows[id] = c.rows[id]
    <2>1. PICK row : row = c.rows[id]
      OBVIOUS
    <2>2. row \in HeldRow /\ rows[id] = IF row.st = "pending" THEN [row EXCEPT !.st = "RECOVERED"] ELSE row
      BY <1>1, <1>2, <2>1
    <2> QED BY <2>1, <2>2 DEF HeldRow, Ended
  <1>4. rows \in [HeldIds -> HeldRow] /\ Waiting(rows) = {}
    BY <1>2, <1>3 DEF Waiting
  <1>5. recovered \in SUBSET Nat /\ c.recovered \subseteq recovered
    BY <1>1, <1>2
  <1>6. /\ b \in AnyVault /\ b.log = c.log /\ b.rows = rows /\ b.clock = c.clock /\ b.frozen = c.frozen
        /\ b.recovered = recovered /\ b.delay = c.delay /\ b.change = c.change
    BY <1>1, <1>2, <1>4, <1>5 DEF AnyVault
  <1>7. d = Logs(b, "RECOVERED", 0)
    BY <1>2 DEF Recovers
  <1>8. Follows(c, b)
    BY <1>1, <1>3, <1>5, <1>6 DEF Follows, Ended
  <1>9. \A k \in HeldIds : rows[k].st # "none" => rows[k].unlock >= rows[k].held + c.delay
    BY <1>3 DEF VaultInv
  <1>10. VaultInv(b)
    <2>1. (c.change.on => c.change.to <= c.delay) /\ \A t \in recovered : t <= c.clock
      BY <1>1, <1>2 DEF VaultInv
    <2> QED BY <1>4, <1>6, <1>8, <1>9, <2>1, StaysVault
  <1>11. EntryTrue([kind |-> "RECOVERED", id |-> 0, ts |-> b.clock], b)
    BY <1>2, <1>6 DEF EntryTrue
  <1>12. VaultInv(d) /\ Follows(b, d) /\ d.rows = b.rows
    <2>1. "RECOVERED" \in LogKinds /\ 0 \in Nat
      BY DEF LogKinds, Ended
    <2> QED BY <1>7, <1>10, <1>11, <2>1, WritesDown
  <1> QED
    BY <1>1, <1>4, <1>6, <1>8, <1>12, FollowsOn DEF VaultInv

\* What the owner, the guardian and time do to a vault.
LEMMA VaultMoves ==
    ASSUME AlertsAssumption, VaultInv(chain), ChainMoves \/ OtherVaultMoves
    PROVE  VaultInv(chain') /\ Follows(chain, chain')
  <1>1. PICK c, d : c = chain /\ d = chain'
    OBVIOUS
  <1>2. /\ VaultInv(c) /\ c \in AnyVault /\ c.clock \in Nat /\ c.delay \in Nat /\ RingSize \in Nat
        /\ c.rows \in [HeldIds -> HeldRow] /\ c.recovered \in SUBSET Nat
        /\ c.change \in [on : BOOLEAN, at : Nat, to : Nat] /\ Follows(c, c)
        /\ \A id \in HeldIds : id \in Nat
    <2>1. VaultInv(c) /\ c \in AnyVault
      BY <1>1 DEF VaultInv
    <2>2. /\ c.clock \in Nat /\ c.delay \in Nat /\ c.rows \in [HeldIds -> HeldRow] /\ c.recovered \in SUBSET Nat
          /\ c.change \in [on : BOOLEAN, at : Nat, to : Nat]
      BY <2>1 DEF AnyVault
    <2>3. c.clock <= c.clock
      BY <2>2
    <2>4. Follows(c, c)
      BY <2>3 DEF Follows
    <2>5. RingSize \in Nat /\ \A id \in HeldIds : id \in Nat
      BY DEF AlertsAssumption, HeldIds
    <2> QED BY <2>1, <2>2, <2>4, <2>5
  <1>3. CASE OtherVaultMoves
    <2>1. PICK other : other = ~c.other
      OBVIOUS
    <2>2. d = [c EXCEPT !.other = other] /\ other \in BOOLEAN
      BY <1>1, <1>2, <1>3, <2>1 DEF OtherVaultMoves, AnyVault
    <2>3. /\ d \in AnyVault /\ d.log = c.log /\ d.rows = c.rows /\ d.clock = c.clock /\ d.frozen = c.frozen
          /\ d.recovered = c.recovered /\ d.delay = c.delay /\ d.change = c.change
      BY <1>2, <2>2 DEF AnyVault
    <2>4. Follows(c, d)
      BY <1>2, <2>3 DEF Follows
    <2>5. VaultInv(d)
      BY <1>2, <2>3, <2>4, StaysVault DEF VaultInv
    <2> QED BY <1>1, <2>4, <2>5
  <1>4. CASE Ticks
    <2>1. PICK t : t = c.clock + 1
      OBVIOUS
    <2>2. d = [c EXCEPT !.clock = t] /\ t \in Nat /\ c.clock <= t
      BY <1>1, <1>2, <1>4, <2>1 DEF Ticks
    <2>3. /\ d \in AnyVault /\ d.log = c.log /\ d.rows = c.rows /\ d.clock = t /\ d.frozen = c.frozen
          /\ d.recovered = c.recovered /\ d.delay = c.delay /\ d.change = c.change
      BY <1>2, <2>2 DEF AnyVault
    <2>4. Follows(c, d)
      BY <1>2, <2>2, <2>3 DEF Follows
    <2>5. \A u \in c.recovered : u <= t
      BY <1>2, <2>2 DEF VaultInv
    <2>6. VaultInv(d)
      BY <1>2, <2>3, <2>4, <2>5, StaysVault DEF VaultInv
    <2> QED BY <1>1, <2>4, <2>6
  <1>5. CASE Holds
    <2>1. PICK id \in HeldIds :
              /\ c.rows[id].st = "none"
              /\ d = Logs([c EXCEPT !.rows[id] = [st |-> "pending", held |-> c.clock,
                                                  unlock |-> c.clock + c.delay]], "HELD", id)
      BY <1>1, <1>5 DEF Holds
    <2>2. PICK row, rows, b :
              /\ row = [st |-> "pending", held |-> c.clock, unlock |-> c.clock + c.delay]
              /\ rows = [c.rows EXCEPT ![id] = row] /\ b = [c EXCEPT !.rows = rows]
      OBVIOUS
    <2>3. row \in HeldRow /\ rows \in [HeldIds -> HeldRow] /\ rows[id] = row
          /\ \A k \in HeldIds : k # id => rows[k] = c.rows[k]
      BY <1>2, <2>2 DEF HeldRow
    <2>4. /\ b \in AnyVault /\ b.log = c.log /\ b.rows = rows /\ b.clock = c.clock /\ b.frozen = c.frozen
          /\ b.recovered = c.recovered /\ b.delay = c.delay /\ b.change = c.change
      BY <1>2, <2>2, <2>3 DEF AnyVault
    <2>5. d = Logs(b, "HELD", id)
      BY <2>1, <2>2
    <2>6. Follows(c, b)
      BY <1>2, <2>1, <2>3, <2>4 DEF Follows
    <2>7. \A k \in HeldIds : rows[k].st # "none" => rows[k].unlock >= rows[k].held + c.delay
      BY <1>2, <2>2, <2>3 DEF VaultInv
    <2>8. \A k \in Waiting(rows) : \A t \in c.recovered : t <= rows[k].held
      BY <1>2, <2>2, <2>3 DEF VaultInv, Waiting
    <2>9. VaultInv(b)
      <3>1. (c.change.on => c.change.to <= c.delay) /\ \A t \in c.recovered : t <= c.clock
        BY <1>2 DEF VaultInv
      <3> QED BY <1>2, <2>4, <2>6, <2>7, <2>8, <3>1, StaysVault
    <2>10. EntryTrue([kind |-> "HELD", id |-> id, ts |-> b.clock], b)
      BY <2>2, <2>3, <2>4 DEF EntryTrue
    <2>11. VaultInv(d) /\ Follows(b, d)
      <3>1. "HELD" \in LogKinds /\ id \in Nat /\ RingSize \in Nat
        BY <1>2 DEF LogKinds
      <3> QED BY <2>5, <2>9, <2>10, <3>1, WritesDown
    <2> QED BY <1>1, <1>2, <2>4, <2>6, <2>11, FollowsOn DEF VaultInv
  <1>6. CASE PaysAtOnce
    <2>1. d = Logs(c, "PAID", 0)
      BY <1>1, <1>6 DEF PaysAtOnce
    <2>2. EntryTrue([kind |-> "PAID", id |-> 0, ts |-> c.clock], c)
      BY DEF EntryTrue, HeldIds
    <2>3. "PAID" \in LogKinds /\ 0 \in Nat /\ RingSize \in Nat /\ VaultInv(c)
      BY <1>2 DEF LogKinds, Ended
    <2>4. VaultInv(d) /\ Follows(c, d)
      BY <2>1, <2>2, <2>3, WritesDown
    <2> QED BY <1>1, <2>4
  <1>7. CASE Ends
    <2>1. PICK id \in Waiting(c.rows), kind \in {"PAID", "STOPPED", "SKIPPED"} : d = Settles(c, id, kind)
      BY <1>1, <1>7 DEF Ends
    <2> QED BY <1>1, <1>2, <2>1, SettleFollows
  <1>8. CASE chain' = Recovers(chain)
    BY <1>1, <1>2, <1>8, RecoverFollows
  <1>9. CASE Proposes
    <2>1. PICK to \in Waits :
              /\ to < c.delay
              /\ d = Logs([c EXCEPT !.change = [on |-> TRUE, at |-> c.clock + c.delay, to |-> to]],
                          "CHANGE_PROPOSED", 0)
      BY <1>1, <1>9 DEF Proposes
    <2>2. PICK change, b : /\ change = [on |-> TRUE, at |-> c.clock + c.delay, to |-> to]
                           /\ b = [c EXCEPT !.change = change]
      OBVIOUS
    <2>3. to \in Nat /\ change \in [on : BOOLEAN, at : Nat, to : Nat] /\ change.to <= c.delay
      BY <1>2, <2>1, <2>2 DEF AlertsAssumption
    <2>4. /\ b \in AnyVault /\ b.log = c.log /\ b.rows = c.rows /\ b.clock = c.clock /\ b.frozen = c.frozen
          /\ b.recovered = c.recovered /\ b.delay = c.delay /\ b.change = change
      BY <1>2, <2>2, <2>3 DEF AnyVault
    <2>5. Follows(c, b)
      BY <1>2, <2>4 DEF Follows
    <2>6. VaultInv(b)
      BY <1>2, <2>3, <2>4, <2>5, StaysVault DEF VaultInv
    <2>7. EntryTrue([kind |-> "CHANGE_PROPOSED", id |-> 0, ts |-> b.clock], b)
      BY DEF EntryTrue
    <2>8. VaultInv(d) /\ Follows(b, d)
      <3>1. "CHANGE_PROPOSED" \in LogKinds /\ 0 \in Nat /\ RingSize \in Nat
        BY <1>2 DEF LogKinds
      <3>2. d = Logs(b, "CHANGE_PROPOSED", 0)
        BY <2>1, <2>2
      <3> QED BY <2>6, <2>7, <3>1, <3>2, WritesDown
    <2> QED BY <1>1, <1>2, <2>4, <2>5, <2>8, FollowsOn DEF VaultInv
  <1>10. CASE Applies
    <2>1. /\ c.change.on
          /\ d = Logs([c EXCEPT !.delay = c.change.to, !.change = NoLoosening], "CHANGE_APPLIED", 0)
      BY <1>1, <1>10 DEF Applies
    <2>2. PICK to, none, b : to = c.change.to /\ none = NoLoosening /\ b = [c EXCEPT !.delay = to, !.change = none]
      OBVIOUS
    <2>3. to \in Nat /\ to <= c.delay /\ none \in [on : BOOLEAN, at : Nat, to : Nat] /\ ~none.on
      BY <1>2, <2>1, <2>2 DEF VaultInv, NoLoosening
    <2>4. /\ b \in AnyVault /\ b.log = c.log /\ b.rows = c.rows /\ b.clock = c.clock /\ b.frozen = c.frozen
          /\ b.recovered = c.recovered /\ b.delay = to /\ b.change = none
      BY <1>2, <2>2, <2>3 DEF AnyVault
    <2>5. Follows(c, b)
      BY <1>2, <2>4 DEF Follows
    <2>6. \A id \in HeldIds : c.rows[id].st # "none" => c.rows[id].unlock >= c.rows[id].held + to
      <3> SUFFICES ASSUME NEW id \in HeldIds, c.rows[id].st # "none" PROVE c.rows[id].unlock >= c.rows[id].held + to
        OBVIOUS
      <3>1. PICK row : row = c.rows[id]
        OBVIOUS
      <3>2. row.unlock \in Nat /\ row.held \in Nat /\ row.unlock >= row.held + c.delay
        BY <1>2, <3>1 DEF VaultInv, HeldRow
      <3> QED BY <1>2, <2>3, <3>1, <3>2
    <2>7. VaultInv(b)
      BY <1>2, <2>3, <2>4, <2>5, <2>6, StaysVault DEF VaultInv
    <2>8. EntryTrue([kind |-> "CHANGE_APPLIED", id |-> 0, ts |-> b.clock], b)
      BY DEF EntryTrue
    <2>9. VaultInv(d) /\ Follows(b, d)
      <3>1. "CHANGE_APPLIED" \in LogKinds /\ 0 \in Nat /\ RingSize \in Nat
        BY <1>2 DEF LogKinds
      <3>2. d = Logs(b, "CHANGE_APPLIED", 0)
        BY <2>1, <2>2
      <3> QED BY <2>7, <2>8, <3>1, <3>2, WritesDown
    <2> QED BY <1>1, <1>2, <2>4, <2>5, <2>9, FollowsOn DEF VaultInv
  <1> QED
    BY <1>3, <1>4, <1>5, <1>6, <1>7, <1>8, <1>9, <1>10 DEF ChainMoves

-----------------------------------------------------------------------------
(* Alerts: what is said of a withdrawal                                    *)

ScanShape(s) == [at |-> s.at, rows |-> s.rows, delay |-> s.delay, keys |-> s.keys]

KeptShape(k) ==
    [file |-> k.file, stored |-> k.stored, seen |-> k.seen, listed |-> k.listed, os |-> k.os,
     guardSeen |-> k.guardSeen, remembered |-> k.remembered, last |-> k.last]

BrakeShape(b) == [at |-> b.at, kind |-> b.kind, id |-> b.id, rows |-> b.rows, frozen |-> b.frozen]

\* Where the scan of each reader can stand.
Places(reader) ==
    CASE reader = "watcher" -> {"idle", "vault", "ledger", "store"}
      [] reader = "owner" -> {"idle", "own", "own keys", "find", "guard", "guard keys"}
      [] reader = "guardian" -> {"idle", "find", "guard", "guard keys"}

BrakeKinds == {"stop", "freeze", "recover"}

AlertTypes ==
    /\ story \in Stories /\ story.reader \in {"watcher", "owner", "guardian"}
    /\ VaultInv(chain) /\ faults \in Nat
    /\ scan = ScanShape(scan) /\ scan.at \in Places(story.reader)
    /\ kept = KeptShape(kept)
    /\ told = [once |-> told.once, again |-> told.again]
    /\ \/ brake = NoBrake
       \/ /\ brake = BrakeShape(brake) /\ brake.at \in {"open", "sent", "late", "landed", "said"}
          /\ brake.at # "open" => brake.kind \in BrakeKinds

\* What a brake makes of the vault.
LEMMA BrakeFollows ==
    ASSUME AlertTypes, BrakeLands
    PROVE  /\ VaultInv(chain') /\ Follows(chain, chain')
           /\ brake.kind = "stop" => brake.id \in HeldIds /\ chain'.rows[brake.id].st = "STOPPED"
           /\ brake.kind = "freeze" => chain'.frozen
           /\ brake.kind = "recover" => Waiting(chain'.rows) = {}
  <1>1. PICK c, d : c = chain /\ d = chain'
    OBVIOUS
  <1>2. /\ VaultInv(c) /\ c \in AnyVault /\ RingSize \in Nat /\ Follows(c, c) /\ brake.kind \in BrakeKinds
    <2>1. VaultInv(c) /\ c \in AnyVault /\ RingSize \in Nat
      BY <1>1, AlertsAssumption DEF AlertTypes, VaultInv, AlertsAssumption
    <2>2. Follows(c, c)
      BY <2>1 DEF AnyVault, Follows
    <2>3. brake.at \notin {"off", "open"}
      BY DEF BrakeLands
    <2>4. brake.kind \in BrakeKinds
      BY <2>3 DEF AlertTypes, NoBrake
    <2> QED BY <2>1, <2>2, <2>4
  <1>3. CASE brake.kind = "stop"
    <2>1. brake.id \in Waiting(c.rows) /\ d = Settles(c, brake.id, "STOPPED")
      BY <1>1, <1>3 DEF BrakeLands
    <2>2. VaultInv(d) /\ Follows(c, d) /\ d.rows[brake.id].st = "STOPPED"
      BY <1>2, <2>1, SettleFollows
    <2> QED BY <1>1, <1>3, <2>1, <2>2 DEF Waiting
  <1>4. CASE brake.kind = "freeze"
    <2>1. d = Logs([c EXCEPT !.frozen = TRUE], "FROZEN", 0)
      BY <1>1, <1>4 DEF BrakeLands
    <2>2. PICK b : b = [c EXCEPT !.frozen = TRUE]
      OBVIOUS
    <2>3. /\ b \in AnyVault /\ b.log = c.log /\ b.rows = c.rows /\ b.clock = c.clock /\ b.frozen = TRUE
          /\ b.recovered = c.recovered /\ b.delay = c.delay /\ b.change = c.change
      BY <1>2, <2>2 DEF AnyVault
    <2>4. Follows(c, b)
      BY <1>2, <2>3 DEF Follows
    <2>5. VaultInv(b)
      BY <1>2, <2>3, <2>4, StaysVault DEF VaultInv
    <2>6. EntryTrue([kind |-> "FROZEN", id |-> 0, ts |-> b.clock], b)
      BY DEF EntryTrue
    <2>7. VaultInv(d) /\ Follows(b, d) /\ d.frozen = TRUE
      <3>1. "FROZEN" \in LogKinds /\ 0 \in Nat /\ RingSize \in Nat
        BY <1>2 DEF LogKinds
      <3>2. d = Logs(b, "FROZEN", 0)
        BY <2>1, <2>2
      <3>3. VaultInv(d) /\ Follows(b, d) /\ d.frozen = b.frozen
        BY <2>5, <2>6, <3>1, <3>2, WritesDown
      <3> QED BY <2>3, <3>3
    <2>8. Follows(c, d)
      BY <1>2, <2>3, <2>4, <2>7, FollowsOn DEF VaultInv
    <2> QED BY <1>1, <1>4, <2>7, <2>8
  <1>5. CASE brake.kind = "recover"
    <2>1. d = Recovers(c)
      BY <1>1, <1>5 DEF BrakeLands
    <2> QED BY <1>1, <1>2, <1>5, <2>1, RecoverFollows
  <1> QED
    BY <1>2, <1>3, <1>4, <1>5 DEF BrakeKinds

\* Whatever is done, the vault only moves on.
LEMMA ChainFollows ==
    ASSUME AlertTypes, [AlertsNext]_alertVars PROVE VaultInv(chain') /\ Follows(chain, chain')
  <1>1. CASE ChainMoves \/ OtherVaultMoves
    BY <1>1, VaultMoves, AlertsAssumption DEF AlertTypes
  <1>2. CASE BrakeLands
    BY <1>2, BrakeFollows
  <1>3. CASE chain' = chain
    <2>1. Follows(chain, chain)
      BY DEF AlertTypes, VaultInv, AnyVault, Follows
    <2> QED BY <1>3, <2>1 DEF AlertTypes
  <1>4. ChainMoves \/ OtherVaultMoves \/ BrakeLands \/ chain' = chain
    BY DEF AlertsNext, alertVars, Scans, Brakes, BeginScan, ReadVault, RaiseHoldAlerts, StoreJournal, BeginPhoneScan,
           RaiseForOwner, WriteOwnerKeys, DiscoverGuardedVaults, RaiseForGuardian, WriteGuardKeys, ScanFails,
           OwnerHalfFails, OpenGuard, BrakeBounces, BrakeTimesOut, SaysResult, CloseGuard, GuardBrake
  <1> QED
    BY <1>1, <1>2, <1>3, <1>4

\* A step leaves every part of the state what it is.
LEMMA AlertTypesStep == AlertTypes /\ [AlertsNext]_alertVars => AlertTypes'
  <1> SUFFICES ASSUME AlertTypes, [AlertsNext]_alertVars PROVE AlertTypes'
    OBVIOUS
  <1>1. VaultInv(chain')
    BY ChainFollows
  <1>2. story' = story
    BY DEF AlertsNext, alertVars, Scans, Brakes, BeginScan, ReadVault, RaiseHoldAlerts, StoreJournal, BeginPhoneScan,
           RaiseForOwner, WriteOwnerKeys, DiscoverGuardedVaults, RaiseForGuardian, WriteGuardKeys, ScanFails,
           OwnerHalfFails, OpenGuard, BrakeBounces, BrakeTimesOut, SaysResult, CloseGuard, GuardBrake,
           ChainMoves, OtherVaultMoves, BrakeLands
  <1>3. CASE ChainMoves \/ OtherVaultMoves \/ UNCHANGED alertVars
    BY <1>1, <1>2, <1>3 DEF AlertTypes, ChainMoves, OtherVaultMoves, alertVars
  <1>4. CASE Brakes
    <2>1. UNCHANGED <<scan, kept, told, faults>>
      BY <1>4 DEF Brakes, OpenGuard, BrakeLands, BrakeBounces, BrakeTimesOut, SaysResult, CloseGuard, GuardBrake
    <2>2. \/ brake' = NoBrake
          \/ /\ brake' = BrakeShape(brake') /\ brake'.at \in {"open", "sent", "late", "landed", "said"}
             /\ brake'.at # "open" => brake'.kind \in BrakeKinds
      <3>1. CASE OpenGuard
        <4>1. PICK key : brake' = [at |-> "open", kind |-> "none", id |-> key.id, rows |-> chain.rows,
                                   frozen |-> chain.frozen]
          BY <3>1 DEF OpenGuard
        <4> QED BY <4>1 DEF BrakeShape
      <3>2. CASE BrakeLands \/ BrakeBounces \/ BrakeTimesOut \/ SaysResult \/ CloseGuard
        <4>1. \/ brake' = NoBrake
              \/ /\ brake.at # "off" /\ brake.at # "open"
                 /\ \E at \in {"landed", "late", "said"} : brake' = [brake EXCEPT !.at = at]
          BY <3>2 DEF BrakeLands, BrakeBounces, BrakeTimesOut, SaysResult, Confirmed, CloseGuard
        <4>2. NoBrake.at = "off"
          BY DEF NoBrake
        <4>3. CASE brake' # NoBrake
          <5>1. PICK at \in {"landed", "late", "said"} : brake' = [brake EXCEPT !.at = at]
            BY <4>1, <4>3
          <5>2. brake = BrakeShape(brake) /\ brake.kind \in BrakeKinds
            BY <4>1, <4>2, <4>3 DEF AlertTypes
          <5> QED BY <5>1, <5>2 DEF BrakeShape
        <4> QED BY <4>3
      <3>3. CASE \E kind \in {"stop", "freeze", "recover"} : GuardBrake(kind)
        <4>1. PICK kind \in BrakeKinds : brake.at = "open" /\ brake' = [brake EXCEPT !.at = "sent", !.kind = kind]
          BY <3>3 DEF GuardBrake, BrakeKinds
        <4>2. brake = BrakeShape(brake)
          BY <4>1 DEF AlertTypes, NoBrake
        <4> QED BY <4>1, <4>2 DEF BrakeShape
      <3> QED BY <1>4, <3>1, <3>2, <3>3 DEF Brakes
    <2> QED BY <1>1, <1>2, <2>1, <2>2 DEF AlertTypes
  <1>5. CASE Scans \/ ScanFails \/ OwnerHalfFails
    <2>1. brake' = brake
      BY <1>5 DEF Scans, BeginScan, ReadVault, RaiseHoldAlerts, StoreJournal, BeginPhoneScan, RaiseForOwner,
             WriteOwnerKeys, DiscoverGuardedVaults, RaiseForGuardian, WriteGuardKeys, ScanFails, OwnerHalfFails
    <2>2. scan' = ScanShape(scan') /\ scan'.at \in Places(story.reader)
      <3>1. scan = ScanShape(scan) /\ scan.at \in Places(story.reader)
            /\ story.reader \in {"watcher", "owner", "guardian"}
        BY DEF AlertTypes
      <3>3. Idle = ScanShape(Idle) /\ Idle.at = "idle"
        BY DEF Idle, ScanShape
      <3>4. \/ scan' = Idle
            \/ \E at : scan' = [scan EXCEPT !.at = at] /\ at = "vault" /\ scan.at = "idle"
                       /\ story.reader = "watcher"
            \/ ReadVault
            \/ scan' = [Idle EXCEPT !.at = "store"] /\ story.reader = "watcher"
            \/ BeginPhoneScan \/ RaiseForOwner
            \/ scan' = [Idle EXCEPT !.at = "find"] /\ scan.at \in {"own", "own keys"}
            \/ DiscoverGuardedVaults \/ RaiseForGuardian
        BY <1>5 DEF Scans, BeginScan, RaiseHoldAlerts, StoreJournal, WriteOwnerKeys, WriteGuardKeys, ScanFails,
                    OwnerHalfFails
      <3>5. CASE scan' = Idle
        BY <3>1, <3>3, <3>5 DEF Places
      <3>6. CASE scan' = [scan EXCEPT !.at = "vault"] /\ story.reader = "watcher"
        BY <3>1, <3>6 DEF ScanShape, Places
      <3>7. CASE ReadVault
        <4>1. scan' = [scan EXCEPT !.at = "ledger", !.rows = chain.rows, !.delay = chain.delay] /\ scan.at = "vault"
          BY <3>7 DEF ReadVault
        <4>2. story.reader = "watcher"
          BY <3>1, <4>1 DEF Places
        <4>3. scan' = ScanShape(scan') /\ scan'.at = "ledger"
          BY <3>1, <4>1 DEF ScanShape
        <4> QED BY <4>2, <4>3 DEF Places
      <3>8. CASE scan' = [Idle EXCEPT !.at = "store"] /\ story.reader = "watcher"
        BY <3>8 DEF Idle, ScanShape, Places
      <3>9. CASE BeginPhoneScan
        <4>1. \/ story.reader = "owner"
                /\ scan' = [Idle EXCEPT !.at = "own", !.rows = chain.rows, !.delay = chain.delay]
              \/ story.reader = "guardian" /\ scan' = [Idle EXCEPT !.at = "find"]
          BY <3>9 DEF BeginPhoneScan, Phone
        <4> QED BY <4>1 DEF Idle, ScanShape, Places
      <3>10. CASE RaiseForOwner
        <4>1. scan.at = "own" /\ \E keys : scan' = [Idle EXCEPT !.at = "own keys", !.rows = scan.rows, !.keys = keys]
          BY <3>10 DEF RaiseForOwner
        <4>2. story.reader = "owner"
          BY <3>1, <4>1 DEF Places
        <4>3. scan' = ScanShape(scan') /\ scan'.at = "own keys"
          BY <4>1 DEF Idle, ScanShape
        <4> QED BY <4>2, <4>3 DEF Places
      <3>11. CASE scan' = [Idle EXCEPT !.at = "find"] /\ scan.at \in {"own", "own keys"}
        BY <3>1, <3>11 DEF Idle, ScanShape, Places
      <3>12. CASE DiscoverGuardedVaults
        <4>1. /\ scan.at = "find"
              /\ \E rows : scan' = [Idle EXCEPT !.at = "guard", !.rows = rows, !.delay = chain.delay]
          BY <3>12 DEF DiscoverGuardedVaults
        <4>2. scan' = ScanShape(scan') /\ scan'.at = "guard"
          BY <4>1 DEF Idle, ScanShape
        <4> QED BY <3>1, <4>1, <4>2 DEF Places
      <3>13. CASE RaiseForGuardian
        <4>1. scan.at = "guard" /\ \E keys : scan' = [Idle EXCEPT !.at = "guard keys", !.rows = scan.rows, !.keys = keys]
          BY <3>13 DEF RaiseForGuardian
        <4>2. scan' = ScanShape(scan') /\ scan'.at = "guard keys"
          BY <4>1 DEF Idle, ScanShape
        <4> QED BY <3>1, <4>1, <4>2 DEF Places
      <3> QED BY <3>4, <3>5, <3>6, <3>7, <3>8, <3>9, <3>10, <3>11, <3>12, <3>13
    <2>3. told' = [once |-> told'.once, again |-> told'.again]
      <3>1. told' = told \/ \E keys : Tell(keys)
        BY <1>5 DEF Scans, BeginScan, ReadVault, RaiseHoldAlerts, StoreJournal, BeginPhoneScan, RaiseForOwner,
             WriteOwnerKeys, DiscoverGuardedVaults, RaiseForGuardian, WriteGuardKeys, ScanFails, OwnerHalfFails
      <3> QED BY <3>1 DEF AlertTypes, Tell
    <2>4. kept' = KeptShape(kept') /\ faults' \in Nat
      <3>1. kept = KeptShape(kept) /\ faults \in Nat
        BY DEF AlertTypes
      <3>2. faults' = faults \/ faults' = faults + 1
        BY <1>5 DEF Scans, BeginScan, ReadVault, RaiseHoldAlerts, StoreJournal, BeginPhoneScan, RaiseForOwner,
             WriteOwnerKeys, DiscoverGuardedVaults, RaiseForGuardian, WriteGuardKeys, ScanFails, OwnerHalfFails, Fails
      <3>3. \E file, stored, seen, listed, os, guardSeen, remembered, last :
               kept' = [file |-> file, stored |-> stored, seen |-> seen, listed |-> listed, os |-> os,
                        guardSeen |-> guardSeen, remembered |-> remembered, last |-> last]
        <4>1. CASE kept' = kept
          BY <3>1, <4>1 DEF KeptShape
        <4>2. CASE \E file : kept' = [kept EXCEPT !.file = file]
          BY <3>1, <4>2 DEF KeptShape
        <4>3. CASE \E stored : kept' = [kept EXCEPT !.stored = stored]
          BY <3>1, <4>3 DEF KeptShape
        <4>4. CASE \E os : kept' = [kept EXCEPT !.os = os]
          BY <3>1, <4>4 DEF KeptShape
        <4>5. CASE \E seen, listed, last : kept' = [kept EXCEPT !.seen = seen, !.listed = listed, !.last = last]
          BY <3>1, <4>5 DEF KeptShape
        <4>6. CASE \E remembered : kept' = [kept EXCEPT !.remembered = remembered]
          BY <3>1, <4>6 DEF KeptShape
        <4>7. CASE \E listed, guardSeen, last :
                     kept' = [kept EXCEPT !.listed = listed, !.guardSeen = guardSeen, !.last = last]
          BY <3>1, <4>7 DEF KeptShape
        <4>8. CASE BeginScan
          BY <4>2, <4>8 DEF BeginScan
        <4>9. CASE RaiseHoldAlerts \/ ScanFails
          BY <4>1, <4>2, <4>9 DEF RaiseHoldAlerts, ScanFails
        <4>10. CASE ReadVault \/ StoreJournal \/ BeginPhoneScan \/ OwnerHalfFails
          BY <4>1, <4>3, <4>10 DEF ReadVault, StoreJournal, BeginPhoneScan, OwnerHalfFails
        <4>11. CASE RaiseForOwner \/ RaiseForGuardian
          <5>1. CASE RaiseForOwner
            <6>1. PICK planned : planned = PlannedKeys(FALSE, scan.rows, scan.delay)
              OBVIOUS
            <6>2. PICK os : os = (kept.os \union Future(planned)) \ Stale(FALSE, planned)
              OBVIOUS
            <6>3. kept' = [kept EXCEPT !.os = os]
              BY <5>1, <6>1, <6>2 DEF RaiseForOwner
            <6> QED BY <4>4, <6>3
          <5>2. CASE RaiseForGuardian
            <6>1. PICK os : os = (kept.os \union Future(GuardLive)) \ Stale(TRUE, GuardLive)
              OBVIOUS
            <6>2. kept' = [kept EXCEPT !.os = os]
              BY <5>2, <6>1 DEF RaiseForGuardian
            <6> QED BY <4>4, <6>2
          <5> QED BY <4>11, <5>1, <5>2
        <4>12. CASE WriteOwnerKeys \/ DiscoverGuardedVaults
          <5>1. CASE WriteOwnerKeys
            BY <4>5, <5>1 DEF WriteOwnerKeys
          <5>2. CASE DiscoverGuardedVaults
            <6>1. PICK found \in BOOLEAN : kept' = [kept EXCEPT !.remembered = @ \/ found]
              BY <5>2 DEF DiscoverGuardedVaults
            <6>2. PICK remembered : remembered = (kept.remembered \/ found)
              OBVIOUS
            <6>3. kept' = [kept EXCEPT !.remembered = remembered]
              BY <6>1, <6>2
            <6> QED BY <4>6, <6>3
          <5> QED BY <4>12, <5>1, <5>2
        <4>13. CASE WriteGuardKeys
          <5>1. PICK order : kept' = [kept EXCEPT !.listed = scan.keys.listed,
                                     !.guardSeen = IF order = <<>> THEN @ ELSE LastSeen(@ \o order),
                                     !.last = IF story.reader = "owner" THEN @ ELSE scan.rows]
            BY <4>13 DEF WriteGuardKeys
          <5>2. PICK seen, last : /\ seen = IF order = <<>> THEN kept.guardSeen ELSE LastSeen(kept.guardSeen \o order)
                                  /\ last = IF story.reader = "owner" THEN kept.last ELSE scan.rows
            OBVIOUS
          <5>3. kept' = [kept EXCEPT !.listed = scan.keys.listed, !.guardSeen = seen, !.last = last]
            BY <5>1, <5>2
          <5> QED BY <4>7, <5>3
        <4> QED BY <1>5, <4>8, <4>9, <4>10, <4>11, <4>12, <4>13 DEF Scans
      <3>7. kept' = KeptShape(kept')
        BY <3>3 DEF KeptShape
      <3> QED BY <3>1, <3>2, <3>7
    <2> QED BY <1>1, <1>2, <2>1, <2>2, <2>3, <2>4 DEF AlertTypes
  <1> QED
    BY <1>3, <1>4, <1>5 DEF AlertsNext

-----------------------------------------------------------------------------
(* Alerts: the four parts of the property                                  *)

\* The end of a withdrawal that the watcher saw waiting is still on the record when the
\* record is read, a moment later: the ring has not turned once between the two reads.
EndsStayOnRecord ==
    scan.at = "ledger" =>
        \A id \in Waiting(scan.rows) :
            chain.rows[id].st \in {"PAID", "STOPPED", "SKIPPED"} =>
                \E i \in DOMAIN chain.log :
                    chain.log[i].id = id /\ chain.log[i].kind = chain.rows[id].st

\* The guardian's phone has not yet given more alerts than it remembers.
SeenHoldsAll ==
    story.reader = "guardian" /\ scan.at = "guard keys" =>
        Len(kept.guardSeen) + Cardinality(scan.keys.new) <= SEEN_CAP

\* What the watcher said of a withdrawal is so in this vault.
SaidTrue(k, c) ==
    k.name \in {"PAID", "STOPPED", "SKIPPED", "RECOVERED", "HELD"} =>
        /\ k.id \in HeldIds /\ c.rows[k.id].st # "none"
        /\ (k.name = c.rows[k.id].st) \/ (k.name = "RECOVERED" /\ c.rows[k.id].held \in c.recovered)

\* A withdrawal as the watcher read it, and as it is.
ReadTrue(row, delay, today) ==
    /\ today.st # "none"
    /\ row.unlock \in Nat /\ row.unlock >= today.held + delay

EndsInv ==
    /\ scan.at = "ledger" =>
          /\ scan.delay \in Nat
          /\ \A id \in Waiting(scan.rows) : ReadTrue(scan.rows[id], scan.delay, chain.rows[id])
    /\ story.reader = "watcher" => \A k \in told.once : SaidTrue(k, chain)

BrakesInv ==
    /\ brake.at # "off" => \A id \in Waiting(brake.rows) : chain.rows[id].st # "none"
    /\ brake.at \in {"landed", "said"} =>
          /\ brake.kind = "stop" => brake.id \in HeldIds /\ chain.rows[brake.id].st = "STOPPED"
          /\ brake.kind = "recover" => Waiting(brake.rows) \cap Waiting(chain.rows) = {}
          /\ brake.kind = "freeze" => chain.frozen

\* Each reader has written down what it told, or is about to.
Remembers ==
    /\ story.reader = "watcher" =>
          /\ scan.at # "store" => told.once \subseteq kept.stored
          /\ scan.at # "idle" => told.once \subseteq kept.file
    /\ story.reader = "owner" =>
          told.once \subseteq IF scan.at = "own keys" THEN scan.keys.seen ELSE kept.seen
    /\ story.reader = "guardian" =>
          told.once \subseteq ToSet(kept.guardSeen) \union (IF scan.at = "guard keys" THEN scan.keys.new ELSE {})

\* The alerts found by one scan are finitely many, and the guardian's list is a list.
NewIsFinite(s) == s.at = "guard keys" => IsFiniteSet(s.keys.new)

GuardList == \E S : kept.guardSeen \in Seq(S)

\* Rows that can be planned for.
Timed(rows) == \A id \in Waiting(rows) : rows[id].unlock \in Nat

RowsRead(s) == s.at \in {"own", "own keys", "guard", "guard keys"} => Timed(s.rows)

\* The reminders set are on the list, are of what waited, and hold the end of each.
RemindersTrue(os, listed, rows) ==
    /\ os \subseteq listed /\ Timed(rows)
    /\ \A k \in os : k # OtherReminder => k.id \in Waiting(rows)
    /\ story.reader = "guardian" => \A k \in os : k.guard = TRUE
    /\ story.reader = "owner" => \A k \in os : k.guard = FALSE \/ k = OtherReminder
    /\ \A id \in Waiting(rows) :
          rows[id].unlock > chain.clock =>
              \E k \in os : k.id = id /\ k.name = "end" /\ k.at = rows[id].unlock

\* The list the reminders are on and the rows they are of, while a scan is about to write
\* them down and after it has.
SetList(s, k) == IF s.at \in {"own keys", "guard keys"} THEN s.keys.listed ELSE k.listed

SetRows(s, k) ==
    IF \/ story.reader = "owner" /\ s.at = "own keys"
       \/ story.reader = "guardian" /\ s.at = "guard keys"
    THEN s.rows ELSE k.last

RemindInv == Phone /\ faults = 0 => RemindersTrue(kept.os, SetList(scan, kept), SetRows(scan, kept))

AlertsInv ==
    /\ AlertTypes /\ EndsInv /\ BrakesInv
    /\ faults = 0 => Remembers /\ told.again = {}
    /\ NewIsFinite(scan) /\ GuardList /\ RowsRead(scan) /\ RemindInv

-----------------------------------------------------------------------------
(* Alerts: what is said of an end and of a brake                           *)

\* What is true of a withdrawal stays true.
LEMMA SaidStays ==
    ASSUME NEW c, NEW d, VaultInv(c), Follows(c, d), NEW k, SaidTrue(k, c)
    PROVE  SaidTrue(k, d)
  <1> SUFFICES ASSUME k.name \in {"PAID", "STOPPED", "SKIPPED", "RECOVERED", "HELD"} PROVE SaidTrue(k, d)
    BY DEF SaidTrue
  <1>1. /\ k.id \in HeldIds /\ c.rows[k.id].st # "none"
        /\ (k.name = c.rows[k.id].st) \/ (k.name = "RECOVERED" /\ c.rows[k.id].held \in c.recovered)
    BY DEF SaidTrue
  <1>2. PICK id, row, next : id = k.id /\ row = c.rows[id] /\ next = d.rows[id]
    OBVIOUS
  <1>3. next = row \/ (row.st = "pending" /\ next.st \in Ended /\ next.held = row.held)
    BY <1>1, <1>2 DEF Follows
  <1>4. next.st # "none" /\ next.held = row.held
    BY <1>1, <1>2, <1>3 DEF Ended
  <1>5. k.name = row.st => k.name = next.st
    BY <1>3
  <1>6. (k.name = next.st) \/ (k.name = "RECOVERED" /\ next.held \in d.recovered)
    BY <1>1, <1>2, <1>4, <1>5 DEF Follows
  <1> QED
    BY <1>1, <1>2, <1>4, <1>6 DEF SaidTrue

\* A row as it was read stays one this withdrawal had.
LEMMA ReadStays ==
    ASSUME NEW c, NEW d, Follows(c, d), NEW id \in HeldIds, NEW row, NEW delay, ReadTrue(row, delay, c.rows[id])
    PROVE  ReadTrue(row, delay, d.rows[id])
  <1>1. PICK p, q : p = c.rows[id] /\ q = d.rows[id]
    OBVIOUS
  <1>2. q = p \/ (p.st = "pending" /\ q.st \in Ended /\ q.held = p.held)
    BY <1>1 DEF Follows, ReadTrue
  <1>3. q.st # "none" /\ q.held = p.held
    BY <1>1, <1>2 DEF ReadTrue, Ended
  <1> QED
    BY <1>1, <1>3 DEF ReadTrue

\* The time a withdrawal is taken to have been held is never before it was.
LEMMA CreatedNotEarly ==
    ASSUME NEW c, VaultInv(c), NEW id \in HeldIds, NEW row, NEW delay \in Nat, ReadTrue(row, delay, c.rows[id])
    PROVE  CreatedAt(c.log, row, id, delay) \in Int /\ CreatedAt(c.log, row, id, delay) >= c.rows[id].held
  <1>1. PICK log, held, entries : log = c.log /\ held = c.rows[id].held /\ entries = HeldEntries(c.log, id)
    OBVIOUS
  <1>2. log \in Seq(LogRow) /\ held \in Nat /\ row.unlock \in Nat /\ row.unlock >= held + delay
    BY <1>1 DEF VaultInv, AnyVault, HeldRow, ReadTrue
  <1>3. CASE entries # {}
    <2>1. /\ entries \subseteq DOMAIN log /\ \A i \in entries : log[i].kind = "HELD" /\ log[i].id = id
      BY <1>1 DEF HeldEntries
    <2>2. DOMAIN log = 1 .. Len(log) /\ Len(log) \in Nat
      BY <1>2
    <2>3. IsFiniteSet(1 .. Len(log))
      BY <2>2, FS_Interval
    <2>4. IsFiniteSet(entries) /\ entries \subseteq Int
      BY <2>1, <2>2, <2>3, FS_Subset
    <2>5. PICK i : i = Max(entries)
      OBVIOUS
    <2>6. i \in entries
      BY <1>3, <2>4, <2>5, Greatest
    <2>7. EntryTrue(log[i], c) /\ log[i].kind = "HELD" /\ log[i].id = id
      BY <1>1, <2>1, <2>6 DEF VaultInv
    <2>8. log[i].ts = held
      BY <1>1, <2>7 DEF EntryTrue
    <2>9. CreatedAt(c.log, row, id, delay) = log[i].ts
      BY <1>1, <1>3, <2>5 DEF CreatedAt
    <2> QED BY <1>1, <1>2, <2>8, <2>9
  <1>4. CASE entries = {}
    <2>1. CreatedAt(c.log, row, id, delay) \in {row.unlock - delay, row.unlock}
      BY <1>1, <1>4 DEF CreatedAt
    <2> QED BY <1>1, <1>2, <2>1
  <1> QED
    BY <1>3, <1>4

\* No mark of a plan is the name of an end.
LEMMA CadenceNames ==
    ASSUME NEW id, NEW row, NEW created, NEW time, NEW k \in Cadence(id, row, created, time)
    PROVE  k.name \notin {"PAID", "STOPPED", "SKIPPED", "RECOVERED", "HELD"}
  <1>1. PICK m \in Marks(created, row.unlock) : k = [id |-> id, name |-> m.name, n |-> m.n]
    BY DEF Cadence
  <1>2. m.name \in {"created", "1h", "12h", "every_12h", "6h_before", "1h_before"}
    BY DEF Marks, Mark
  <1> QED
    BY <1>1, <1>2

\* What the watcher says is so: an end on record is the end, and a recovery after a
\* withdrawal was held has cleared it.
LEMMA WatcherSaysTrue ==
    ASSUME AlertTypes, EndsInv, EndsStayOnRecord, scan.at = "ledger",
           NEW k \in AlertsForVault(scan.rows, scan.delay, chain.log, chain.clock)
    PROVE  SaidTrue(k, chain)
  <1>1. PICK c, log, rows, delay : c = chain /\ log = c.log /\ rows = scan.rows /\ delay = scan.delay
    OBVIOUS
  <1>2. /\ VaultInv(c) /\ delay \in Nat /\ log \in Seq(LogRow)
        /\ \A id \in Waiting(rows) : ReadTrue(rows[id], delay, c.rows[id])
    BY <1>1 DEF AlertTypes, EndsInv, VaultInv, AnyVault
  <1> DEFINE Over == {id \in HeldIds : EndKinds(log, id) # {}}
             Gone == {id \in Waiting(rows) \ Over : RecoveredSince(log, CreatedAt(log, rows[id], id, delay))}
  <1>3. \/ \E id \in HeldIds : \E kind \in EndKinds(log, id) : k = [id |-> id, name |-> kind, n |-> 0]
        \/ \E id \in Gone : k = [id |-> id, name |-> "RECOVERED", n |-> 0]
        \/ \E id \in Waiting(rows) : k \in Cadence(id, rows[id], CreatedAt(log, rows[id], id, delay), c.clock)
    <2>1. k \in AlertsForVault(rows, delay, log, c.clock)
      BY <1>1
    <2> QED BY <2>1 DEF AlertsForVault
  <1>4. ASSUME NEW id \in HeldIds, NEW kind \in EndKinds(log, id), k = [id |-> id, name |-> kind, n |-> 0]
        PROVE  SaidTrue(k, c)
    <2>1. PICK i \in DOMAIN log : log[i].id = id /\ kind = log[i].kind /\ kind \in {"PAID", "STOPPED", "SKIPPED"}
      BY <1>4 DEF EndKinds
    <2>2. EntryTrue(log[i], c)
      BY <1>1, <1>2 DEF VaultInv
    <2>3. c.rows[id].st = kind
      BY <2>1, <2>2 DEF EntryTrue
    <2>4. k.id = id /\ k.name = kind
      BY <1>4
    <2> QED BY <2>1, <2>3, <2>4 DEF SaidTrue
  <1>5. ASSUME NEW id \in Gone, k = [id |-> id, name |-> "RECOVERED", n |-> 0] PROVE SaidTrue(k, c)
    <2>1. /\ id \in Waiting(rows) /\ id \in HeldIds /\ EndKinds(log, id) = {}
          /\ RecoveredSince(log, CreatedAt(log, rows[id], id, delay))
      BY DEF Waiting
    <2>2. PICK created, row : created = CreatedAt(log, rows[id], id, delay) /\ row = c.rows[id]
      OBVIOUS
    <2>3. created \in Int /\ created >= row.held /\ ReadTrue(rows[id], delay, row)
      BY <1>1, <1>2, <2>1, <2>2, CreatedNotEarly
    <2>4. row \in HeldRow /\ row.st # "none"
      BY <1>2, <2>1, <2>2, <2>3 DEF VaultInv, AnyVault, ReadTrue
    <2>5. row.st \notin {"PAID", "STOPPED", "SKIPPED"}
      <3> SUFFICES ASSUME row.st \in {"PAID", "STOPPED", "SKIPPED"} PROVE FALSE
        OBVIOUS
      <3>1. PICK i \in DOMAIN log : log[i].id = id /\ log[i].kind = row.st
        BY <1>1, <2>1, <2>2 DEF EndsStayOnRecord
      <3>2. row.st \in EndKinds(log, id)
        BY <3>1 DEF EndKinds
      <3> QED BY <2>1, <3>2
    <2>6. row.st = "RECOVERED" \/ id \in Waiting(c.rows)
      BY <2>1, <2>2, <2>4, <2>5 DEF HeldRow, Ended, Waiting
    <2>7. ASSUME id \in Waiting(c.rows) PROVE row.held \in c.recovered
      <3>1. PICK all : all = {i \in DOMAIN log : log[i].kind = "RECOVERED"}
        OBVIOUS
      <3>2. all # {} /\ log[Max(all)].ts >= created
        BY <2>1, <2>2, <3>1 DEF RecoveredSince
      <3>3. DOMAIN log = 1 .. Len(log) /\ Len(log) \in Nat
        BY <1>2
      <3>4. IsFiniteSet(1 .. Len(log))
        BY <3>3, FS_Interval
      <3>5. IsFiniteSet(all) /\ all \subseteq Int
        BY <3>1, <3>3, <3>4, FS_Subset
      <3>6. PICK i : i = Max(all)
        OBVIOUS
      <3>7. i \in DOMAIN log /\ log[i].kind = "RECOVERED"
        BY <3>1, <3>2, <3>5, <3>6, Greatest
      <3>8. EntryTrue(log[i], c)
        BY <1>1, <1>2, <3>7 DEF VaultInv
      <3>9. PICK t : t = log[i].ts
        OBVIOUS
      <3>10. t \in c.recovered /\ t \in Nat
        BY <1>2, <3>7, <3>8, <3>9 DEF EntryTrue, VaultInv, AnyVault
      <3>11. t <= row.held
        BY <1>2, <2>2, <2>7, <3>10 DEF VaultInv
      <3>12. t >= created
        BY <3>2, <3>6, <3>9
      <3>13. row.held \in Nat
        BY <2>4 DEF HeldRow
      <3>14. t = row.held
        BY <2>3, <3>10, <3>11, <3>12, <3>13
      <3> QED BY <3>10, <3>14
    <2>8. k.id = id /\ k.name = "RECOVERED"
      BY <1>5
    <2> QED BY <2>1, <2>2, <2>4, <2>6, <2>7, <2>8 DEF SaidTrue
  <1>6. ASSUME NEW id \in Waiting(rows),
               k \in Cadence(id, rows[id], CreatedAt(log, rows[id], id, delay), c.clock)
        PROVE  SaidTrue(k, c)
    BY <1>6, CadenceNames DEF SaidTrue
  <1> QED
    BY <1>1, <1>3, <1>4, <1>5, <1>6

\* Three steps tell something, and one reads the vault for the watcher.
LEMMA ToldSteps ==
    ASSUME AlertTypes, [AlertsNext]_alertVars
    PROVE  /\ story' = story
           /\ told' = told \/ RaiseHoldAlerts \/ RaiseForOwner \/ RaiseForGuardian
           /\ \/ scan' = scan \/ scan'.at # "ledger"
              \/ ReadVault
  <1>1. story' = story
    BY DEF AlertsNext, alertVars, Scans, Brakes, BeginScan, ReadVault, RaiseHoldAlerts, StoreJournal, BeginPhoneScan,
           RaiseForOwner, WriteOwnerKeys, DiscoverGuardedVaults, RaiseForGuardian, WriteGuardKeys, ScanFails,
           OwnerHalfFails, OpenGuard, BrakeBounces, BrakeTimesOut, SaysResult, CloseGuard, GuardBrake,
           ChainMoves, OtherVaultMoves, BrakeLands
  <1>2. told' = told \/ RaiseHoldAlerts \/ RaiseForOwner \/ RaiseForGuardian
    BY DEF AlertsNext, alertVars, Scans, Brakes, BeginScan, ReadVault, StoreJournal, BeginPhoneScan,
           WriteOwnerKeys, DiscoverGuardedVaults, WriteGuardKeys, ScanFails,
           OwnerHalfFails, OpenGuard, BrakeBounces, BrakeTimesOut, SaysResult, CloseGuard, GuardBrake,
           ChainMoves, OtherVaultMoves, BrakeLands
  <1>3. scan' = scan \/ scan'.at # "ledger" \/ ReadVault
    <2>1. CASE BeginScan
      BY <2>1 DEF BeginScan, AlertTypes, ScanShape
    <2>2. CASE RaiseHoldAlerts \/ StoreJournal \/ BeginPhoneScan
      <3>1. \/ scan' = Idle
            \/ \E at \in {"store", "find"} : scan' = [Idle EXCEPT !.at = at]
            \/ scan' = [Idle EXCEPT !.at = "own", !.rows = chain.rows, !.delay = chain.delay]
        BY <2>2 DEF RaiseHoldAlerts, StoreJournal, BeginPhoneScan
      <3>2. scan' = Idle => scan'.at = "idle"
        BY DEF Idle
      <3>3. ASSUME NEW at \in {"store", "find"}, scan' = [Idle EXCEPT !.at = at] PROVE scan'.at # "ledger"
        BY <3>3 DEF Idle
      <3>4. scan' = [Idle EXCEPT !.at = "own", !.rows = chain.rows, !.delay = chain.delay] => scan'.at = "own"
        BY DEF Idle
      <3> QED BY <3>1, <3>2, <3>3, <3>4
    <2>3. CASE RaiseForOwner
      <3>1. \E keys : scan' = [Idle EXCEPT !.at = "own keys", !.rows = scan.rows, !.keys = keys]
        BY <2>3 DEF RaiseForOwner
      <3> QED BY <3>1 DEF Idle
    <2>4. CASE RaiseForGuardian
      <3>1. \E keys : scan' = [Idle EXCEPT !.at = "guard keys", !.rows = scan.rows, !.keys = keys]
        BY <2>4 DEF RaiseForGuardian
      <3> QED BY <3>1 DEF Idle
    <2>5. CASE DiscoverGuardedVaults
      <3>1. \E rows : scan' = [Idle EXCEPT !.at = "guard", !.rows = rows, !.delay = chain.delay]
        BY <2>5 DEF DiscoverGuardedVaults
      <3> QED BY <3>1 DEF Idle
    <2>6. CASE WriteOwnerKeys \/ WriteGuardKeys \/ ScanFails \/ OwnerHalfFails
      <3>1. scan' = Idle \/ scan' = [Idle EXCEPT !.at = "find"]
        BY <2>6 DEF WriteOwnerKeys, WriteGuardKeys, ScanFails, OwnerHalfFails
      <3> QED BY <3>1 DEF Idle
    <2>7. CASE ChainMoves \/ OtherVaultMoves \/ UNCHANGED alertVars
      BY <2>7 DEF ChainMoves, OtherVaultMoves, alertVars
    <2>8. CASE Brakes
      BY <2>8 DEF Brakes, OpenGuard, BrakeLands, BrakeBounces, BrakeTimesOut, SaysResult, CloseGuard, GuardBrake
    <2> QED BY <2>1, <2>2, <2>3, <2>4, <2>5, <2>6, <2>7, <2>8 DEF AlertsNext, Scans
  <1> QED BY <1>1, <1>2, <1>3

\* What was said of an end stays true, and what is said now is.
LEMMA EndsStep ==
    ASSUME AlertTypes, EndsInv, EndsStayOnRecord, [AlertsNext]_alertVars
    PROVE  EndsInv'
  <1>1. VaultInv(chain') /\ Follows(chain, chain') /\ VaultInv(chain)
    BY ChainFollows DEF AlertTypes
  <1>2. PICK c, d : c = chain /\ d = chain'
    OBVIOUS
  <1>3. scan'.at = "ledger" =>
          /\ scan'.delay \in Nat
          /\ \A id \in Waiting(scan'.rows) : ReadTrue(scan'.rows[id], scan'.delay, d.rows[id])
    <2> SUFFICES ASSUME scan'.at = "ledger"
                 PROVE  /\ scan'.delay \in Nat
                        /\ \A id \in Waiting(scan'.rows) : ReadTrue(scan'.rows[id], scan'.delay, d.rows[id])
      OBVIOUS
    <2>1. CASE scan' = scan
      <3>1. PICK s : s = scan
        OBVIOUS
      <3>2. /\ s.delay \in Nat /\ \A id \in Waiting(s.rows) : ReadTrue(s.rows[id], s.delay, c.rows[id])
        BY <1>2, <2>1, <3>1 DEF EndsInv
      <3>3. \A id \in Waiting(s.rows) : ReadTrue(s.rows[id], s.delay, d.rows[id])
        BY <1>1, <1>2, <3>2, ReadStays DEF Waiting
      <3> QED BY <2>1, <3>1, <3>2, <3>3
    <2>2. CASE ReadVault
      <3>1. scan' = [scan EXCEPT !.at = "ledger", !.rows = chain.rows, !.delay = chain.delay] /\ d = c
        BY <1>2, <2>2 DEF ReadVault
      <3>2. scan'.rows = c.rows /\ scan'.delay = c.delay
        BY <1>2, <3>1 DEF AlertTypes, ScanShape
      <3>3. c.delay \in Nat /\ c.rows \in [HeldIds -> HeldRow]
        BY <1>1, <1>2 DEF VaultInv, AnyVault
      <3>4. ASSUME NEW id \in Waiting(c.rows) PROVE ReadTrue(c.rows[id], c.delay, c.rows[id])
        <4>1. id \in HeldIds /\ c.rows[id].st = "pending" /\ c.rows[id] \in HeldRow
          BY <3>3, <3>4 DEF Waiting
        <4>2. c.rows[id].unlock >= c.rows[id].held + c.delay
          BY <1>1, <1>2, <4>1 DEF VaultInv
        <4> QED BY <4>1, <4>2 DEF ReadTrue, HeldRow
      <3> QED BY <3>1, <3>2, <3>3, <3>4
    <2> QED BY <2>1, <2>2, ToldSteps
  <1>4. story'.reader = "watcher" => \A k \in told'.once : SaidTrue(k, d)
    <2> SUFFICES ASSUME story.reader = "watcher", NEW k \in told'.once PROVE SaidTrue(k, d)
      BY ToldSteps
    <2>1. k \in told.once => SaidTrue(k, c)
      BY <1>2 DEF EndsInv
    <2>2. CASE told' = told
      BY <1>1, <1>2, <2>1, <2>2, SaidStays
    <2>3. CASE RaiseHoldAlerts
      <3>1. PICK events : /\ events = Fresh(AlertsForVault(scan.rows, scan.delay, chain.log, chain.clock))
                          /\ Tell(events)
        BY <2>3 DEF RaiseHoldAlerts
      <3>2. told'.once = told.once \union events
        BY <3>1 DEF Tell
      <3>3. scan.at = "ledger" /\ d = c
        BY <1>2, <2>3 DEF RaiseHoldAlerts
      <3>4. k \in events => k \in AlertsForVault(scan.rows, scan.delay, chain.log, chain.clock)
        BY <3>1 DEF Fresh
      <3>5. k \in events => SaidTrue(k, c)
        BY <1>2, <3>3, <3>4, WatcherSaysTrue
      <3> QED BY <2>1, <3>2, <3>3, <3>5
    <2>4. ~RaiseForOwner /\ ~RaiseForGuardian
      BY DEF RaiseForOwner, RaiseForGuardian, AlertTypes, Places
    <2> QED BY <2>2, <2>3, <2>4, ToldSteps
  <1> QED
    BY <1>2, <1>3, <1>4 DEF EndsInv

\* What a brake did stays done.
LEMMA BrakesStep ==
    ASSUME AlertTypes, BrakesInv, [AlertsNext]_alertVars
    PROVE  BrakesInv'
  <1>1. VaultInv(chain') /\ Follows(chain, chain') /\ VaultInv(chain)
    BY ChainFollows DEF AlertTypes
  <1>2. PICK c, d, b, n : c = chain /\ d = chain' /\ b = brake /\ n = brake'
    OBVIOUS
  <1>3. PICK Held, Ok : /\ Held = (\A id \in Waiting(b.rows) : d.rows[id].st # "none")
                        /\ Ok = (/\ b.kind = "stop" => b.id \in HeldIds /\ d.rows[b.id].st = "STOPPED"
                                 /\ b.kind = "recover" => Waiting(b.rows) \cap Waiting(d.rows) = {}
                                 /\ b.kind = "freeze" => d.frozen)
    OBVIOUS
  <1>4. b.at # "off" => Held
    <2> SUFFICES ASSUME b.at # "off", NEW id \in Waiting(b.rows) PROVE d.rows[id].st # "none"
      BY <1>3
    <2>1. id \in HeldIds /\ c.rows[id].st # "none"
      BY <1>2 DEF BrakesInv, Waiting
    <2> QED BY <1>1, <1>2, <2>1 DEF Follows, Ended
  <1>5. b.at \in {"landed", "said"} => Ok
    <2> SUFFICES ASSUME b.at \in {"landed", "said"} PROVE Ok
      OBVIOUS
    <2>1. b.kind = "stop" => b.id \in HeldIds /\ d.rows[b.id].st = "STOPPED"
      <3> SUFFICES ASSUME b.kind = "stop" PROVE b.id \in HeldIds /\ d.rows[b.id].st = "STOPPED"
        OBVIOUS
      <3>1. b.id \in HeldIds /\ c.rows[b.id].st = "STOPPED"
        BY <1>2 DEF BrakesInv
      <3> QED BY <1>1, <1>2, <3>1 DEF Follows
    <2>2. b.kind = "recover" => Waiting(b.rows) \cap Waiting(d.rows) = {}
      <3> SUFFICES ASSUME b.kind = "recover", NEW id \in HeldIds, b.rows[id].st = "pending", d.rows[id].st = "pending"
                   PROVE  FALSE
        BY DEF Waiting
      <3>1. id \in Waiting(b.rows) /\ b.at # "off"
        BY DEF Waiting
      <3>2. c.rows[id].st # "none" /\ c.rows[id].st # "pending"
        BY <1>2, <3>1 DEF BrakesInv, Waiting
      <3> QED BY <1>1, <1>2, <3>2 DEF Follows
    <2>3. b.kind = "freeze" => d.frozen
      BY <1>1, <1>2 DEF BrakesInv, Follows
    <2> QED BY <1>3, <2>1, <2>2, <2>3
  <1>6. \/ n = b
        \/ n = NoBrake
        \/ n.at = "open" /\ \A id \in Waiting(n.rows) : d.rows[id].st # "none"
        \/ n.at \in {"sent", "late"} /\ b.at # "off" /\ n.rows = b.rows
        \/ n.at = "said" /\ b.at = "landed" /\ n.rows = b.rows /\ n.kind = b.kind /\ n.id = b.id
        \/ BrakeLands /\ n.at = "landed" /\ n.rows = b.rows /\ n.kind = b.kind /\ n.id = b.id
    <2>1. CASE OpenGuard
      <3>1. PICK key : n = [at |-> "open", kind |-> "none", id |-> key.id, rows |-> chain.rows, frozen |-> chain.frozen]
        BY <1>2, <2>1 DEF OpenGuard
      <3>2. n.at = "open" /\ n.rows = c.rows /\ d = c
        BY <1>2, <2>1, <3>1 DEF OpenGuard
      <3> QED BY <3>2 DEF Waiting
    <2>2. CASE BrakeLands \/ BrakeTimesOut \/ SaysResult \/ \E kind \in {"stop", "freeze", "recover"} : GuardBrake(kind)
      <3>1. b.at \in {"open", "sent", "late", "landed"} /\ b.at # "off"
        BY <1>2, <2>2 DEF BrakeLands, BrakeTimesOut, SaysResult, Confirmed, GuardBrake
      <3>2. b = BrakeShape(b)
        BY <1>2, <3>1 DEF AlertTypes, NoBrake
      <3>3. CASE BrakeLands
        <4>1. \/ n = [b EXCEPT !.at = "landed"] \/ n = NoBrake
          BY <1>2, <3>3 DEF BrakeLands
        <4> QED BY <3>2, <3>3, <4>1 DEF BrakeShape
      <3>4. CASE BrakeTimesOut
        <4>1. n = [b EXCEPT !.at = "late"]
          BY <1>2, <3>4 DEF BrakeTimesOut
        <4> QED BY <3>1, <3>2, <4>1 DEF BrakeShape
      <3>5. CASE SaysResult
        <4>1. n = [b EXCEPT !.at = "said"] /\ b.at = "landed"
          BY <1>2, <3>5 DEF SaysResult, Confirmed
        <4> QED BY <3>1, <3>2, <4>1 DEF BrakeShape
      <3>6. CASE \E kind \in {"stop", "freeze", "recover"} : GuardBrake(kind)
        <4>1. \E kind : n = [b EXCEPT !.at = "sent", !.kind = kind]
          BY <1>2, <3>6 DEF GuardBrake
        <4> QED BY <3>1, <3>2, <4>1 DEF BrakeShape
      <3> QED BY <2>2, <3>3, <3>4, <3>5, <3>6
    <2>3. CASE BrakeBounces \/ CloseGuard
      BY <1>2, <2>3 DEF BrakeBounces, CloseGuard
    <2>4. CASE Scans \/ ScanFails \/ OwnerHalfFails
      BY <1>2, <2>4 DEF Scans, BeginScan, ReadVault, RaiseHoldAlerts, StoreJournal, BeginPhoneScan, RaiseForOwner,
             WriteOwnerKeys, DiscoverGuardedVaults, RaiseForGuardian, WriteGuardKeys, ScanFails, OwnerHalfFails
    <2>5. CASE ChainMoves \/ OtherVaultMoves \/ UNCHANGED alertVars
      BY <1>2, <2>5 DEF ChainMoves, OtherVaultMoves, alertVars
    <2> QED BY <2>1, <2>2, <2>3, <2>4, <2>5 DEF AlertsNext, Brakes
  <1>7. n.at # "off" => \A id \in Waiting(n.rows) : d.rows[id].st # "none"
    <2>1. BrakeLands => b.at # "off"
      BY <1>2 DEF BrakeLands
    <2> QED BY <1>3, <1>4, <1>6, <2>1 DEF NoBrake
  <1>8. n.at \in {"landed", "said"} =>
          /\ n.kind = "stop" => n.id \in HeldIds /\ d.rows[n.id].st = "STOPPED"
          /\ n.kind = "recover" => Waiting(n.rows) \cap Waiting(d.rows) = {}
          /\ n.kind = "freeze" => d.frozen
    <2>1. ASSUME BrakeLands
          PROVE  /\ b.kind = "stop" => b.id \in HeldIds /\ d.rows[b.id].st = "STOPPED"
                 /\ b.kind = "recover" => Waiting(b.rows) \cap Waiting(d.rows) = {}
                 /\ b.kind = "freeze" => d.frozen
      BY <1>2, <2>1, BrakeFollows
    <2>2. CASE n = b
      BY <1>3, <1>5, <2>2
    <2>3. CASE n.at = "said" /\ b.at = "landed" /\ n.rows = b.rows /\ n.kind = b.kind /\ n.id = b.id
      BY <1>3, <1>5, <2>3
    <2>4. CASE BrakeLands /\ n.at = "landed" /\ n.rows = b.rows /\ n.kind = b.kind /\ n.id = b.id
      BY <2>1, <2>4
    <2> QED BY <1>6, <2>2, <2>3, <2>4 DEF NoBrake
  <1> QED
    BY <1>2, <1>7, <1>8 DEF BrakesInv

-----------------------------------------------------------------------------
(* Alerts: what is told once                                               *)

\* Without a failure, a step of a scan is one of its own reader.
LEMMA StepsOfScans ==
    ASSUME AlertTypes, [AlertsNext]_alertVars
    PROVE  \/ UNCHANGED <<scan, kept, told>>
           \/ faults' # 0
           \/ /\ story.reader = "watcher" /\ UNCHANGED chain
              /\ \/ BeginScan \/ ReadVault \/ RaiseHoldAlerts \/ StoreJournal
           \/ /\ story.reader = "owner" /\ UNCHANGED chain
              /\ \/ BeginPhoneScan \/ RaiseForOwner \/ WriteOwnerKeys
                 \/ DiscoverGuardedVaults \/ RaiseForGuardian \/ WriteGuardKeys
           \/ /\ story.reader = "guardian" /\ UNCHANGED chain
              /\ \/ BeginPhoneScan
                 \/ DiscoverGuardedVaults \/ RaiseForGuardian \/ WriteGuardKeys
  <1>1. CASE ChainMoves \/ OtherVaultMoves \/ Brakes \/ UNCHANGED alertVars
    <2>1. CASE ChainMoves \/ OtherVaultMoves \/ UNCHANGED alertVars
      BY <2>1 DEF ChainMoves, OtherVaultMoves, alertVars
    <2>2. CASE Brakes
      <3>1. scan' = scan /\ kept' = kept /\ told' = told
        BY <2>2 DEF Brakes, OpenGuard, BrakeLands, BrakeBounces, BrakeTimesOut, SaysResult, CloseGuard, GuardBrake
      <3> QED BY <3>1
    <2> QED BY <1>1, <2>1, <2>2
  <1>2. CASE ScanFails \/ OwnerHalfFails
    <2>1. faults' = faults + 1
      BY <1>2 DEF ScanFails, OwnerHalfFails, Fails
    <2>2. faults \in Nat
      BY DEF AlertTypes
    <2> QED BY <2>1, <2>2
  <1>3. CASE Scans
    <2>1. scan.at \in Places(story.reader) /\ story.reader \in {"watcher", "owner", "guardian"}
      BY DEF AlertTypes
    <2>2. UNCHANGED chain
      BY <1>3 DEF Scans, BeginScan, ReadVault, RaiseHoldAlerts, StoreJournal, BeginPhoneScan, RaiseForOwner,
                  WriteOwnerKeys, DiscoverGuardedVaults, RaiseForGuardian, WriteGuardKeys
    <2>3. /\ BeginScan \/ RaiseHoldAlerts => story.reader = "watcher"
          /\ BeginPhoneScan => story.reader \in {"owner", "guardian"}
          /\ ReadVault => scan.at = "vault"
          /\ StoreJournal => scan.at = "store"
          /\ RaiseForOwner => scan.at = "own"
          /\ WriteOwnerKeys => scan.at = "own keys"
          /\ DiscoverGuardedVaults => scan.at = "find"
          /\ RaiseForGuardian => scan.at = "guard"
          /\ WriteGuardKeys => scan.at = "guard keys"
      BY DEF BeginScan, ReadVault, RaiseHoldAlerts, StoreJournal, BeginPhoneScan, RaiseForOwner, Phone,
                  WriteOwnerKeys, DiscoverGuardedVaults, RaiseForGuardian, WriteGuardKeys
    <2>4. /\ scan.at \in {"vault", "store"} => story.reader = "watcher"
          /\ scan.at \in {"own", "own keys"} => story.reader = "owner"
          /\ scan.at \in {"find", "guard", "guard keys"} => story.reader \in {"owner", "guardian"}
      BY <2>1 DEF Places
    <2> QED BY <1>3, <2>2, <2>3, <2>4 DEF Scans
  <1> QED
    BY <1>1, <1>2, <1>3 DEF AlertsNext

\* A failure is not forgotten.
LEMMA FaultsGrow ==
    ASSUME AlertTypes, [AlertsNext]_alertVars, faults' = 0 PROVE faults = 0
  <1>1. faults' \in {faults, faults + 1}
    BY DEF AlertsNext, alertVars, Scans, Brakes, BeginScan, ReadVault, RaiseHoldAlerts, StoreJournal, BeginPhoneScan,
           RaiseForOwner, WriteOwnerKeys, DiscoverGuardedVaults, RaiseForGuardian, WriteGuardKeys, ScanFails,
           OwnerHalfFails, OpenGuard, BrakeBounces, BrakeTimesOut, SaysResult, CloseGuard, GuardBrake,
           ChainMoves, OtherVaultMoves, BrakeLands, Fails
  <1> QED BY <1>1 DEF AlertTypes

\* Nothing drops off a list that is not too long.
LEMMA LastSeenKeeps ==
    ASSUME NEW S, NEW list \in Seq(S), SEEN_CAP \in Nat
    PROVE  LastSeen(list) \in Seq(S) /\ (Len(list) <= SEEN_CAP => LastSeen(list) = list)
  <1>1. PICK n, drop : n = Len(list) /\ drop = IF Len(list) > SEEN_CAP THEN Len(list) - SEEN_CAP ELSE 0
    OBVIOUS
  <1>2. n \in Nat /\ drop \in Nat /\ drop <= n
    BY <1>1
  <1>3. LastSeen(list) = SubSeq(list, 1 + drop, n)
    BY <1>1 DEF LastSeen
  <1>4. PICK m : m = 1 + drop
    OBVIOUS
  <1>5. m \in Nat \ {0} /\ m <= n + 1
    BY <1>2, <1>4
  <1>6. SubSeq(list, m, n) \in Seq(S)
    BY <1>1, <1>2, <1>5
  <1>7. n <= SEEN_CAP => SubSeq(list, m, n) = list
    <2>1. SubSeq(list, 1, n) = list
      BY <1>1, SubSeqFull
    <2>2. n <= SEEN_CAP => drop = 0
      BY <1>1, <1>2
    <2>3. n <= SEEN_CAP => m = 1
      BY <1>4, <2>2
    <2> QED BY <2>1, <2>3
  <1> QED
    BY <1>1, <1>3, <1>4, <1>6, <1>7

\* An order of a finite set is a sequence of all of it.
LEMMA OrderIsAll ==
    ASSUME NEW T, IsFiniteSet(T), NEW order \in SetToSeqs(T)
    PROVE  order \in Seq(T) /\ Len(order) = Cardinality(T) /\ T \subseteq ToSet(order)
  <1>1. PICK n : n = Cardinality(T)
    OBVIOUS
  <1>2. n \in Nat
    BY <1>1, FS_CardinalityType
  <1>3. order \in [1 .. n -> T] /\ \A i, j \in 1 .. n : i # j => order[i] # order[j]
    BY <1>1 DEF SetToSeqs
  <1>4. order \in Seq(T) /\ Len(order) = n /\ DOMAIN order = 1 .. n
    BY <1>2, <1>3
  <1>5. order \in Injection(1 .. n, T)
    BY <1>3 DEF Injection, IsInjective
  <1>6. Cardinality(1 .. n) = n
    BY <1>2, FS_Interval
  <1>7. order \in Surjection(1 .. n, T)
    BY <1>1, <1>5, <1>6, FS_Injection
  <1>8. \A t \in T : \E i \in 1 .. n : order[i] = t
    BY <1>7 DEF Surjection
  <1> QED
    BY <1>1, <1>4, <1>8 DEF ToSet

\* The alerts one scan finds are finitely many.
LEMMA GuardAlertsFinite ==
    ASSUME MaxId \in Nat PROVE IsFiniteSet(GuardAlertsFor)
  <1>1. CASE story.reader = "owner"
    BY <1>1, FS_EmptySet DEF GuardAlertsFor
  <1>2. CASE story.reader # "owner"
    <2> DEFINE W == Waiting(scan.rows)
               T == {Key(TRUE, id, "held", 0) : id \in W}
               U == {k \in {Key(TRUE, 0, "change", chain.change.at)} : chain.change.on}
               f == [id \in W |-> Key(TRUE, id, "held", 0)]
    <2>1. W \subseteq 1 .. MaxId /\ IsFiniteSet(1 .. MaxId)
      BY FS_Interval DEF Waiting, HeldIds
    <2>2. IsFiniteSet(W)
      BY <2>1, FS_Subset
    <2>3. f \in Surjection(W, T)
      BY DEF Surjection
    <2>4. IsFiniteSet({Key(TRUE, 0, "change", chain.change.at)})
      BY FS_Singleton
    <2>5. IsFiniteSet(U)
      BY <2>4, FS_Subset
    <2>6. GuardAlertsFor = T \union U
      BY <1>2 DEF GuardAlertsFor
    <2> HIDE DEF W, T, U, f
    <2>7. IsFiniteSet(T)
      BY <2>2, <2>3, FS_Surjection
    <2> QED BY <2>5, <2>6, <2>7, FS_Union
  <1> QED
    BY <1>1, <1>2

\* The watcher tells what its file does not have, and its file has what it told.
LEMMA WatcherRemembers ==
    ASSUME AlertTypes, [AlertsNext]_alertVars, faults' = 0, story.reader = "watcher", Remembers, told.again = {}
    PROVE  /\ scan'.at # "store" => told'.once \subseteq kept'.stored
           /\ scan'.at # "idle" => told'.once \subseteq kept'.file
           /\ told'.again = {}
  <1>1. /\ scan = ScanShape(scan) /\ kept = KeptShape(kept)
        /\ faults = 0 /\ faults' # faults + 1
    BY FaultsGrow DEF AlertTypes
  <1>2. /\ scan.at # "store" => told.once \subseteq kept.stored
        /\ scan.at # "idle" => told.once \subseteq kept.file
    BY DEF Remembers
  <1>3. CASE UNCHANGED <<scan, kept, told>>
    BY <1>2, <1>3
  <1>4. CASE BeginScan
    <2>1. scan.at = "idle" /\ told' = told /\ scan' = [scan EXCEPT !.at = "vault"]
      BY <1>4 DEF BeginScan
    <2>2. PICK file : /\ kept' = [kept EXCEPT !.file = IF kept.stored = {} THEN file ELSE kept.stored]
      BY <1>1, <1>4 DEF BeginScan, Fails
    <2>3. PICK f : f = IF kept.stored = {} THEN file ELSE kept.stored
      OBVIOUS
    <2>4. kept' = [kept EXCEPT !.file = f]
      BY <2>2, <2>3
    <2>5. kept'.stored = kept.stored /\ kept'.file = f
      BY <1>1, <2>4 DEF KeptShape
    <2>6. told.once \subseteq kept.stored
      BY <1>2, <2>1
    <2> QED BY <2>1, <2>3, <2>5, <2>6
  <1>5. CASE ReadVault
    <2>1. /\ scan.at = "vault" /\ UNCHANGED <<kept, told>>
          /\ scan' = [scan EXCEPT !.at = "ledger", !.rows = chain.rows, !.delay = chain.delay]
      BY <1>5 DEF ReadVault
    <2> QED BY <1>2, <2>1
  <1>6. CASE RaiseHoldAlerts
    <2>1. PICK events : /\ events = Fresh(AlertsForVault(scan.rows, scan.delay, chain.log, chain.clock))
                        /\ kept' = [kept EXCEPT !.file = @ \union events] /\ Tell(events)
                        /\ scan' = IF events = {} THEN Idle ELSE [Idle EXCEPT !.at = "store"]
      BY <1>6 DEF RaiseHoldAlerts
    <2>2. scan.at = "ledger"
      BY <1>6 DEF RaiseHoldAlerts
    <2>3. events \cap kept.file = {}
      BY <2>1 DEF Fresh
    <2>4. told'.once = told.once \union events /\ told'.again = told.again \union (told.once \cap events)
      BY <2>1 DEF Tell
    <2>5. PICK f : f = kept.file \union events
      OBVIOUS
    <2>6. kept' = [kept EXCEPT !.file = f]
      BY <2>1, <2>5
    <2>7. kept'.stored = kept.stored /\ kept'.file = f
      BY <1>1, <2>6 DEF KeptShape
    <2>8. IF events = {} THEN scan'.at = "idle" ELSE scan'.at = "store"
      BY <2>1 DEF Idle
    <2> QED BY <1>2, <2>2, <2>3, <2>4, <2>5, <2>7, <2>8
  <1>7. CASE StoreJournal
    <2>1. scan.at = "store" /\ scan' = Idle /\ told' = told /\ kept' = [kept EXCEPT !.stored = kept.file]
      BY <1>1, <1>7 DEF StoreJournal, Fails
    <2>2. kept'.stored = kept.file /\ scan'.at = "idle"
      BY <1>1, <2>1 DEF KeptShape, Idle
    <2> QED BY <1>2, <2>1, <2>2
  <1> QED
    BY <1>3, <1>4, <1>5, <1>6, <1>7, StepsOfScans

\* The owner's phone tells what its seen list does not have.
LEMMA OwnerRemembers ==
    ASSUME AlertTypes, [AlertsNext]_alertVars, faults' = 0, story.reader = "owner", Remembers, told.again = {}
    PROVE  /\ told'.once \subseteq IF scan'.at = "own keys" THEN scan'.keys.seen ELSE kept'.seen
           /\ told'.again = {}
  <1>1. scan = ScanShape(scan) /\ kept = KeptShape(kept)
    BY DEF AlertTypes
  <1>2. told.once \subseteq IF scan.at = "own keys" THEN scan.keys.seen ELSE kept.seen
    BY DEF Remembers
  <1>3. CASE UNCHANGED <<scan, kept, told>>
    BY <1>2, <1>3
  <1>4. CASE BeginPhoneScan
    <2>1. /\ scan.at = "idle" /\ UNCHANGED <<kept, told>>
          /\ scan' = [Idle EXCEPT !.at = "own", !.rows = chain.rows, !.delay = chain.delay]
      BY <1>4 DEF BeginPhoneScan
    <2>2. scan'.at = "own"
      BY <2>1 DEF Idle
    <2> QED BY <1>2, <2>1, <2>2
  <1>5. CASE RaiseForOwner
    <2>1. PICK planned, due, os, listed :
              /\ planned = PlannedKeys(FALSE, scan.rows, scan.delay) /\ due = DueUnseen(planned)
              /\ os = (kept.os \union Future(planned)) \ Stale(FALSE, planned)
              /\ listed = (kept.listed \union Future(planned)) \ Stale(FALSE, planned)
      OBVIOUS
    <2>2. /\ scan.at = "own" /\ Tell(due)
          /\ scan' = [Idle EXCEPT !.at = "own keys", !.rows = scan.rows,
                         !.keys = [seen |-> kept.seen \union due, listed |-> listed]]
      BY <1>5, <2>1 DEF RaiseForOwner
    <2>3. due \cap kept.seen = {}
      BY <2>1 DEF DueUnseen
    <2>4. told'.once = told.once \union due /\ told'.again = told.again \union (told.once \cap due)
      BY <2>2 DEF Tell
    <2>5. PICK keys : keys = [seen |-> kept.seen \union due, listed |-> listed]
      OBVIOUS
    <2>6. scan' = [Idle EXCEPT !.at = "own keys", !.rows = scan.rows, !.keys = keys]
      BY <2>2, <2>5
    <2>7. scan'.at = "own keys" /\ scan'.keys = keys
      BY <2>6 DEF Idle
    <2>8. keys.seen = kept.seen \union due
      BY <2>5
    <2> QED BY <1>2, <2>2, <2>3, <2>4, <2>7, <2>8
  <1>6. CASE WriteOwnerKeys
    <2>1. PICK seen, listed, last : seen = scan.keys.seen /\ listed = scan.keys.listed /\ last = scan.rows
      OBVIOUS
    <2>2. /\ scan.at = "own keys" /\ told' = told /\ scan' = [Idle EXCEPT !.at = "find"]
          /\ kept' = [kept EXCEPT !.seen = seen, !.listed = listed, !.last = last]
      BY <1>6, <2>1 DEF WriteOwnerKeys
    <2>3. kept'.seen = seen /\ scan'.at = "find"
      BY <1>1, <2>2 DEF KeptShape, Idle
    <2> QED BY <1>2, <2>1, <2>2, <2>3
  <1>7. CASE DiscoverGuardedVaults
    <2>1. PICK rows, remembered : /\ scan.at = "find" /\ told' = told /\ kept' = [kept EXCEPT !.remembered = remembered]
                                  /\ scan' = [Idle EXCEPT !.at = "guard", !.rows = rows, !.delay = chain.delay]
      BY <1>7 DEF DiscoverGuardedVaults
    <2>2. kept'.seen = kept.seen /\ scan'.at = "guard"
      BY <1>1, <2>1 DEF KeptShape, Idle
    <2> QED BY <1>2, <2>1, <2>2
  <1>8. CASE RaiseForGuardian
    <2>1. PICK new, os, listed : /\ new = {k \in GuardAlertsFor : k \notin ToSet(kept.guardSeen)}
                         /\ os = (kept.os \union Future(GuardLive)) \ Stale(TRUE, GuardLive)
                         /\ listed = (kept.listed \union Future(GuardLive)) \ Stale(TRUE, GuardLive)
      OBVIOUS
    <2>2. PICK keys : keys = [new |-> new, listed |-> listed]
      OBVIOUS
    <2>3. /\ scan.at = "guard" /\ Tell(new) /\ kept' = [kept EXCEPT !.os = os]
          /\ scan' = [Idle EXCEPT !.at = "guard keys", !.rows = scan.rows, !.keys = keys]
      BY <1>8, <2>1, <2>2 DEF RaiseForGuardian
    <2>4. new = {}
      BY <2>1 DEF GuardAlertsFor
    <2>5. told'.once = told.once /\ told'.again = {}
      BY <2>3, <2>4 DEF Tell
    <2>6. kept'.seen = kept.seen /\ scan'.at = "guard keys"
      BY <1>1, <2>3 DEF KeptShape, Idle
    <2> QED BY <1>2, <2>3, <2>5, <2>6
  <1>9. CASE WriteGuardKeys
    <2>1. PICK order : kept' = [kept EXCEPT !.listed = scan.keys.listed,
                               !.guardSeen = IF order = <<>> THEN @ ELSE LastSeen(@ \o order),
                               !.last = IF story.reader = "owner" THEN @ ELSE scan.rows]
      BY <1>9 DEF WriteGuardKeys
    <2>2. PICK list, last : /\ list = IF order = <<>> THEN kept.guardSeen ELSE LastSeen(kept.guardSeen \o order)
                            /\ last = IF story.reader = "owner" THEN kept.last ELSE scan.rows
      OBVIOUS
    <2>3. kept' = [kept EXCEPT !.listed = scan.keys.listed, !.guardSeen = list, !.last = last]
      BY <2>1, <2>2
    <2>4. kept'.seen = kept.seen
      BY <1>1, <2>3 DEF KeptShape
    <2>5. scan.at = "guard keys" /\ told' = told /\ scan'.at = "idle"
      BY <1>9 DEF WriteGuardKeys, Idle
    <2> QED BY <1>2, <2>4, <2>5
  <1> QED
    BY <1>3, <1>4, <1>5, <1>6, <1>7, <1>8, <1>9, StepsOfScans

\* What a write makes of the guardian's list.
LEMMA GuardListWritten ==
    ASSUME AlertTypes, NewIsFinite(scan), GuardList, WriteGuardKeys, SEEN_CAP \in Nat
    PROVE  /\ \E S : kept'.guardSeen \in Seq(S)
           /\ Len(kept.guardSeen) + Cardinality(scan.keys.new) <= SEEN_CAP =>
                 ToSet(kept.guardSeen) \union scan.keys.new \subseteq ToSet(kept'.guardSeen)
           /\ kept'.os = kept.os /\ kept'.listed = scan.keys.listed
           /\ kept'.last = IF story.reader = "owner" THEN kept.last ELSE scan.rows
  <1>1. PICK new, list, listed, rows : new = scan.keys.new /\ list = kept.guardSeen /\ listed = scan.keys.listed
                                       /\ rows = scan.rows
    OBVIOUS
  <1>2. IsFiniteSet(new) /\ scan.at = "guard keys"
    BY <1>1 DEF NewIsFinite, WriteGuardKeys
  <1>3. PICK S : list \in Seq(S)
    BY <1>1 DEF GuardList
  <1>4. PICK order \in SetToSeqs(new) :
            kept' = [kept EXCEPT !.listed = listed,
                                 !.guardSeen = IF order = <<>> THEN @ ELSE LastSeen(@ \o order),
                                 !.last = IF story.reader = "owner" THEN @ ELSE rows]
    BY <1>1 DEF WriteGuardKeys
  <1>5. order \in Seq(new) /\ Len(order) = Cardinality(new) /\ new \subseteq ToSet(order)
    BY <1>2, OrderIsAll
  <1>6. PICK all, next, last : /\ all = list \o order
                               /\ next = IF order = <<>> THEN list ELSE LastSeen(all)
                               /\ last = IF story.reader = "owner" THEN kept.last ELSE rows
    OBVIOUS
  <1>7. kept' = [kept EXCEPT !.listed = listed, !.guardSeen = next, !.last = last]
    BY <1>1, <1>4, <1>6
  <1>8. kept'.guardSeen = next /\ kept'.os = kept.os /\ kept'.listed = listed /\ kept'.last = last
    BY <1>7 DEF AlertTypes, KeptShape
  <1>9. PICK T : T = S \union new
    OBVIOUS
  <1>10. list \in Seq(T) /\ order \in Seq(T)
    BY <1>3, <1>5, <1>9
  <1>11. all \in Seq(T) /\ Len(all) = Len(list) + Len(order)
    BY <1>6, <1>10
  <1>12. LastSeen(all) \in Seq(T) /\ (Len(all) <= SEEN_CAP => LastSeen(all) = all)
    BY <1>11, LastSeenKeeps
  <1>13. next \in Seq(T)
    BY <1>6, <1>10, <1>12
  <1>14. ASSUME Len(list) + Cardinality(new) <= SEEN_CAP PROVE ToSet(list) \union new \subseteq ToSet(next)
    <2>1. LastSeen(all) = all
      BY <1>5, <1>11, <1>12, <1>14
    <2>2. ToSet(list) \subseteq ToSet(all)
      <3> SUFFICES ASSUME NEW i \in DOMAIN list PROVE \E j \in DOMAIN all : all[j] = list[i]
        BY DEF ToSet
      <3>1. i \in DOMAIN all /\ all[i] = list[i]
        BY <1>6, <1>10
      <3> QED BY <3>1
    <2>3. ToSet(order) \subseteq ToSet(all)
      <3> SUFFICES ASSUME NEW i \in DOMAIN order PROVE \E j \in DOMAIN all : all[j] = order[i]
        BY DEF ToSet
      <3>1. PICK j : j = Len(list) + i
        OBVIOUS
      <3>2. j \in DOMAIN all /\ all[j] = order[i]
        BY <1>6, <1>10, <3>1
      <3> QED BY <3>2
    <2>4. order = <<>> => ToSet(order) = {}
      BY DEF ToSet
    <2> QED BY <1>5, <1>6, <2>1, <2>2, <2>3, <2>4
  <1> QED
    BY <1>1, <1>6, <1>8, <1>13, <1>14

\* The guardian's phone tells what its list does not have, and the list drops nothing.
LEMMA GuardianRemembers ==
    ASSUME AlertsAssumption, AlertTypes, NewIsFinite(scan), GuardList, [AlertsNext]_alertVars, faults' = 0,
           story.reader = "guardian", Remembers, told.again = {}, SeenHoldsAll
    PROVE  /\ told'.once \subseteq ToSet(kept'.guardSeen)
                                      \union (IF scan'.at = "guard keys" THEN scan'.keys.new ELSE {})
           /\ told'.again = {}
  <1>1. scan = ScanShape(scan) /\ kept = KeptShape(kept)
    BY DEF AlertTypes
  <1>2. told.once \subseteq ToSet(kept.guardSeen) \union (IF scan.at = "guard keys" THEN scan.keys.new ELSE {})
    BY DEF Remembers
  <1>3. CASE UNCHANGED <<scan, kept, told>>
    BY <1>2, <1>3
  <1>4. CASE BeginPhoneScan
    <2>1. scan.at = "idle" /\ UNCHANGED <<kept, told>> /\ scan' = [Idle EXCEPT !.at = "find"]
      BY <1>4 DEF BeginPhoneScan
    <2>2. scan'.at = "find"
      BY <2>1 DEF Idle
    <2> QED BY <1>2, <2>1, <2>2
  <1>5. CASE DiscoverGuardedVaults
    <2>1. PICK rows, remembered : /\ scan.at = "find" /\ told' = told /\ kept' = [kept EXCEPT !.remembered = remembered]
                                  /\ scan' = [Idle EXCEPT !.at = "guard", !.rows = rows, !.delay = chain.delay]
      BY <1>5 DEF DiscoverGuardedVaults
    <2>2. kept'.guardSeen = kept.guardSeen /\ scan'.at = "guard"
      BY <1>1, <2>1 DEF KeptShape, Idle
    <2> QED BY <1>2, <2>1, <2>2
  <1>6. CASE RaiseForGuardian
    <2>1. PICK new, os, listed : /\ new = {k \in GuardAlertsFor : k \notin ToSet(kept.guardSeen)}
                         /\ os = (kept.os \union Future(GuardLive)) \ Stale(TRUE, GuardLive)
                         /\ listed = (kept.listed \union Future(GuardLive)) \ Stale(TRUE, GuardLive)
      OBVIOUS
    <2>2. PICK keys : keys = [new |-> new, listed |-> listed]
      OBVIOUS
    <2>3. /\ scan.at = "guard" /\ Tell(new) /\ kept' = [kept EXCEPT !.os = os]
          /\ scan' = [Idle EXCEPT !.at = "guard keys", !.rows = scan.rows, !.keys = keys]
      BY <1>6, <2>1, <2>2 DEF RaiseForGuardian
    <2>4. new \cap ToSet(kept.guardSeen) = {}
      BY <2>1
    <2>5. told'.once = told.once \union new /\ told'.again = told.again \union (told.once \cap new)
      BY <2>3 DEF Tell
    <2>6. kept'.guardSeen = kept.guardSeen /\ scan'.at = "guard keys" /\ scan'.keys = keys
      BY <1>1, <2>3 DEF KeptShape, Idle
    <2>7. keys.new = new
      BY <2>2
    <2> QED BY <1>2, <2>3, <2>4, <2>5, <2>6, <2>7
  <1>7. CASE WriteGuardKeys
    <2>1. scan.at = "guard keys" /\ told' = told
      BY <1>7 DEF WriteGuardKeys
    <2>2. Len(kept.guardSeen) + Cardinality(scan.keys.new) <= SEEN_CAP
      BY <2>1 DEF SeenHoldsAll
    <2>3. ToSet(kept.guardSeen) \union scan.keys.new \subseteq ToSet(kept'.guardSeen)
      BY <1>7, <2>2, GuardListWritten DEF AlertsAssumption
    <2> QED BY <1>2, <2>1, <2>3
  <1> QED
    BY <1>3, <1>4, <1>5, <1>6, <1>7, StepsOfScans

\* Nothing is told twice.
LEMMA RemembersStep ==
    ASSUME AlertsAssumption, AlertTypes, NewIsFinite(scan), GuardList, [AlertsNext]_alertVars,
           faults = 0 => Remembers /\ told.again = {}, SeenHoldsAll
    PROVE  faults' = 0 => Remembers' /\ told'.again = {}
  <1> SUFFICES ASSUME faults' = 0 PROVE Remembers' /\ told'.again = {}
    OBVIOUS
  <1>1. Remembers /\ told.again = {}
    BY FaultsGrow
  <1>2. story' = story
    BY ToldSteps
  <1>3. CASE story.reader = "watcher"
    BY <1>1, <1>2, <1>3, WatcherRemembers DEF Remembers
  <1>4. CASE story.reader = "owner"
    BY <1>1, <1>2, <1>4, OwnerRemembers DEF Remembers
  <1>5. CASE story.reader = "guardian"
    BY <1>1, <1>2, <1>5, GuardianRemembers DEF Remembers
  <1> QED
    BY <1>3, <1>4, <1>5 DEF AlertTypes

-----------------------------------------------------------------------------
(* Alerts: the reminders                                                   *)

\* What a scan reads, and what the guardian's list and the alerts found are.
LEMMA ReadingsStep ==
    ASSUME AlertsAssumption, AlertTypes, NewIsFinite(scan), GuardList, RowsRead(scan), [AlertsNext]_alertVars
    PROVE  NewIsFinite(scan') /\ GuardList' /\ RowsRead(scan')
  <1>1. scan = ScanShape(scan) /\ kept = KeptShape(kept)
    BY DEF AlertTypes
  <1>3. Timed(chain.rows)
    BY DEF AlertTypes, VaultInv, AnyVault, HeldRow, Timed, Waiting
  <1>4. Timed(NoRows)
    BY DEF NoRows, NoRow, Timed, Waiting
  <1>5. RowsRead(scan') /\ NewIsFinite(scan')
    <2>1. CASE scan' = scan
      BY <2>1
    <2>2. CASE scan' = Idle \/ \E at \in {"store", "find"} : scan' = [Idle EXCEPT !.at = at]
      <3>1. scan' = Idle => scan'.at = "idle"
        BY DEF Idle
      <3>2. ASSUME NEW at \in {"store", "find"}, scan' = [Idle EXCEPT !.at = at]
            PROVE  scan'.at = at
        BY <3>2 DEF Idle
      <3> QED BY <2>2, <3>1, <3>2 DEF RowsRead, NewIsFinite
    <2>3. CASE BeginScan
      <3>1. scan' = [scan EXCEPT !.at = "vault"]
        BY <2>3 DEF BeginScan
      <3>2. scan'.at = "vault"
        BY <1>1, <3>1 DEF ScanShape
      <3> QED BY <3>2 DEF RowsRead, NewIsFinite
    <2>4. CASE ReadVault
      <3>1. scan' = [scan EXCEPT !.at = "ledger", !.rows = chain.rows, !.delay = chain.delay]
        BY <2>4 DEF ReadVault
      <3>2. scan'.at = "ledger"
        BY <1>1, <3>1 DEF ScanShape
      <3> QED BY <3>2 DEF RowsRead, NewIsFinite
    <2>5. CASE scan' = [Idle EXCEPT !.at = "own", !.rows = chain.rows, !.delay = chain.delay]
      <3>1. scan'.at = "own" /\ scan'.rows = chain.rows
        BY <2>5 DEF Idle
      <3> QED BY <1>3, <3>1 DEF RowsRead, NewIsFinite
    <2>6. CASE RaiseForOwner
      <3>1. scan.at = "own" /\ \E keys : scan' = [Idle EXCEPT !.at = "own keys", !.rows = scan.rows, !.keys = keys]
        BY <2>6 DEF RaiseForOwner
      <3>2. scan'.at = "own keys" /\ scan'.rows = scan.rows
        BY <3>1 DEF Idle
      <3> QED BY <3>1, <3>2 DEF RowsRead, NewIsFinite
    <2>7. CASE DiscoverGuardedVaults
      <3>1. PICK rows :
                /\ rows \in {chain.rows, NoRows}
                /\ scan' = [Idle EXCEPT !.at = "guard", !.rows = rows, !.delay = chain.delay]
        BY <2>7 DEF DiscoverGuardedVaults
      <3>2. scan'.at = "guard" /\ scan'.rows = rows
        BY <3>1 DEF Idle
      <3> QED BY <1>3, <1>4, <3>1, <3>2 DEF RowsRead, NewIsFinite
    <2>8. CASE RaiseForGuardian
      <3>1. PICK new : new = {k \in GuardAlertsFor : k \notin ToSet(kept.guardSeen)}
        OBVIOUS
      <3>2. /\ scan.at = "guard"
            /\ \E listed : scan' = [Idle EXCEPT !.at = "guard keys", !.rows = scan.rows,
                                        !.keys = [new |-> new, listed |-> listed]]
        BY <2>8, <3>1 DEF RaiseForGuardian
      <3>3. scan'.at = "guard keys" /\ scan'.rows = scan.rows /\ scan'.keys.new = new
        BY <3>2 DEF Idle
      <3>4. IsFiniteSet(GuardAlertsFor)
        BY GuardAlertsFinite DEF AlertsAssumption
      <3>5. IsFiniteSet(new)
        BY <3>1, <3>4, FS_Subset
      <3> QED BY <3>2, <3>3, <3>5 DEF RowsRead, NewIsFinite
    <2>9. \/ scan' = scan
          \/ scan' = Idle \/ \E at \in {"store", "find"} : scan' = [Idle EXCEPT !.at = at]
          \/ BeginScan \/ ReadVault
          \/ scan' = [Idle EXCEPT !.at = "own", !.rows = chain.rows, !.delay = chain.delay]
          \/ RaiseForOwner \/ DiscoverGuardedVaults \/ RaiseForGuardian
      <3>1. CASE ChainMoves \/ OtherVaultMoves \/ Brakes \/ UNCHANGED alertVars
        BY <3>1 DEF ChainMoves, OtherVaultMoves, alertVars,
           Brakes, OpenGuard, BrakeLands, BrakeBounces, BrakeTimesOut, SaysResult, CloseGuard, GuardBrake
      <3>2. CASE RaiseHoldAlerts \/ StoreJournal \/ BeginPhoneScan \/ WriteOwnerKeys
        BY <3>2 DEF RaiseHoldAlerts, StoreJournal, BeginPhoneScan, WriteOwnerKeys
      <3>3. CASE WriteGuardKeys \/ ScanFails \/ OwnerHalfFails
        BY <3>3 DEF WriteGuardKeys, ScanFails, OwnerHalfFails
      <3> QED BY <3>1, <3>2, <3>3 DEF AlertsNext, Scans
    <2> QED BY <2>1, <2>2, <2>3, <2>4, <2>5, <2>6, <2>7, <2>8, <2>9
  <1>6. \E S : kept'.guardSeen \in Seq(S)
    <2>1. CASE WriteGuardKeys
      BY <2>1, GuardListWritten DEF AlertsAssumption
    <2>2. CASE kept'.guardSeen = kept.guardSeen
      BY <2>2 DEF GuardList
    <2>3. WriteGuardKeys \/ kept'.guardSeen = kept.guardSeen
      <3>1. CASE RaiseForOwner \/ RaiseForGuardian
        <4>1. \E os : kept' = [kept EXCEPT !.os = os]
          BY <3>1 DEF RaiseForOwner, RaiseForGuardian
        <4> QED BY <1>1, <4>1 DEF KeptShape
      <3>2. CASE BeginScan
        <4>1. \E file : kept' = [kept EXCEPT !.file = file]
          BY <3>2 DEF BeginScan
        <4> QED BY <1>1, <4>1 DEF KeptShape
      <3>3. CASE RaiseHoldAlerts \/ ScanFails
        <4>1. kept' = kept \/ \E file : kept' = [kept EXCEPT !.file = file]
          BY <3>3 DEF RaiseHoldAlerts, ScanFails
        <4> QED BY <1>1, <4>1 DEF KeptShape
      <3>4. CASE StoreJournal \/ DiscoverGuardedVaults
        <4>1. \/ kept' = kept \/ \E stored : kept' = [kept EXCEPT !.stored = stored]
              \/ \E remembered : kept' = [kept EXCEPT !.remembered = remembered]
          BY <3>4 DEF StoreJournal, DiscoverGuardedVaults
        <4> QED BY <1>1, <4>1 DEF KeptShape
      <3>5. CASE WriteOwnerKeys
        <4>1. \E seen, listed, last : kept' = [kept EXCEPT !.seen = seen, !.listed = listed, !.last = last]
          BY <3>5 DEF WriteOwnerKeys
        <4> QED BY <1>1, <4>1 DEF KeptShape
      <3>6. CASE ReadVault \/ BeginPhoneScan \/ OwnerHalfFails
        BY <3>6 DEF ReadVault, BeginPhoneScan, OwnerHalfFails
      <3>7. CASE ChainMoves \/ OtherVaultMoves \/ UNCHANGED alertVars
        BY <3>7 DEF ChainMoves, OtherVaultMoves, alertVars
      <3>8. CASE Brakes
        BY <3>8 DEF Brakes, OpenGuard, BrakeLands, BrakeBounces, BrakeTimesOut, SaysResult, CloseGuard, GuardBrake
      <3> QED BY <3>1, <3>2, <3>3, <3>4, <3>5, <3>6, <3>7, <3>8 DEF AlertsNext, Scans
    <2> QED BY <2>1, <2>2, <2>3
  <1> QED
    BY <1>5, <1>6 DEF GuardList

\* A plan of what waits, with the end of each.
PlanFits(planned, guard, rows) ==
    /\ \A k \in planned : k.guard = guard /\ k.id \in Waiting(rows)
    /\ \A id \in Waiting(rows) : \E k \in planned : k.id = id /\ k.name = "end" /\ k.at = rows[id].unlock

\* The half of a scan this reader makes for the vault.
Half(guard) ==
    \/ story.reader = "owner" /\ guard = FALSE
    \/ story.reader = "guardian" /\ guard = TRUE

\* A plan fits the rows it was made of.
LEMMA PlanOf ==
    ASSUME NEW guard, NEW rows, NEW delay, NEW planned, planned = PlannedKeys(guard, rows, delay)
    PROVE  PlanFits(planned, guard, rows)
  <1> DEFINE Created(id) == CreatedAt(chain.log, rows[id], id, delay)
             Planned(id) == {Key(guard, id, m.name, m.at) : m \in HoldAlertPlan(id, rows[id], Created(id))}
  <1>1. planned = UNION {Planned(id) : id \in Waiting(rows)}
    BY DEF PlannedKeys
  <1>2. ASSUME NEW id \in Waiting(rows), NEW k \in Planned(id) PROVE k.guard = guard /\ k.id = id
    BY DEF Key
  <1>3. ASSUME NEW id \in Waiting(rows)
        PROVE  \E k \in Planned(id) : k.id = id /\ k.name = "end" /\ k.at = rows[id].unlock
    <2>1. PICK m : m = Mark("end", 0, rows[id].unlock)
      OBVIOUS
    <2>2. m.name = "end" /\ m.at = rows[id].unlock
      BY <2>1 DEF Mark
    <2>3. PICK created : created = Created(id)
      OBVIOUS
    <2>4. PICK p : p = [id |-> id, name |-> m.name, at |-> m.at]
      OBVIOUS
    <2>5. p \in HoldAlertPlan(id, rows[id], created)
      BY <2>1, <2>4 DEF HoldAlertPlan
    <2>6. PICK k : k = Key(guard, id, p.name, p.at)
      OBVIOUS
    <2>7. k \in Planned(id)
      BY <2>3, <2>5, <2>6
    <2>8. k.id = id /\ k.name = "end" /\ k.at = rows[id].unlock
      BY <2>2, <2>4, <2>6 DEF Key
    <2> QED BY <2>7, <2>8
  <1> HIDE DEF Planned
  <1> QED
    BY <1>1, <1>2, <1>3 DEF PlanFits

\* A half of a scan sets what is planned and takes back the rest.
LEMMA RemindersSet ==
    ASSUME NEW os, NEW listed, NEW old, NEW rows, NEW planned, NEW guard, NEW stale,
           RemindersTrue(os, listed, old), Timed(rows), chain.clock \in Nat,
           PlanFits(planned, guard, rows), Half(guard), stale = {k \in listed \ planned : k.guard = guard}
    PROVE  RemindersTrue((os \union Future(planned)) \ stale, (listed \union Future(planned)) \ stale, rows)
  <1>1. /\ \A k \in planned : k.guard = guard /\ k.id \in Waiting(rows)
        /\ \A id \in Waiting(rows) : \E k \in planned : k.id = id /\ k.name = "end" /\ k.at = rows[id].unlock
    BY DEF PlanFits
  <1>2. PICK future, next, list : /\ future = Future(planned) /\ next = (os \union future) \ stale
                                  /\ list = (listed \union future) \ stale
    OBVIOUS
  <1>3. /\ \A k : k \in future <=> k \in planned /\ k.at > chain.clock
        /\ \A k : k \in stale <=> k \in listed /\ k \notin planned /\ k.guard = guard
    BY <1>2 DEF Future
  <1>4. next = (os \union future) \ stale /\ list = (listed \union future) \ stale
    BY <1>2
  <1>5. os \subseteq listed
    BY DEF RemindersTrue
  <1>6. next \subseteq list
    BY <1>4, <1>5
  <1>7. ASSUME NEW k \in next PROVE k \in planned \/ (k \in os /\ k.guard # guard)
    BY <1>3, <1>4, <1>5, <1>7
  <1>8. ASSUME NEW k \in os, k.guard # guard PROVE k = OtherReminder /\ story.reader = "owner"
    <2>1. CASE story.reader = "owner"
      BY <1>8, <2>1 DEF RemindersTrue, Half
    <2>2. CASE story.reader = "guardian"
      BY <1>8, <2>2 DEF RemindersTrue, Half
    <2> QED BY <2>1, <2>2 DEF Half
  <1>9. \A k \in next : k # OtherReminder => k.id \in Waiting(rows)
    BY <1>1, <1>7, <1>8
  <1>10. story.reader = "guardian" => \A k \in next : k.guard = TRUE
    BY <1>1, <1>7, <1>8 DEF Half
  <1>11. story.reader = "owner" => \A k \in next : k.guard = FALSE \/ k = OtherReminder
    BY <1>1, <1>7, <1>8 DEF Half
  <1>12. ASSUME NEW id \in Waiting(rows), rows[id].unlock > chain.clock
         PROVE  \E k \in next : k.id = id /\ k.name = "end" /\ k.at = rows[id].unlock
    <2>1. PICK k \in planned : k.id = id /\ k.name = "end" /\ k.at = rows[id].unlock
      BY <1>1
    <2>2. k \in future /\ k \notin stale
      BY <1>3, <1>12, <2>1
    <2> QED BY <1>4, <2>1, <2>2
  <1>13. RemindersTrue(next, list, rows)
    BY <1>6, <1>9, <1>10, <1>11, <1>12 DEF RemindersTrue
  <1> QED
    BY <1>2, <1>13

\* The reminder of the other vault leaves those of this one alone.
LEMMA OtherReminderSet ==
    ASSUME NEW os, NEW listed, NEW rows, NEW next, NEW list, NEW future, NEW stale,
           RemindersTrue(os, listed, rows), story.reader = "owner",
           future \subseteq {OtherReminder}, \A k \in stale : k.guard = TRUE,
           next = (os \union future) \ stale, list = (listed \union future) \ stale
    PROVE  RemindersTrue(next, list, rows)
  <1>2. future \subseteq {OtherReminder} /\ \A k \in stale : k.guard = TRUE
    OBVIOUS
  <1>3. next = (os \union future) \ stale /\ list = (listed \union future) \ stale
    OBVIOUS
  <1>4. /\ os \subseteq listed /\ Timed(rows)
        /\ \A k \in os : k # OtherReminder => k.id \in Waiting(rows)
        /\ \A k \in os : k.guard = FALSE \/ k = OtherReminder
    BY DEF RemindersTrue
  <1>5. ASSUME NEW id \in Waiting(rows), rows[id].unlock > chain.clock
        PROVE  \E k \in next : k.id = id /\ k.name = "end" /\ k.at = rows[id].unlock
    <2>1. PICK k \in os : k.id = id /\ k.name = "end" /\ k.at = rows[id].unlock
      BY <1>5 DEF RemindersTrue
    <2>2. OtherReminder.name = "created"
      BY DEF OtherReminder, Key
    <2>3. k.guard = FALSE
      BY <1>4, <2>1, <2>2
    <2>4. k \notin stale
      BY <1>2, <2>3
    <2> QED BY <1>3, <2>1, <2>4
  <1>6. /\ next \subseteq list
        /\ \A k \in next : k # OtherReminder => k.id \in Waiting(rows)
        /\ \A k \in next : k.guard = FALSE \/ k = OtherReminder
    BY <1>2, <1>3, <1>4
  <1> QED
    BY <1>4, <1>5, <1>6 DEF RemindersTrue

\* Time only takes reminders away from what is asked for.
LEMMA RemindersStay ==
    ASSUME NEW os, NEW listed, NEW rows, RemindersTrue(os, listed, rows), story' = story,
           chain.clock \in Nat, chain'.clock \in Nat, chain.clock <= chain'.clock
    PROVE  RemindersTrue(os, listed, rows)'
  <1>1. OtherReminder' = OtherReminder
    BY DEF OtherReminder, Key
  <1> SUFFICES /\ os \subseteq listed /\ Timed(rows)
               /\ \A k \in os : k # OtherReminder => k.id \in Waiting(rows)
               /\ story.reader = "guardian" => \A k \in os : k.guard = TRUE
               /\ story.reader = "owner" => \A k \in os : k.guard = FALSE \/ k = OtherReminder
               /\ \A id \in Waiting(rows) :
                     rows[id].unlock > chain'.clock =>
                         \E k \in os : k.id = id /\ k.name = "end" /\ k.at = rows[id].unlock
    BY DEF RemindersTrue
  <1>2. ASSUME NEW id \in Waiting(rows), rows[id].unlock > chain'.clock PROVE rows[id].unlock > chain.clock
    <2>1. PICK unlock, p, q : unlock = rows[id].unlock /\ p = chain.clock /\ q = chain'.clock
      OBVIOUS
    <2>2. unlock \in Nat
      BY <2>1 DEF RemindersTrue, Timed
    <2> QED BY <1>2, <2>1, <2>2
  <1> QED
    BY <1>2 DEF RemindersTrue


\* A step of a scan.
LEMMA RemindersScan ==
    ASSUME AlertTypes, RowsRead(scan), [AlertsNext]_alertVars, faults' = 0, Phone,
           RemindersTrue(kept.os, SetList(scan, kept), SetRows(scan, kept))
    PROVE  RemindersTrue(kept'.os, SetList(scan', kept'), SetRows(scan', kept'))
  <1>1. /\ scan = ScanShape(scan) /\ kept = KeptShape(kept) /\ chain.clock \in Nat
        /\ story.reader \in {"owner", "guardian"}
    BY DEF AlertTypes, VaultInv, AnyVault, Phone
  <1>2. CASE UNCHANGED <<scan, kept, told>>
    BY <1>2
  <1>3. CASE BeginPhoneScan
    <2>1. /\ scan.at = "idle" /\ kept' = kept
          /\ \/ scan' = [Idle EXCEPT !.at = "own", !.rows = chain.rows, !.delay = chain.delay]
             \/ scan' = [Idle EXCEPT !.at = "find"]
      BY <1>3 DEF BeginPhoneScan
    <2>2. scan'.at \in {"own", "find"}
      BY <2>1 DEF Idle
    <2>3. SetList(scan', kept') = SetList(scan, kept) /\ SetRows(scan', kept') = SetRows(scan, kept)
      BY <2>1, <2>2 DEF SetList, SetRows
    <2> QED BY <2>1, <2>3
  <1>4. CASE RaiseForOwner /\ story.reader = "owner"
    <2>1. PICK rows, delay : rows = scan.rows /\ delay = scan.delay
      OBVIOUS
    <2>2. PICK planned : planned = PlannedKeys(FALSE, rows, delay)
      OBVIOUS
    <2>3. PICK os, listed, due : os = kept.os /\ listed = kept.listed /\ due = DueUnseen(planned)
      OBVIOUS
    <2>4. PICK next, list : /\ next = (os \union Future(planned)) \ Stale(FALSE, planned)
                            /\ list = (listed \union Future(planned)) \ Stale(FALSE, planned)
      OBVIOUS
    <2>5. PICK keys : keys = [seen |-> kept.seen \union due, listed |-> list]
      OBVIOUS
    <2>6. /\ scan.at = "own" /\ kept' = [kept EXCEPT !.os = next]
          /\ scan' = [Idle EXCEPT !.at = "own keys", !.rows = rows, !.keys = keys]
      BY <1>4, <2>1, <2>2, <2>3, <2>4, <2>5 DEF RaiseForOwner
    <2>7. kept'.os = next /\ scan'.at = "own keys" /\ scan'.rows = rows /\ scan'.keys = keys
      BY <1>1, <2>6 DEF KeptShape, Idle
    <2>8. SetList(scan', kept') = list /\ SetRows(scan', kept') = rows /\ SetList(scan, kept) = listed
      BY <1>4, <2>3, <2>5, <2>6, <2>7 DEF SetList, SetRows
    <2>9. PICK old, guard : old = SetRows(scan, kept) /\ guard = FALSE
      OBVIOUS
    <2>10. RemindersTrue(os, listed, old) /\ Timed(rows)
      BY <2>1, <2>3, <2>6, <2>8, <2>9 DEF RowsRead
    <2>11. planned = PlannedKeys(guard, rows, delay)
      BY <2>2, <2>9, Zenon
    <2>12. PlanFits(planned, guard, rows) /\ Half(guard)
      BY <1>4, <2>9, <2>11, PlanOf DEF Half
    <2>13. PICK stale : stale = {k \in listed \ planned : k.guard = guard}
      OBVIOUS
    <2>14. Stale(FALSE, planned) = stale
      BY <2>3, <2>9, <2>13 DEF Stale
    <2>15. RemindersTrue((os \union Future(planned)) \ stale, (listed \union Future(planned)) \ stale, rows)
      BY <1>1, <2>10, <2>12, <2>13, RemindersSet
    <2>16. RemindersTrue(next, list, rows)
      BY <2>4, <2>14, <2>15
    <2> QED BY <2>7, <2>8, <2>16
  <1>5. CASE WriteOwnerKeys /\ story.reader = "owner"
    <2>1. PICK seen, listed, last : seen = scan.keys.seen /\ listed = scan.keys.listed /\ last = scan.rows
      OBVIOUS
    <2>2. /\ scan.at = "own keys" /\ scan' = [Idle EXCEPT !.at = "find"]
          /\ kept' = [kept EXCEPT !.seen = seen, !.listed = listed, !.last = last]
      BY <1>5, <2>1 DEF WriteOwnerKeys
    <2>3. kept'.os = kept.os /\ kept'.listed = listed /\ kept'.last = last /\ scan'.at = "find"
      BY <1>1, <2>2 DEF KeptShape, Idle
    <2>4. SetList(scan', kept') = SetList(scan, kept) /\ SetRows(scan', kept') = SetRows(scan, kept)
      BY <1>5, <2>1, <2>2, <2>3 DEF SetList, SetRows
    <2> QED BY <2>3, <2>4
  <1>6. CASE DiscoverGuardedVaults
    <2>1. PICK rows, remembered : /\ scan.at = "find" /\ kept' = [kept EXCEPT !.remembered = remembered]
                                  /\ scan' = [Idle EXCEPT !.at = "guard", !.rows = rows, !.delay = chain.delay]
      BY <1>6 DEF DiscoverGuardedVaults
    <2>2. kept'.os = kept.os /\ kept'.listed = kept.listed /\ kept'.last = kept.last /\ scan'.at = "guard"
      BY <1>1, <2>1 DEF KeptShape, Idle
    <2>3. SetList(scan', kept') = SetList(scan, kept) /\ SetRows(scan', kept') = SetRows(scan, kept)
      BY <2>1, <2>2 DEF SetList, SetRows
    <2> QED BY <2>2, <2>3
  <1>7. CASE RaiseForGuardian
    <2>1. PICK rows, delay : rows = scan.rows /\ delay = scan.delay
      OBVIOUS
    <2>2. PICK os, listed, new : /\ os = kept.os /\ listed = kept.listed
                                 /\ new = {k \in GuardAlertsFor : k \notin ToSet(kept.guardSeen)}
      OBVIOUS
    <2>3. PICK next, list : /\ next = (os \union Future(GuardLive)) \ Stale(TRUE, GuardLive)
                            /\ list = (listed \union Future(GuardLive)) \ Stale(TRUE, GuardLive)
      OBVIOUS
    <2>4. PICK keys : keys = [new |-> new, listed |-> list]
      OBVIOUS
    <2>5. /\ scan.at = "guard" /\ kept' = [kept EXCEPT !.os = next]
          /\ scan' = [Idle EXCEPT !.at = "guard keys", !.rows = rows, !.keys = keys]
      BY <1>7, <2>1, <2>2, <2>3, <2>4 DEF RaiseForGuardian
    <2>6. /\ kept'.os = next /\ kept'.last = kept.last
          /\ scan'.at = "guard keys" /\ scan'.rows = rows /\ scan'.keys = keys
      BY <1>1, <2>5 DEF KeptShape, Idle
    <2>7. SetList(scan', kept') = list /\ SetList(scan, kept) = listed
      BY <2>2, <2>4, <2>5, <2>6 DEF SetList
    <2>8. PICK old : old = SetRows(scan, kept)
      OBVIOUS
    <2>9. RemindersTrue(os, listed, old) /\ Timed(rows)
      BY <2>1, <2>2, <2>5, <2>7, <2>8 DEF RowsRead
    <2>10. PICK guard, planned : guard = TRUE /\ planned = GuardLive
      OBVIOUS
    <2>11. PICK future, stale : future = Future(planned) /\ stale = {k \in listed \ planned : k.guard = guard}
      OBVIOUS
    <2>12. Stale(TRUE, GuardLive) = stale
      BY <2>2, <2>10, <2>11 DEF Stale
    <2>13. next = (os \union future) \ stale /\ list = (listed \union future) \ stale
      BY <2>3, <2>10, <2>11, <2>12
    <2>14. CASE story.reader = "owner"
      <3>1. SetRows(scan', kept') = old
        BY <2>5, <2>6, <2>8, <2>14 DEF SetRows
      <3>2. RemindersTrue(next, list, old)
        <4>1. future \subseteq {OtherReminder}
          BY <2>10, <2>11, <2>14 DEF Future, GuardLive
        <4>2. \A k \in stale : k.guard = TRUE
          BY <2>10, <2>11
        <4> QED BY <2>9, <2>13, <2>14, <4>1, <4>2, OtherReminderSet
      <3> QED BY <2>6, <2>7, <3>1, <3>2
    <2>15. CASE story.reader = "guardian"
      <3>1. SetRows(scan', kept') = rows
        BY <2>6, <2>15 DEF SetRows
      <3>2. planned = PlannedKeys(guard, rows, delay)
        BY <2>1, <2>10, <2>15, Zenon DEF GuardLive
      <3>3. PlanFits(planned, guard, rows) /\ Half(guard)
        BY <2>10, <2>15, <3>2, PlanOf DEF Half
      <3>4. RemindersTrue((os \union Future(planned)) \ stale, (listed \union Future(planned)) \ stale, rows)
        BY <1>1, <2>9, <2>11, <3>3, RemindersSet
      <3>5. RemindersTrue(next, list, rows)
        BY <2>11, <2>13, <3>4
      <3> QED BY <2>6, <2>7, <3>1, <3>5
    <2> QED BY <1>1, <2>14, <2>15
  <1>8. CASE WriteGuardKeys
    <2>1. PICK order : kept' = [kept EXCEPT !.listed = scan.keys.listed,
                               !.guardSeen = IF order = <<>> THEN @ ELSE LastSeen(@ \o order),
                               !.last = IF story.reader = "owner" THEN @ ELSE scan.rows]
      BY <1>8 DEF WriteGuardKeys
    <2>2. PICK list, last : /\ list = IF order = <<>> THEN kept.guardSeen ELSE LastSeen(kept.guardSeen \o order)
                            /\ last = IF story.reader = "owner" THEN kept.last ELSE scan.rows
      OBVIOUS
    <2>3. kept' = [kept EXCEPT !.listed = scan.keys.listed, !.guardSeen = list, !.last = last]
      BY <2>1, <2>2
    <2>4. kept'.os = kept.os /\ kept'.listed = scan.keys.listed /\ kept'.last = last
      BY <1>1, <2>3 DEF KeptShape
    <2>5. scan.at = "guard keys" /\ scan'.at = "idle"
      BY <1>8 DEF WriteGuardKeys, Idle
    <2>6. SetList(scan', kept') = SetList(scan, kept)
      BY <2>4, <2>5 DEF SetList
    <2>7. SetRows(scan', kept') = SetRows(scan, kept)
      BY <1>1, <2>2, <2>4, <2>5 DEF SetRows
    <2> QED BY <2>4, <2>6, <2>7
  <1> QED
    BY <1>1, <1>2, <1>3, <1>4, <1>5, <1>6, <1>7, <1>8, StepsOfScans

\* The reminders follow the vault through a step.
LEMMA RemindStep ==
    ASSUME AlertTypes, RowsRead(scan), [AlertsNext]_alertVars, RemindInv
    PROVE  RemindInv'
  <1>1. story' = story
    BY ToldSteps
  <1> SUFFICES ASSUME Phone, faults' = 0
               PROVE  RemindersTrue(kept.os, SetList(scan, kept), SetRows(scan, kept))'
    BY <1>1 DEF RemindInv, Phone
  <1>2. RemindersTrue(kept'.os, SetList(scan', kept'), SetRows(scan', kept'))
    BY FaultsGrow, RemindersScan DEF RemindInv
  <1>3. PICK os, listed, rows : os = kept'.os /\ listed = SetList(scan', kept') /\ rows = SetRows(scan', kept')
    OBVIOUS
  <1>4. RemindersTrue(os, listed, rows)
    BY <1>2, <1>3
  <1>5. chain.clock \in Nat /\ chain'.clock \in Nat /\ chain.clock <= chain'.clock
    BY ChainFollows DEF AlertTypes, VaultInv, AnyVault, Follows
  <1>6. RemindersTrue(os, listed, rows)'
    BY <1>1, <1>4, <1>5, RemindersStay
  <1>7. listed = SetList(scan, kept)' /\ rows = SetRows(scan, kept)' /\ os = kept'.os
    BY <1>1, <1>3 DEF SetList, SetRows
  <1> QED
    BY <1>6, <1>7 DEF RemindersTrue

\* The invariant holds at first,
LEMMA AlertsInvInit == AlertsInit => AlertsInv
  <1> SUFFICES ASSUME AlertsInit PROVE AlertsInv
    OBVIOUS
  <1>1. PICK delay \in Waits :
            chain = [clock |-> 0, delay |-> delay, rows |-> NoRows, change |-> NoLoosening,
                     log |-> <<>>, total |-> 0, frozen |-> FALSE, other |-> FALSE, recovered |-> {}]
    BY DEF AlertsInit
  <1>2. /\ story \in Stories /\ scan = Idle /\ told = [once |-> {}, again |-> {}] /\ brake = NoBrake /\ faults = 0
        /\ kept = [file |-> {}, stored |-> {}, seen |-> {}, listed |-> {}, os |-> {},
                   guardSeen |-> <<>>, remembered |-> FALSE, last |-> NoRows]
    BY DEF AlertsInit
  <1>3. delay \in Nat /\ story.reader \in {"watcher", "owner", "guardian"}
    BY <1>2, AlertsAssumption DEF AlertsAssumption
  <1>4. NoRows \in [HeldIds -> HeldRow] /\ \A id \in HeldIds : NoRows[id].st = "none"
    BY DEF NoRows, NoRow, HeldRow
  <1>5. VaultInv(chain)
    <2>1. chain \in AnyVault
      BY <1>1, <1>3, <1>4 DEF AnyVault, NoLoosening
    <2>2. /\ chain.recovered = {} /\ chain.log = <<>> /\ chain.rows = NoRows /\ ~chain.change.on
      BY <1>1 DEF NoLoosening
    <2>3. Waiting(chain.rows) = {}
      BY <1>4, <2>2 DEF Waiting
    <2> QED BY <1>4, <2>1, <2>2, <2>3 DEF VaultInv
  <1>6. scan.at = "idle" /\ scan = ScanShape(scan)
    BY <1>2 DEF Idle, ScanShape
  <1>7. /\ kept = KeptShape(kept)
        /\ kept.stored = {} /\ kept.seen = {} /\ kept.os = {} /\ kept.guardSeen = <<>> /\ kept.last = NoRows
    BY <1>2 DEF KeptShape
  <1>8. told.once = {} /\ told.again = {} /\ brake.at = "off"
    BY <1>2 DEF NoBrake
  <1>9. AlertTypes
    BY <1>2, <1>3, <1>5, <1>6, <1>7, <1>8 DEF AlertTypes, Places
  <1>10. EndsInv /\ BrakesInv
    BY <1>6, <1>8 DEF EndsInv, BrakesInv
  <1>11. Remembers
    BY <1>6, <1>8 DEF Remembers
  <1>12. GuardList
    <2>1. <<>> \in Seq({})
      OBVIOUS
    <2> QED BY <1>7, <2>1 DEF GuardList
  <1>13. RemindInv
    <2>1. SetRows(scan, kept) = NoRows
      BY <1>6, <1>7 DEF SetRows
    <2>2. Waiting(NoRows) = {}
      BY <1>4 DEF Waiting
    <2>3. RemindersTrue({}, SetList(scan, kept), NoRows)
      BY <2>2 DEF RemindersTrue, Timed
    <2> QED BY <1>7, <2>1, <2>3 DEF RemindInv
  <1> QED
    BY <1>6, <1>8, <1>9, <1>10, <1>11, <1>12, <1>13 DEF AlertsInv, NewIsFinite, RowsRead

\* is kept by every step,
LEMMA AlertsInvStep ==
    AlertsInv /\ EndsStayOnRecord /\ SeenHoldsAll /\ [AlertsNext]_alertVars => AlertsInv'
  <1> SUFFICES ASSUME AlertsInv, EndsStayOnRecord, SeenHoldsAll, [AlertsNext]_alertVars PROVE AlertsInv'
    OBVIOUS
  <1>1. AlertTypes'
    BY AlertTypesStep DEF AlertsInv
  <1>2. EndsInv'
    BY EndsStep DEF AlertsInv
  <1>3. BrakesInv'
    BY BrakesStep DEF AlertsInv
  <1>4. faults' = 0 => Remembers' /\ told'.again = {}
    BY RemembersStep, AlertsAssumption DEF AlertsInv
  <1>5. NewIsFinite(scan') /\ GuardList' /\ RowsRead(scan')
    BY ReadingsStep, AlertsAssumption DEF AlertsInv
  <1>6. RemindInv'
    BY RemindStep DEF AlertsInv
  <1>7. NewIsFinite(scan)' /\ RowsRead(scan)'
    BY <1>5 DEF NewIsFinite, RowsRead
  <1> QED
    BY <1>1, <1>2, <1>3, <1>4, <1>5, <1>6, <1>7 DEF AlertsInv

\* and says what the property says.
LEMMA AlertsInvTrue == AlertsInv => AlertsAreTrue
  <1> SUFFICES ASSUME AlertsInv PROVE AlertsAreTrue
    OBVIOUS
  <1>1. EndsAreTrue
    BY DEF AlertsInv, EndsInv, SaidTrue, EndsAreTrue, HeldAsRecovered
  <1>2. BrakesAreTrue
    BY DEF AlertsInv, BrakesInv, BrakesAreTrue
  <1>3. ToldOnce
    BY DEF AlertsInv, ToldOnce
  <1>4. RemindersFollowTheVault
    <2> SUFFICES ASSUME Phone, scan.at = "idle", faults = 0
                 PROVE  /\ kept.os \subseteq kept.listed
                        /\ {k.id : k \in {k \in Future(kept.os) : k # OtherReminder}} \subseteq Waiting(kept.last)
                        /\ \A id \in Waiting(kept.last) :
                              kept.last[id].unlock > chain.clock =>
                                  \E k \in kept.os : k.id = id /\ k.name = "end" /\ k.at = kept.last[id].unlock
      BY DEF RemindersFollowTheVault
    <2>1. SetList(scan, kept) = kept.listed /\ SetRows(scan, kept) = kept.last
      BY DEF SetList, SetRows
    <2>2. RemindersTrue(kept.os, kept.listed, kept.last)
      BY <2>1 DEF AlertsInv, RemindInv
    <2> QED BY <2>2 DEF RemindersTrue, Future
  <1> QED
    BY <1>1, <1>2, <1>3, <1>4 DEF AlertsAreTrue

\* What the watcher says became of a withdrawal is what became of it, what a guardian is told
\* a brake did it did, no alert is given twice unless something failed, and the reminders set
\* on a phone follow the vault (hold.ts, holdNotify.ts, holdAlerts.ts, holdGuard.ts): in every
\* behaviour in which no end rolls off the record between the watcher's two reads, and the
\* guardian's phone has given no more alerts than it remembers.
THEOREM AlertsAreTrueAlways == AlertsSpec /\ []EndsStayOnRecord /\ []SeenHoldsAll => []AlertsAreTrue
  BY AlertsInvInit, AlertsInvStep, AlertsInvTrue, PTL DEF AlertsSpec

=============================================================================
