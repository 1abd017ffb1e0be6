---------------------------- MODULE ScreenProofs -----------------------------
(***************************************************************************)
(* Theorems about what the phone shows of the rules: its home screen       *)
(* widgets, the screens of the app, and the records of the agents.         *)
(*                                                                         *)
(* Every read of a widget job is a step of its own, and the world moves    *)
(* between them.  The argument is that a job's reads are true in one       *)
(* order: what it lists is no older than its label, and the ledgers it     *)
(* reads afterwards are no older than what it listed.  Of agent records it *)
(* is that a history is what its ring held at some moment, no earlier than *)
(* the account beside it was listed, that ledgers are in order of time,    *)
(* and that counts only turn worse without a payment of a rule's own.      *)
(***************************************************************************)
EXTENDS Widgets, RuleReads, AgentRecords, CommonProofs, SequenceTheorems

-----------------------------------------------------------------------------
(* What is true of the world, a face, a job and the bindings               *)

\* The payments a ledger shows before a time.
PaidBefore(rows, t) == Cardinality({i \in DOMAIN rows : rows[i].kind = "paid" /\ rows[i].ts < t})

\* A ledger is written in the order of time, and an account counts its payments.
Written(rows, t) ==
    /\ rows \in Seq([ts : Nat, kind : {"paid", "refused"}])
    /\ \A i \in 1 .. Len(rows) : rows[i].ts <= t
    /\ \A i, k \in 1 .. Len(rows) : i <= k => rows[i].ts <= rows[k].ts

WorldInv ==
    /\ hour \in Nat
    /\ account \in [Rules -> [status : {"active", "revoked", "closed"}, paid : Nat]]
    /\ DOMAIN ledger = Rules
    /\ \A r \in Rules : Written(ledger[r], hour) /\ account[r].paid = PaidIn(ledger[r])

\* A row that was read is on the ledger, and what was counted before was paid up to it.
SeenCovers(r, row, count) ==
    row # Unread => row \in 0 .. Len(ledger[r]) /\ PaidIn(SubSeq(ledger[r], 1, row)) >= count

\* A count read after a time has what was paid before that time, and no more than was paid.
CountIsOf(r, count, t) ==
    count \in Nat /\ count <= account[r].paid /\ count >= PaidBefore(ledger[r], t)

FaceIsTrue(f) ==
    /\ f.rule \in Rules /\ f.label \in Nat /\ f.label <= hour
    /\ CountIsOf(f.rule, f.paid, f.label) /\ SeenCovers(f.rule, f.seen, f.paid)

\* A rule is off the chain, or trades and could not be listed.
IsGone(r, blind) == ~Listed(r) \/ (blind /\ r \in TradeRules)

\* The rules a job did not find.
MissingAreGone(found, blind) == \A r \in Rules \ found : IsGone(r, blind)

JobFields == {"at", "for", "choose", "label", "found", "blind", "chosen", "seen", "board", "faces",
              "copy", "face"}
FaceFields == {"kind", "rule", "paid", "seen", "line", "label", "blind"}

BindsRules(bound) == \A w \in DOMAIN bound : bound[w] \in Rules

\* What a job has found of the rules.
FoundIsTrue(jb) ==
    /\ DOMAIN jb = JobFields /\ jb.label \in Nat /\ jb.label <= hour
    /\ DOMAIN jb.found \subseteq Rules
    /\ \A r \in DOMAIN jb.found : CountIsOf(r, jb.found[r].paid, jb.label)
    /\ jb.at = "trades" => MissingAreGone(DOMAIN jb.found \union TradeRules, FALSE)
    /\ jb.at \in {"selection", "ledgers"} =>
          MissingAreGone(DOMAIN jb.found, jb.blind) /\ DOMAIN jb.found # {}

\* What it has read of their ledgers.
SeenIsTrue(jb) ==
    /\ DOMAIN jb.seen \subseteq DOMAIN jb.found
    /\ \A r \in DOMAIN jb.seen : SeenCovers(r, jb.seen[r], jb.found[r].paid)
    /\ jb.at \in {"payments", "trades", "selection"} => jb.seen = <<>>
    /\ jb.at = "ledgers" => DOMAIN jb.seen # DOMAIN jb.found

\* What it is about to draw or to store.
BoardIsTrue(jb) ==
    /\ DOMAIN jb.board = FaceFields /\ jb.board.kind # "gone"
    /\ jb.board.kind = "rule" => FaceIsTrue(jb.board) /\ MissingAreGone(DOMAIN jb.faces, jb.blind)
    /\ \A r \in DOMAIN jb.faces : FaceIsTrue(jb.faces[r]) /\ jb.faces[r].kind = "rule"
    /\ jb.at = "write" => jb.face \in DOMAIN jb.faces /\ jb.face \in Rules
    /\ BindsRules(jb.copy)

JobIsTrue(jb) == FoundIsTrue(jb) /\ SeenIsTrue(jb) /\ BoardIsTrue(jb)

LookIsTrue(f) ==
    /\ f.kind = "rule" => FaceIsTrue(f)
    /\ f.kind = "gone" => f.rule \in Rules /\ IsGone(f.rule, f.blind)

\* The jobs and what is drawn.
BoardInv ==
    /\ DOMAIN job = Jobs /\ (\A j \in Jobs : JobIsTrue(job[j]))
    /\ DOMAIN drawn = AllWidgets /\ \A w \in AllWidgets : LookIsTrue(drawn[w])
    /\ BindsRules(bindings)

\* Unless two changes of the bindings overlapped, one at most is under way, from what is stored.
PicksInv ==
    crossed \/ /\ bindings = want
               /\ \A i \in Jobs : Writing(i) => /\ job[i].copy = bindings
                                                /\ \A k \in Jobs : Writing(k) => k = i

WidgetsInv == WorldInv /\ BoardInv /\ PicksInv

-----------------------------------------------------------------------------
(* Ledgers                                                                 *)

LedgerRow == [ts : Nat, kind : {"paid", "refused"}]

\* The rows of a ledger are finitely many, and what was paid before a time is part of them.
LEMMA RowsAreCounted ==
    ASSUME NEW rows \in Seq(LedgerRow), NEW t \in Nat
    PROVE  /\ IsFiniteSet({i \in DOMAIN rows : rows[i].kind = "paid"})
           /\ PaidIn(rows) \in Nat /\ PaidBefore(rows, t) \in Nat
           /\ PaidBefore(rows, t) <= PaidIn(rows)
  <1> DEFINE P == {i \in DOMAIN rows : rows[i].kind = "paid"}
             B == {i \in DOMAIN rows : rows[i].kind = "paid" /\ rows[i].ts < t}
  <1>1. IsFiniteSet(1 .. Len(rows)) /\ DOMAIN rows = 1 .. Len(rows) /\ Len(rows) \in Nat
    BY FS_Interval
  <1>2. IsFiniteSet(P) /\ IsFiniteSet(B) /\ Cardinality(B) <= Cardinality(P)
    BY <1>1, FS_Subset
  <1>3. Cardinality(P) \in Nat /\ Cardinality(B) \in Nat
    BY <1>2, FS_CardinalityType
  <1> QED
    BY <1>2, <1>3 DEF PaidIn, PaidBefore

\* One more row adds itself, and leaves what was before it.
LEMMA OneMoreRow ==
    ASSUME NEW rows \in Seq(LedgerRow), NEW e \in LedgerRow, NEW t \in Nat
    PROVE  /\ PaidIn(Append(rows, e)) = PaidIn(rows) + (IF e.kind = "paid" THEN 1 ELSE 0)
           /\ t <= e.ts => PaidBefore(Append(rows, e), t) = PaidBefore(rows, t)
           /\ \A n \in 0 .. Len(rows) : SubSeq(Append(rows, e), 1, n) = SubSeq(rows, 1, n)
  <1> DEFINE n == Len(rows)
             more == Append(rows, e)
             P == {i \in DOMAIN rows : rows[i].kind = "paid"}
  <1>1. /\ n \in Nat /\ DOMAIN rows = 1 .. n /\ more \in Seq(LedgerRow)
        /\ DOMAIN more = 1 .. n + 1 /\ Len(more) = n + 1
        /\ more[n + 1] = e /\ \A i \in 1 .. n : more[i] = rows[i]
    OBVIOUS
  <1>2. {i \in DOMAIN more : more[i].kind = "paid"} = IF e.kind = "paid" THEN P \union {n + 1} ELSE P
    BY <1>1
  <1>3. IsFiniteSet(P) /\ n + 1 \notin P
    BY <1>1, RowsAreCounted
  <1>4. Cardinality(P \union {n + 1}) = Cardinality(P) + 1 /\ Cardinality(P) \in Nat
    BY <1>3, FS_AddElement, FS_CardinalityType
  <1>5. PaidIn(more) = PaidIn(rows) + (IF e.kind = "paid" THEN 1 ELSE 0)
    <2>1. Cardinality({i \in DOMAIN more : more[i].kind = "paid"})
            = Cardinality(P) + (IF e.kind = "paid" THEN 1 ELSE 0)
      <3> DEFINE Q == {i \in DOMAIN more : more[i].kind = "paid"}
      <3> SUFFICES Cardinality(Q) = Cardinality(P) + (IF e.kind = "paid" THEN 1 ELSE 0)
        OBVIOUS
      <3>0. (e.kind = "paid" => Q = P \union {n + 1}) /\ (e.kind # "paid" => Q = P)
        BY <1>2
      <3> HIDE DEF Q, P, n, more
      <3>1. CASE e.kind = "paid"
        BY <3>0, <1>4, <3>1
      <3>2. CASE e.kind # "paid"
        BY <3>0, <1>4, <3>2
      <3> QED
        BY <3>1, <3>2
    <2> QED
      BY <2>1 DEF PaidIn
  <1>6. ASSUME t <= e.ts PROVE PaidBefore(more, t) = PaidBefore(rows, t)
    <2>1. ~(e.ts < t)
      BY <1>6 DEF LedgerRow
    <2>2. {i \in DOMAIN more : more[i].kind = "paid" /\ more[i].ts < t}
            = {i \in DOMAIN rows : rows[i].kind = "paid" /\ rows[i].ts < t}
      BY <1>1, <2>1
    <2> QED
      BY <2>2 DEF PaidBefore
  <1>7. ASSUME NEW m \in 0 .. n PROVE SubSeq(more, 1, m) = SubSeq(rows, 1, m)
    BY <1>1, <1>7
  <1> QED
    BY <1>5, <1>6, <1>7

\* The latest decision of a ledger written in order is its last row.
LEMMA LatestIsLast ==
    ASSUME NEW rows, NEW t \in Nat, Written(rows, t)
    PROVE  LatestListedDecision(rows) = Len(rows) /\ SubSeq(rows, 1, Len(rows)) = rows
  <1> DEFINE n == Len(rows)
             Latest(i) == /\ \A k \in DOMAIN rows : rows[k].ts <= rows[i].ts
                          /\ \A k \in (i + 1) .. Len(rows) : rows[k].ts < rows[i].ts
  <1>0. rows \in Seq(LedgerRow) /\ \A i, k \in 1 .. n : i <= k => rows[i].ts <= rows[k].ts
    BY DEF Written, LedgerRow
  <1>1. /\ rows \in Seq(LedgerRow) /\ n \in Nat /\ DOMAIN rows = 1 .. n
        /\ \A i \in 1 .. n : rows[i].ts \in Nat
        /\ \A i, k \in 1 .. n : i <= k => rows[i].ts <= rows[k].ts
    <2>1. n \in Nat /\ DOMAIN rows = 1 .. n
      BY <1>0
    <2>2. ASSUME NEW i \in 1 .. n PROVE rows[i].ts \in Nat
      <3>1. rows[i] \in LedgerRow
        BY <1>0, <2>1
      <3> QED
        BY <3>1 DEF LedgerRow
    <2> QED
      BY <1>0, <2>1, <2>2
  <1>2. SubSeq(rows, 1, n) = rows
    BY <1>1
  <1>3. CASE rows = <<>>
    BY <1>2, <1>3 DEF LatestListedDecision, None
  <1>4. CASE rows # <<>>
    <2>1. n \in DOMAIN rows
      BY <1>1, <1>4
    <2>2. Latest(n)
      BY <1>1, <2>1
    <2>3. ASSUME NEW i \in DOMAIN rows, Latest(i) PROVE i = n
      <3>1. ~(rows[n].ts < rows[i].ts)
        BY <1>1, <2>1, <2>3
      <3> QED
        BY <1>1, <2>1, <2>3, <3>1
    <2>4. n = CHOOSE i \in DOMAIN rows : Latest(i)
      BY <2>1, <2>2, <2>3
    <2> QED
      BY <1>2, <1>4, <2>4 DEF LatestListedDecision
  <1> QED
    BY <1>3, <1>4

-----------------------------------------------------------------------------
(* The world moves                                                         *)

\* Time goes on, ledgers grow by rows of now, payments are counted and the closed stay closed.
WorldGrows ==
    /\ hour <= hour'
    /\ \A r \in Rules :
          /\ \/ ledger'[r] = ledger[r]
             \/ \E k \in {"paid", "refused"} : ledger'[r] = Append(ledger[r], [ts |-> hour, kind |-> k])
          /\ account[r].paid <= account'[r].paid
          /\ account[r].status = "closed" => account'[r].status = "closed"

\* The steps of the jobs leave the world alone.
JobStep(j) ==
    \/ \E for \in AllWidgets : JobBegins(j, for, FALSE)
    \/ JobBegins(j, "all", FALSE)
    \/ \E for \in RuleWidgets : JobBegins(j, for, TRUE) \/ WidgetDeleted(j, for)
    \/ PaymentsListed(j) \/ PaymentsUnlisted(j)
    \/ TradesListed(j) \/ TradesUnlisted(j)
    \/ SelectionRead(j) \/ LedgerFor(j)
    \/ RefreshHomeWidgets(j) \/ RefreshRuleWidgets(j) \/ WidgetTaskHandler(j)
    \/ JobLost(j)
    \/ \E r \in Rules : Picks(j, r)
    \/ PickSaved(j) \/ ChoiceClosed(j) \/ ForgetWidgetBinding(j)

\* One more row on a ledger that is written in order.
LEMMA WrittenOn ==
    ASSUME NEW rows, NEW t \in Nat, Written(rows, t), NEW k \in {"paid", "refused"}
    PROVE  Written(Append(rows, [ts |-> t, kind |-> k]), t)
  <1> DEFINE e == [ts |-> t, kind |-> k]
             n == Len(rows)
             more == Append(rows, e)
  <1>1. rows \in Seq(LedgerRow) /\ e \in LedgerRow /\ e.ts = t
    BY DEF Written, LedgerRow
  <1>2. /\ n \in Nat /\ more \in Seq(LedgerRow) /\ Len(more) = n + 1
        /\ more[n + 1] = e /\ \A i \in 1 .. n : more[i] = rows[i] /\ rows[i] \in LedgerRow
    BY <1>1
  <1>3. /\ \A i \in 1 .. n : rows[i].ts <= t
        /\ \A i, m \in 1 .. n : i <= m => rows[i].ts <= rows[m].ts
    BY DEF Written
  <1>4. \A i \in 1 .. n + 1 : more[i].ts <= t
    BY <1>1, <1>2, <1>3
  <1>5. ASSUME NEW i \in 1 .. n + 1, NEW m \in 1 .. n + 1, i <= m
        PROVE  more[i].ts <= more[m].ts
    <2>1. CASE m = n + 1
      BY <1>1, <1>2, <1>4, <2>1
    <2>2. CASE m # n + 1
      BY <1>2, <1>3, <1>5, <2>2
    <2> QED
      BY <2>1, <2>2
  <1>6. more \in Seq([ts : Nat, kind : {"paid", "refused"}])
    BY <1>2 DEF LedgerRow
  <1> HIDE DEF more
  <1>7. Written(more, t)
    BY <1>2, <1>4, <1>5, <1>6 DEF Written
  <1> QED
    BY <1>7 DEF more

\* The rows of a ledger have times.
LEMMA RowsHaveTimes ==
    ASSUME NEW rows, NEW t, Written(rows, t)
    PROVE  rows \in Seq(LedgerRow) /\ Len(rows) \in Nat /\ \A i \in 1 .. Len(rows) : rows[i].ts \in Nat
  <1>1. rows \in Seq(LedgerRow)
    BY DEF Written, LedgerRow
  <1>2. ASSUME NEW i \in 1 .. Len(rows) PROVE rows[i].ts \in Nat
    <2>1. rows[i] \in LedgerRow
      BY <1>1
    <2> QED
      BY <2>1 DEF LedgerRow
  <1> QED
    BY <1>1, <1>2

\* A decision keeps its ledger in order and its account in step.
LEMMA DecisionsGrowTheWorld ==
    ASSUME WorldInv, NEW r \in Rules, NEW kind \in {"paid", "refused"}, Decides(r, kind)
    PROVE  WorldInv' /\ WorldGrows
  <1> DEFINE e == [ts |-> hour, kind |-> kind]
             more == IF kind = "paid" THEN 1 ELSE 0
  <1>1. /\ hour \in Nat /\ DOMAIN ledger = Rules /\ hour' = hour
        /\ account \in [Rules -> [status : {"active", "revoked", "closed"}, paid : Nat]]
        /\ ledger' = [ledger EXCEPT ![r] = Append(@, e)]
        /\ account' = [account EXCEPT ![r].paid = @ + more]
        /\ \A q \in Rules : Written(ledger[q], hour) /\ account[q].paid = PaidIn(ledger[q])
    BY DEF WorldInv, Decides
  <1>2. /\ DOMAIN ledger' = Rules /\ ledger'[r] = Append(ledger[r], e)
        /\ \A q \in Rules : q # r => ledger'[q] = ledger[q] /\ account'[q] = account[q]
        /\ account'[r].status = account[r].status /\ account'[r].paid = account[r].paid + more
        /\ account' \in [Rules -> [status : {"active", "revoked", "closed"}, paid : Nat]]
        /\ \A q \in Rules : account[q].paid \in Nat /\ account'[q].paid \in Nat
    BY <1>1
  <1>3. Written(ledger'[r], hour)
    BY <1>1, <1>2, WrittenOn
  <1>4. ledger[r] \in Seq(LedgerRow) /\ e \in LedgerRow
    BY <1>1 DEF Written, LedgerRow
  <1>5. account'[r].paid = PaidIn(ledger'[r])
    <2>1. PaidIn(Append(ledger[r], e)) = PaidIn(ledger[r]) + more
      BY <1>1, <1>4, OneMoreRow
    <2> QED
      BY <1>1, <1>2, <2>1
  <1>6. \A q \in Rules : Written(ledger'[q], hour') /\ account'[q].paid = PaidIn(ledger'[q])
    BY <1>1, <1>2, <1>3, <1>5
  <1>7. WorldInv'
    BY <1>1, <1>2, <1>6 DEF WorldInv, PaidIn
  <1>8. WorldGrows
    BY <1>1, <1>2 DEF WorldGrows
  <1> QED
    BY <1>7, <1>8

\* Every step of the widgets keeps the world in order and lets it grow.
LEMMA TheWorldGrows ==
    ASSUME WorldInv, [WidgetsNext]_widgetVars
    PROVE  WorldInv' /\ WorldGrows
  <1>1. ASSUME UNCHANGED <<hour, account, ledger>> PROVE WorldInv' /\ WorldGrows
    <2>1. hour' = hour /\ ledger' = ledger /\ account' = account
      BY <1>1
    <2>2. hour \in Nat /\ \A r \in Rules : account[r].paid \in Nat
      BY DEF WorldInv
    <2>3. WorldInv'
      BY <2>1 DEF WorldInv, PaidIn
    <2> QED
      BY <2>1, <2>2, <2>3 DEF WorldGrows
  <1>2. ASSUME NEW r \in Rules, EndsRule(r) PROVE WorldInv' /\ WorldGrows
    <2>1. /\ hour' = hour /\ ledger' = ledger /\ hour \in Nat
          /\ account \in [Rules -> [status : {"active", "revoked", "closed"}, paid : Nat]]
          /\ \/ account[r].status = "active" /\ account' = [account EXCEPT ![r].status = "revoked"]
             \/ account[r].status = "revoked" /\ account' = [account EXCEPT ![r].status = "closed"]
      BY <1>2 DEF EndsRule, WorldInv
    <2>2. /\ account' \in [Rules -> [status : {"active", "revoked", "closed"}, paid : Nat]]
          /\ \A q \in Rules : /\ account'[q].paid = account[q].paid /\ account[q].paid \in Nat
                              /\ account[q].status = "closed" => account'[q].status = "closed"
      BY <2>1
    <2>3. WorldInv'
      <3>1. /\ DOMAIN ledger = Rules
            /\ \A q \in Rules : Written(ledger[q], hour) /\ account[q].paid = PaidIn(ledger[q])
        BY DEF WorldInv
      <3>2. \A q \in Rules : Written(ledger'[q], hour') /\ account'[q].paid = PaidIn(ledger'[q])
        BY <2>1, <2>2, <3>1
      <3>3. hour' \in Nat /\ DOMAIN ledger' = Rules
        BY <2>1, <3>1
      <3> QED
        BY <2>2, <3>2, <3>3 DEF WorldInv, PaidIn
    <2> QED
      BY <2>1, <2>2, <2>3 DEF WorldGrows
  <1>3. ASSUME ClockTicks PROVE WorldInv' /\ WorldGrows
    <2>1. hour \in Nat /\ hour' = hour + 1 /\ ledger' = ledger /\ account' = account
      BY <1>3 DEF ClockTicks, WorldInv
    <2>2. ASSUME NEW r \in Rules PROVE Written(ledger[r], hour')
      <3>1. Written(ledger[r], hour)
        BY DEF WorldInv
      <3>2. \A i \in 1 .. Len(ledger[r]) : ledger[r][i].ts \in Nat
        BY <3>1, RowsHaveTimes
      <3> QED
        BY <2>1, <3>1, <3>2 DEF Written
    <2>3. WorldInv'
      <3>1. /\ DOMAIN ledger = Rules /\ \A r \in Rules : account[r].paid = PaidIn(ledger[r])
            /\ account \in [Rules -> [status : {"active", "revoked", "closed"}, paid : Nat]]
        BY DEF WorldInv
      <3>2. hour' \in Nat
        BY <2>1
      <3> QED
        BY <2>1, <2>2, <3>1, <3>2 DEF WorldInv, PaidIn
    <2>4. WorldGrows
      BY <2>1 DEF WorldGrows, WorldInv
    <2> QED
      BY <2>3, <2>4
  <1>4. ASSUME NEW r \in Rules, Selects(r) PROVE UNCHANGED <<hour, account, ledger>>
    BY <1>4 DEF Selects, world
  <1>5. ASSUME SignsOut PROVE UNCHANGED <<hour, account, ledger>>
    BY <1>5 DEF SignsOut
  <1>6. ASSUME NEW j \in Jobs, JobStep(j) PROVE UNCHANGED <<hour, account, ledger>>
    BY <1>6 DEF world, JobStep, JobBegins, WidgetDeleted, PaymentsListed, PaymentsUnlisted, TradesListed,
       TradesUnlisted, SelectionRead, LedgerFor, RefreshHomeWidgets, RefreshRuleWidgets,
       WidgetTaskHandler, JobLost, Picks, PickSaved, ChoiceClosed, ForgetWidgetBinding
  <1>7. ASSUME UNCHANGED widgetVars PROVE UNCHANGED <<hour, account, ledger>>
    BY <1>7 DEF widgetVars, world
  <1> QED
    BY <1>1, <1>2, <1>3, <1>4, <1>5, <1>6, <1>7, DecisionsGrowTheWorld DEF WidgetsNext, JobStep

-----------------------------------------------------------------------------
(* What was read stays true                                                *)

\* A count that was read has what was paid before its time, however the ledger grows.
LEMMA CountsStay ==
    ASSUME WorldInv, WorldGrows, WorldInv', NEW r \in Rules, NEW count, NEW t \in Nat, t <= hour,
           CountIsOf(r, count, t)
    PROVE  CountIsOf(r, count, t)'
  <1>1. /\ count \in Nat /\ count <= account[r].paid /\ count >= PaidBefore(ledger[r], t)
        /\ account[r].paid <= account'[r].paid /\ account[r].paid \in Nat /\ account'[r].paid \in Nat
    BY DEF CountIsOf, WorldGrows, WorldInv
  <1>2. PaidBefore(ledger'[r], t) = PaidBefore(ledger[r], t)
    <2>1. CASE ledger'[r] = ledger[r]
      BY <2>1
    <2>2. ASSUME NEW k \in {"paid", "refused"}, ledger'[r] = Append(ledger[r], [ts |-> hour, kind |-> k])
          PROVE  PaidBefore(ledger'[r], t) = PaidBefore(ledger[r], t)
      <3>1. ledger[r] \in Seq(LedgerRow) /\ [ts |-> hour, kind |-> k] \in LedgerRow
        BY DEF WorldInv, Written, LedgerRow
      <3> QED
        BY <2>2, <3>1, OneMoreRow
    <2> QED
      BY <2>1, <2>2 DEF WorldGrows
  <1>3. count <= account'[r].paid
    BY <1>1
  <1> QED
    BY <1>1, <1>2, <1>3 DEF CountIsOf, PaidBefore

\* A row that was read stays where it is, with what was paid up to it.
LEMMA SeenStays ==
    ASSUME WorldInv, WorldGrows, NEW r \in Rules, NEW row, NEW count, SeenCovers(r, row, count)
    PROVE  SeenCovers(r, row, count)'
  <1>1. CASE ledger'[r] = ledger[r]
    BY <1>1 DEF SeenCovers, Unread, PaidIn
  <1>2. ASSUME NEW k \in {"paid", "refused"}, ledger'[r] = Append(ledger[r], [ts |-> hour, kind |-> k])
        PROVE  SeenCovers(r, row, count)'
    <2>1. ledger[r] \in Seq(LedgerRow) /\ [ts |-> hour, kind |-> k] \in LedgerRow /\ hour \in Nat
      BY DEF WorldInv, Written, LedgerRow
    <2>2. ASSUME row # Unread
          PROVE  row \in 0 .. Len(ledger'[r]) /\ PaidIn(SubSeq(ledger'[r], 1, row)) >= count
      <3>1. row \in 0 .. Len(ledger[r]) /\ PaidIn(SubSeq(ledger[r], 1, row)) >= count
        BY <2>2 DEF SeenCovers
      <3>2. SubSeq(ledger'[r], 1, row) = SubSeq(ledger[r], 1, row)
        BY <1>2, <2>1, <3>1, OneMoreRow
      <3>3. row \in 0 .. Len(ledger'[r])
        BY <1>2, <2>1, <3>1
      <3> QED
        BY <3>1, <3>2, <3>3
    <2> QED
      BY <2>2 DEF SeenCovers, Unread, PaidIn
  <1> QED
    BY <1>1, <1>2 DEF WorldGrows

LEMMA GoneStays ==
    ASSUME WorldGrows, NEW r \in Rules, NEW blind, IsGone(r, blind)
    PROVE  IsGone(r, blind)'
  BY DEF WorldGrows, IsGone, Listed

LEMMA MissingStay ==
    ASSUME WorldGrows, NEW found, NEW blind, MissingAreGone(found, blind)
    PROVE  MissingAreGone(found, blind)'
  BY GoneStays DEF MissingAreGone

LEMMA FaceStays ==
    ASSUME WorldInv, WorldGrows, WorldInv', NEW f, FaceIsTrue(f)
    PROVE  FaceIsTrue(f)'
  <1>1. f.rule \in Rules /\ f.label \in Nat /\ f.label <= hour
    BY DEF FaceIsTrue
  <1>2. CountIsOf(f.rule, f.paid, f.label)'
    BY <1>1, CountsStay DEF FaceIsTrue
  <1>3. SeenCovers(f.rule, f.seen, f.paid)'
    BY <1>1, SeenStays DEF FaceIsTrue
  <1>4. f.label <= hour'
    BY <1>1 DEF WorldInv, WorldGrows
  <1> QED
    BY <1>1, <1>2, <1>3, <1>4 DEF FaceIsTrue

LEMMA LookStays ==
    ASSUME WorldInv, WorldGrows, WorldInv', NEW f, LookIsTrue(f)
    PROVE  LookIsTrue(f)'
  BY FaceStays, GoneStays DEF LookIsTrue

\* What a job knows stays true while the world moves on.
LEMMA JobStays ==
    ASSUME WorldInv, WorldGrows, WorldInv', NEW jb, JobIsTrue(jb)
    PROVE  JobIsTrue(jb)'
  <1>1. FoundIsTrue(jb)'
    <2>1. /\ DOMAIN jb = JobFields /\ jb.label \in Nat /\ jb.label <= hour
          /\ DOMAIN jb.found \subseteq Rules
          /\ \A r \in DOMAIN jb.found : CountIsOf(r, jb.found[r].paid, jb.label)
      BY DEF JobIsTrue, FoundIsTrue
    <2>2. jb.label <= hour'
      BY <2>1 DEF WorldInv, WorldGrows
    <2>3. \A r \in DOMAIN jb.found : CountIsOf(r, jb.found[r].paid, jb.label)'
      BY <2>1, CountsStay
    <2>4. jb.at = "trades" => MissingAreGone(DOMAIN jb.found \union TradeRules, FALSE)'
      BY MissingStay DEF JobIsTrue, FoundIsTrue
    <2>5. jb.at \in {"selection", "ledgers"} =>
            MissingAreGone(DOMAIN jb.found, jb.blind)' /\ DOMAIN jb.found # {}
      BY MissingStay DEF JobIsTrue, FoundIsTrue
    <2> QED
      BY <2>1, <2>2, <2>3, <2>4, <2>5 DEF FoundIsTrue
  <1>2. SeenIsTrue(jb)'
    <2>1. \A r \in DOMAIN jb.seen : r \in Rules /\ SeenCovers(r, jb.seen[r], jb.found[r].paid)
      BY DEF JobIsTrue, SeenIsTrue, FoundIsTrue
    <2>2. \A r \in DOMAIN jb.seen : SeenCovers(r, jb.seen[r], jb.found[r].paid)'
      BY <2>1, SeenStays
    <2> QED
      BY <2>2 DEF JobIsTrue, SeenIsTrue
  <1>3. BoardIsTrue(jb)'
    <2>1. jb.board.kind = "rule" => FaceIsTrue(jb.board)' /\ MissingAreGone(DOMAIN jb.faces, jb.blind)'
      BY FaceStays, MissingStay DEF JobIsTrue, BoardIsTrue
    <2>2. \A r \in DOMAIN jb.faces : FaceIsTrue(jb.faces[r])' /\ jb.faces[r].kind = "rule"
      BY FaceStays DEF JobIsTrue, BoardIsTrue
    <2> QED
      BY <2>1, <2>2 DEF JobIsTrue, BoardIsTrue
  <1> QED
    BY <1>1, <1>2, <1>3 DEF JobIsTrue

-----------------------------------------------------------------------------
(* Each step of a job                                                      *)

\* One job moves to what is true, and the others stay true.
LEMMA OneJobMoves ==
    ASSUME WorldInv, WorldGrows, WorldInv', BoardInv, NEW j \in Jobs, NEW nj, JobIsTrue(nj),
           DOMAIN job' = Jobs, job'[j] = nj, \A i \in Jobs : i # j => job'[i] = job[i]
    PROVE  \A i \in Jobs : JobIsTrue(job[i])'
  <1>1. JobIsTrue(nj)'
    BY JobStays
  <1>2. ASSUME NEW i \in Jobs PROVE JobIsTrue(job[i])'
    <2>1. CASE i = j
      BY <1>1, <2>1
    <2>2. CASE i # j
      <3>1. PICK x : x = job[i]
        OBVIOUS
      <3>2. JobIsTrue(x)'
        BY <3>1, JobStays DEF BoardInv
      <3>3. job'[i] = x
        BY <2>2, <3>1
      <3> QED
        BY <3>2, <3>3
    <2> QED
      BY <2>1, <2>2
  <1> QED
    BY <1>2

\* What is drawn stays true where it is not drawn again.
LEMMA LooksStay ==
    ASSUME WorldInv, WorldGrows, WorldInv', BoardInv, NEW w \in AllWidgets, drawn'[w] = drawn[w]
    PROVE  LookIsTrue(drawn[w])'
  <1>1. PICK x : x = drawn[w]
    OBVIOUS
  <1>2. LookIsTrue(x)'
    BY <1>1, LookStays DEF BoardInv
  <1> QED
    BY <1>1, <1>2

\* A message says nothing of a rule.
LEMMA MessagesAreTrue ==
    ASSUME NEW body, body \notin {"rule", "gone"}
    PROVE  /\ LookIsTrue(Message(body)) /\ Message(body).kind = body
           /\ DOMAIN Message(body) = FaceFields
  BY DEF Message, LookIsTrue, FaceFields

\* A job that knows nothing.
LEMMA IdleIsTrue ==
    ASSUME WorldInv
    PROVE  JobIsTrue(Idle)
  <1>1. DOMAIN <<>> = {}
    OBVIOUS
  <1>2. FoundIsTrue(Idle) /\ SeenIsTrue(Idle)
    BY <1>1 DEF FoundIsTrue, SeenIsTrue, Idle, JobFields, WorldInv
  <1>3. /\ Idle.board = Message("loading") /\ Idle.faces = <<>> /\ Idle.copy = <<>>
        /\ Idle.at = "idle"
    BY DEF Idle
  <1>4. BoardIsTrue(Idle)
    BY <1>1, <1>3, MessagesAreTrue DEF BoardIsTrue, BindsRules
  <1> QED
    BY <1>2, <1>4 DEF JobIsTrue

LEMMA BeginningIsTrue ==
    ASSUME WorldInv, NEW for, NEW choose, NEW nj,
           nj = [Idle EXCEPT !.at = IF session THEN "payments" ELSE "bind",
                             !.board = Message("signedOut"),
                             !.for = for, !.choose = choose, !.label = hour]
    PROVE  JobIsTrue(nj)
  <1>1. DOMAIN <<>> = {}
    OBVIOUS
  <1>2. /\ DOMAIN nj = JobFields /\ nj.at \in {"payments", "bind"} /\ nj.label = hour
        /\ nj.found = <<>> /\ nj.seen = <<>> /\ nj.faces = <<>> /\ nj.copy = <<>>
        /\ nj.board = Message("signedOut")
    BY DEF Idle, JobFields
  <1>3. FoundIsTrue(nj) /\ SeenIsTrue(nj)
    BY <1>1, <1>2 DEF FoundIsTrue, SeenIsTrue, WorldInv
  <1>4. BoardIsTrue(nj)
    BY <1>1, <1>2, MessagesAreTrue DEF BoardIsTrue, BindsRules
  <1> QED
    BY <1>3, <1>4 DEF JobIsTrue

\* An account that is read now counts what was paid before any earlier time.
LEMMA AccountsCount ==
    ASSUME WorldInv, NEW r \in Rules, NEW t \in Nat
    PROVE  CountIsOf(r, account[r].paid, t)
  <1>1. ledger[r] \in Seq(LedgerRow) /\ account[r].paid = PaidIn(ledger[r]) /\ account[r].paid \in Nat
    BY DEF WorldInv, Written, LedgerRow
  <1>2. PaidBefore(ledger[r], t) <= account[r].paid /\ PaidBefore(ledger[r], t) \in Nat
    BY <1>1, RowsAreCounted
  <1>3. account[r].paid >= PaidBefore(ledger[r], t) /\ account[r].paid <= account[r].paid
    BY <1>1, <1>2
  <1> QED
    BY <1>1, <1>3 DEF CountIsOf

\* A board that is only a message.
LEMMA MessageBoardIsTrue ==
    ASSUME NEW jb, JobIsTrue(jb), NEW body \in {"error", "noRule"},
           NEW nj, nj = [jb EXCEPT !.at = "bind", !.board = Message(body)]
    PROVE  JobIsTrue(nj)
  <1>1. DOMAIN jb = JobFields
    BY DEF JobIsTrue, FoundIsTrue
  <1>2. /\ DOMAIN nj = JobFields /\ nj.at = "bind" /\ nj.board = Message(body)
        /\ nj.label = jb.label /\ nj.found = jb.found /\ nj.seen = jb.seen
        /\ nj.faces = jb.faces /\ nj.copy = jb.copy /\ nj.blind = jb.blind
    BY <1>1 DEF JobFields
  <1>3. FoundIsTrue(nj)
    BY <1>2 DEF JobIsTrue, FoundIsTrue
  <1>4. SeenIsTrue(nj)
    BY <1>2 DEF JobIsTrue, SeenIsTrue
  <1>5. BoardIsTrue(nj)
    BY <1>2, MessagesAreTrue DEF JobIsTrue, BoardIsTrue
  <1> QED
    BY <1>3, <1>4, <1>5 DEF JobIsTrue

\* The payment rules, as they are.
LEMMA PaymentsAreFound ==
    ASSUME WorldInv, NEW jb, JobIsTrue(jb), jb.at = "payments", NEW nj,
           nj = [jb EXCEPT !.at = "trades",
                           !.found = [r \in {p \in PayRules : Listed(p)} |-> account[r]]]
    PROVE  JobIsTrue(nj)
  <1>1. DOMAIN jb = JobFields /\ jb.label \in Nat /\ jb.label <= hour /\ jb.seen = <<>>
    BY DEF JobIsTrue, FoundIsTrue, SeenIsTrue
  <1>2. /\ DOMAIN nj = JobFields /\ nj.at = "trades" /\ nj.board = jb.board
        /\ nj.label = jb.label /\ nj.seen = <<>> /\ nj.faces = jb.faces /\ nj.copy = jb.copy
        /\ nj.blind = jb.blind /\ nj.found = [r \in {p \in PayRules : Listed(p)} |-> account[r]]
    BY <1>1 DEF JobFields
  <1>3. DOMAIN nj.found = {p \in PayRules : Listed(p)} /\ DOMAIN <<>> = {}
    BY <1>2
  <1>4. \A r \in DOMAIN nj.found : r \in Rules /\ CountIsOf(r, nj.found[r].paid, nj.label)
    BY <1>1, <1>2, <1>3, AccountsCount DEF Rules
  <1>5. MissingAreGone(DOMAIN nj.found \union TradeRules, FALSE)
    BY <1>3 DEF MissingAreGone, IsGone, Rules
  <1>6. FoundIsTrue(nj)
    BY <1>1, <1>2, <1>4, <1>5 DEF FoundIsTrue
  <1>7. SeenIsTrue(nj)
    BY <1>2, <1>3 DEF SeenIsTrue
  <1>8. BoardIsTrue(nj)
    BY <1>2 DEF JobIsTrue, BoardIsTrue
  <1> QED
    BY <1>6, <1>7, <1>8 DEF JobIsTrue

\* The trade rules beside them.
LEMMA TradesAreFound ==
    ASSUME WorldInv, NEW jb, JobIsTrue(jb), jb.at = "trades",
           NEW trades, trades = {t \in TradeRules : Listed(t)},
           NEW put, DOMAIN put = DOMAIN jb.found \union trades, DOMAIN put # {},
           \A r \in DOMAIN put : put[r] = IF r \in trades THEN account[r] ELSE jb.found[r],
           NEW nj, nj = [jb EXCEPT !.at = "selection", !.found = put]
    PROVE  JobIsTrue(nj)
  <1>1. /\ DOMAIN jb = JobFields /\ jb.label \in Nat /\ jb.label <= hour /\ jb.seen = <<>>
        /\ DOMAIN jb.found \subseteq Rules
        /\ \A r \in DOMAIN jb.found : CountIsOf(r, jb.found[r].paid, jb.label)
        /\ MissingAreGone(DOMAIN jb.found \union TradeRules, FALSE)
    BY DEF JobIsTrue, FoundIsTrue, SeenIsTrue
  <1>2. /\ DOMAIN nj = JobFields /\ nj.at = "selection" /\ nj.board = jb.board
        /\ nj.label = jb.label /\ nj.seen = <<>> /\ nj.faces = jb.faces /\ nj.copy = jb.copy
        /\ nj.blind = jb.blind /\ nj.found = put
    BY <1>1 DEF JobFields
  <1>3. /\ DOMAIN put = DOMAIN jb.found \union trades /\ DOMAIN <<>> = {}
        /\ \A r \in DOMAIN put : put[r] = IF r \in trades THEN account[r] ELSE jb.found[r]
    OBVIOUS
  <1>4. \A r \in DOMAIN put : r \in Rules /\ CountIsOf(r, put[r].paid, jb.label)
    BY <1>1, <1>3, AccountsCount DEF Rules
  <1>5. MissingAreGone(DOMAIN put, jb.blind)
    BY <1>1, <1>3 DEF MissingAreGone, IsGone, Rules
  <1>6. FoundIsTrue(nj)
    BY <1>1, <1>2, <1>4, <1>5 DEF FoundIsTrue
  <1>7. SeenIsTrue(nj)
    BY <1>2, <1>3 DEF SeenIsTrue
  <1>8. BoardIsTrue(nj)
    BY <1>2 DEF JobIsTrue, BoardIsTrue
  <1> QED
    BY <1>6, <1>7, <1>8 DEF JobIsTrue

LEMMA TradesAreLeftOut ==
    ASSUME NEW jb, JobIsTrue(jb), jb.at = "trades", DOMAIN jb.found # {},
           NEW nj, nj = [jb EXCEPT !.at = "selection", !.blind = TRUE]
    PROVE  JobIsTrue(nj)
  <1>1. /\ DOMAIN jb = JobFields /\ MissingAreGone(DOMAIN jb.found \union TradeRules, FALSE)
    BY DEF JobIsTrue, FoundIsTrue
  <1>2. /\ DOMAIN nj = JobFields /\ nj.at = "selection" /\ nj.board = jb.board
        /\ nj.label = jb.label /\ nj.seen = jb.seen /\ nj.faces = jb.faces /\ nj.copy = jb.copy
        /\ nj.blind = TRUE /\ nj.found = jb.found
    BY <1>1 DEF JobFields
  <1>3. MissingAreGone(DOMAIN nj.found, nj.blind)
    BY <1>1, <1>2 DEF MissingAreGone, IsGone
  <1>4. FoundIsTrue(nj)
    BY <1>2, <1>3 DEF JobIsTrue, FoundIsTrue
  <1>5. SeenIsTrue(nj)
    BY <1>2 DEF JobIsTrue, SeenIsTrue
  <1>6. BoardIsTrue(nj)
    <2>1. \A found : MissingAreGone(found, jb.blind) => MissingAreGone(found, nj.blind)
      BY <1>2 DEF MissingAreGone, IsGone
    <2> QED
      BY <1>2, <2>1 DEF JobIsTrue, BoardIsTrue
  <1> QED
    BY <1>4, <1>5, <1>6 DEF JobIsTrue

LEMMA SelectionIsRead ==
    ASSUME NEW jb, JobIsTrue(jb), jb.at = "selection", NEW preferred,
           NEW nj, nj = [jb EXCEPT !.at = "ledgers", !.chosen = preferred]
    PROVE  JobIsTrue(nj)
  <1>1. DOMAIN jb = JobFields /\ jb.seen = <<>> /\ DOMAIN jb.found # {} /\ DOMAIN <<>> = {}
    BY DEF JobIsTrue, FoundIsTrue, SeenIsTrue
  <1>2. /\ DOMAIN nj = JobFields /\ nj.at = "ledgers" /\ nj.board = jb.board
        /\ nj.label = jb.label /\ nj.seen = jb.seen /\ nj.faces = jb.faces /\ nj.copy = jb.copy
        /\ nj.blind = jb.blind /\ nj.found = jb.found
    BY <1>1 DEF JobFields
  <1>3. FoundIsTrue(nj)
    BY <1>2 DEF JobIsTrue, FoundIsTrue
  <1>4. SeenIsTrue(nj)
    BY <1>1, <1>2 DEF JobIsTrue, SeenIsTrue
  <1>5. BoardIsTrue(nj)
    BY <1>2 DEF JobIsTrue, BoardIsTrue
  <1> QED
    BY <1>3, <1>4, <1>5 DEF JobIsTrue

\* A ledger that is read has all that was paid, so nothing that was counted earlier is missing.
LEMMA RowsAreRead ==
    ASSUME WorldInv, NEW r \in Rules, NEW count, NEW t, CountIsOf(r, count, t),
           NEW row \in {LatestListedDecision(ledger[r]), Unread}
    PROVE  SeenCovers(r, row, count)
  <1>1. Written(ledger[r], hour) /\ account[r].paid = PaidIn(ledger[r]) /\ hour \in Nat
    BY DEF WorldInv
  <1>2. /\ LatestListedDecision(ledger[r]) = Len(ledger[r]) /\ Len(ledger[r]) \in Nat
        /\ SubSeq(ledger[r], 1, Len(ledger[r])) = ledger[r]
    BY <1>1, LatestIsLast, RowsHaveTimes
  <1>3. count \in Nat /\ count <= account[r].paid /\ account[r].paid \in Nat
    BY DEF CountIsOf, WorldInv
  <1>4. PaidIn(ledger[r]) >= count
    BY <1>1, <1>3
  <1>5. ASSUME row # Unread
        PROVE  row \in 0 .. Len(ledger[r]) /\ PaidIn(SubSeq(ledger[r], 1, row)) >= count
    <2>1. row = Len(ledger[r])
      BY <1>2, <1>5
    <2>2. SubSeq(ledger[r], 1, row) = ledger[r]
      BY <1>2, <2>1
    <2>3. row \in 0 .. Len(ledger[r])
      BY <1>2, <2>1
    <2> QED
      BY <1>4, <2>2, <2>3
  <1> QED
    BY <1>5 DEF SeenCovers

\* There are finitely many rules.
LEMMA RulesAreFinite == IsFiniteSet(Rules) /\ Rules \subseteq Int
  <1>1. IsFiniteSet(PayRules) /\ IsFiniteSet(TradeRules) /\ Rules \subseteq Int
    BY WidgetRules DEF Rules
  <1>2. IsFiniteSet(PayRules \union TradeRules)
    BY <1>1, FS_Union
  <1> QED
    BY <1>1, <1>2 DEF Rules

\* The rule that is picked is one that was found.
LEMMA PickIsFound ==
    ASSUME WorldInv, NEW found, DOMAIN found \subseteq Rules, DOMAIN found # {}, NEW preferred
    PROVE  PickListed(found, preferred) \in DOMAIN found
  <1>1. IsFiniteSet(DOMAIN found) /\ DOMAIN found \subseteq Int
    <2>1. IsFiniteSet(Rules) /\ Rules \subseteq Int
      BY RulesAreFinite
    <2> QED
      BY <2>1, FS_Subset
  <1>2. ASSUME NEW S \in SUBSET (DOMAIN found), S # {} PROVE Max(S) \in DOMAIN found
    <2>1. IsFiniteSet(S) /\ S \subseteq Int
      BY <1>1, FS_Subset
    <2>2. Max(S) \in S
      BY <1>2, <2>1, Greatest
    <2> QED
      BY <2>2
  <1> QED
    BY <1>2 DEF PickListed

\* The faces of a job whose ledgers have been read are true.
LEMMA FacesAreTrue ==
    ASSUME WorldInv, NEW jb, JobIsTrue(jb), jb.at = "ledgers", NEW seen,
           DOMAIN seen = DOMAIN jb.found,
           \A r \in DOMAIN seen : SeenCovers(r, seen[r], jb.found[r].paid),
           NEW nj, nj = AssembleWidgetBoard(jb, seen)
    PROVE  JobIsTrue(nj)
  <1> DEFINE faces == [r \in DOMAIN jb.found |-> BuildRuleFace(r, jb.found[r], seen[r], jb)]
             p == PickListed(jb.found, jb.chosen)
  <1>1. /\ DOMAIN jb = JobFields /\ jb.label \in Nat /\ jb.label <= hour
        /\ DOMAIN jb.found \subseteq Rules /\ DOMAIN jb.found # {}
        /\ MissingAreGone(DOMAIN jb.found, jb.blind)
        /\ \A r \in DOMAIN jb.found : CountIsOf(r, jb.found[r].paid, jb.label)
    BY DEF JobIsTrue, FoundIsTrue
  <1>2. /\ DOMAIN nj = JobFields /\ nj.at = "bind" /\ nj.board = faces[p]
        /\ nj.label = jb.label /\ nj.seen = seen /\ nj.faces = faces /\ nj.copy = jb.copy
        /\ nj.blind = jb.blind /\ nj.found = jb.found
    BY <1>1 DEF AssembleWidgetBoard, JobFields
  <1>3. p \in DOMAIN jb.found
    BY <1>1, PickIsFound
  <1>4. ASSUME NEW r \in DOMAIN jb.found
        PROVE  FaceIsTrue(faces[r]) /\ faces[r].kind = "rule" /\ DOMAIN faces[r] = FaceFields
    <2>1. PICK f : f = BuildRuleFace(r, jb.found[r], seen[r], jb)
      OBVIOUS
    <2>2. /\ f.rule = r /\ f.paid = jb.found[r].paid /\ f.seen = seen[r] /\ f.label = jb.label
          /\ f.kind = "rule" /\ DOMAIN f = FaceFields
      BY <2>1 DEF BuildRuleFace, FaceFields
    <2>3. FaceIsTrue(f)
      BY <1>1, <2>2 DEF FaceIsTrue
    <2>4. faces[r] = f
      BY <2>1
    <2> QED
      BY <2>2, <2>3, <2>4
  <1>5. DOMAIN faces = DOMAIN jb.found
    OBVIOUS
  <1> HIDE DEF faces, p
  <1>6. FoundIsTrue(nj)
    BY <1>1, <1>2 DEF FoundIsTrue
  <1>7. SeenIsTrue(nj)
    BY <1>2 DEF SeenIsTrue
  <1>8. BoardIsTrue(nj)
    BY <1>1, <1>2, <1>3, <1>4, <1>5 DEF JobIsTrue, BoardIsTrue
  <1> QED
    BY <1>6, <1>7, <1>8 DEF JobIsTrue

\* A ledger is read that has not been read.
LEMMA NextIsLeft ==
    ASSUME NEW jb, JobIsTrue(jb), jb.at = "ledgers", NEW j, job[j] = jb
    PROVE  NextLedger(j) \in DOMAIN jb.found \ DOMAIN jb.seen
  <1> DEFINE left == DOMAIN jb.found \ DOMAIN jb.seen
  <1>1. left # {} /\ left \subseteq Rules
    BY DEF JobIsTrue, SeenIsTrue, FoundIsTrue
  <1>2. IsFiniteSet(Rules) /\ Rules \subseteq Int
    BY RulesAreFinite
  <1>3. ASSUME NEW S \in SUBSET left, S # {} PROVE Max(S) \in left
    <2>1. IsFiniteSet(S) /\ S \subseteq Int
      BY <1>1, <1>2, FS_Subset
    <2>2. Max(S) \in S
      BY <1>3, <2>1, Greatest
    <2> QED
      BY <2>2
  <1>4. left \intersect PayRules \in SUBSET left
    OBVIOUS
  <1> QED
    BY <1>1, <1>3, <1>4 DEF NextLedger

\* One more ledger, of those still to be read.
LEMMA OneMoreIsRead ==
    ASSUME WorldInv, NEW jb, JobIsTrue(jb), jb.at = "ledgers",
           NEW r \in DOMAIN jb.found \ DOMAIN jb.seen,
           NEW row \in {LatestListedDecision(ledger[r]), Unread},
           NEW seen, seen = [q \in DOMAIN jb.seen \union {r} |-> IF q = r THEN row ELSE jb.seen[q]],
           NEW nj, nj = IF DOMAIN seen = DOMAIN jb.found THEN AssembleWidgetBoard(jb, seen)
                        ELSE [jb EXCEPT !.seen = seen]
    PROVE  JobIsTrue(nj)
  <1>1. /\ DOMAIN jb = JobFields /\ DOMAIN jb.found \subseteq Rules
        /\ \A q \in DOMAIN jb.found : CountIsOf(q, jb.found[q].paid, jb.label)
        /\ DOMAIN jb.seen \subseteq DOMAIN jb.found
        /\ \A q \in DOMAIN jb.seen : SeenCovers(q, jb.seen[q], jb.found[q].paid)
    BY DEF JobIsTrue, FoundIsTrue, SeenIsTrue
  <1>2. SeenCovers(r, row, jb.found[r].paid)
    BY <1>1, RowsAreRead
  <1>3. /\ DOMAIN seen = DOMAIN jb.seen \union {r}
        /\ \A q \in DOMAIN seen : seen[q] = IF q = r THEN row ELSE jb.seen[q]
    OBVIOUS
  <1>4. \A q \in DOMAIN seen : SeenCovers(q, seen[q], jb.found[q].paid)
    BY <1>1, <1>2, <1>3
  <1>5. CASE DOMAIN seen = DOMAIN jb.found
    BY <1>4, <1>5, FacesAreTrue
  <1>6. CASE DOMAIN seen # DOMAIN jb.found
    <2>1. /\ DOMAIN nj = JobFields /\ nj.at = "ledgers" /\ nj.board = jb.board
          /\ nj.label = jb.label /\ nj.seen = seen /\ nj.faces = jb.faces /\ nj.copy = jb.copy
          /\ nj.blind = jb.blind /\ nj.found = jb.found
      BY <1>1, <1>6 DEF JobFields
    <2>2. FoundIsTrue(nj)
      BY <2>1 DEF JobIsTrue, FoundIsTrue
    <2>3. SeenIsTrue(nj)
      BY <1>1, <1>3, <1>4, <1>6, <2>1 DEF SeenIsTrue
    <2>4. BoardIsTrue(nj)
      BY <2>1 DEF JobIsTrue, BoardIsTrue
    <2> QED
      BY <2>2, <2>3, <2>4 DEF JobIsTrue
  <1> QED
    BY <1>5, <1>6

\* The bindings are read.
LEMMA CopyIsTaken ==
    ASSUME NEW jb, JobIsTrue(jb), jb.at = "bind", NEW bound, BindsRules(bound),
           NEW nj, \/ nj = [jb EXCEPT !.at = "rules", !.copy = bound]
                   \/ \E r \in DOMAIN jb.faces :
                        r \in Rules /\ nj = [jb EXCEPT !.at = "write", !.copy = bound, !.face = r]
    PROVE  JobIsTrue(nj)
  <1>1. DOMAIN jb = JobFields
    BY DEF JobIsTrue, FoundIsTrue
  <1>2. /\ DOMAIN nj = JobFields /\ nj.at \in {"rules", "write"} /\ nj.board = jb.board
        /\ nj.label = jb.label /\ nj.seen = jb.seen /\ nj.faces = jb.faces /\ nj.copy = bound
        /\ nj.blind = jb.blind /\ nj.found = jb.found
        /\ nj.at = "write" => nj.face \in DOMAIN jb.faces /\ nj.face \in Rules
    BY <1>1 DEF JobFields
  <1>3. FoundIsTrue(nj)
    BY <1>2 DEF JobIsTrue, FoundIsTrue
  <1>4. SeenIsTrue(nj)
    BY <1>2 DEF JobIsTrue, SeenIsTrue
  <1>5. BoardIsTrue(nj)
    BY <1>2 DEF JobIsTrue, BoardIsTrue
  <1> QED
    BY <1>3, <1>4, <1>5 DEF JobIsTrue

\* A widget that is deleted is forgotten from what is stored.
LEMMA ForgettingIsTrue ==
    ASSUME WorldInv, NEW w, NEW bound, BindsRules(bound),
           NEW nj, nj = [Idle EXCEPT !.at = "forget", !.for = w, !.copy = bound]
    PROVE  JobIsTrue(nj)
  <1>1. DOMAIN <<>> = {}
    OBVIOUS
  <1>2. /\ DOMAIN nj = JobFields /\ nj.at = "forget" /\ nj.label = 0
        /\ nj.found = <<>> /\ nj.seen = <<>> /\ nj.faces = <<>> /\ nj.copy = bound
        /\ nj.board = Message("loading")
    BY DEF Idle, JobFields
  <1>3. FoundIsTrue(nj) /\ SeenIsTrue(nj)
    BY <1>1, <1>2 DEF FoundIsTrue, SeenIsTrue, WorldInv
  <1>4. BoardIsTrue(nj)
    BY <1>1, <1>2, MessagesAreTrue DEF BoardIsTrue
  <1> QED
    BY <1>3, <1>4 DEF JobIsTrue

-----------------------------------------------------------------------------
(* What is drawn and stored                                                *)

LEMMA BoundAreRules ==
    ASSUME NEW bound, BindsRules(bound), NEW w, NEW r \in Rules
    PROVE  /\ BindsRules(WithWidgetBinding(bound, w, r)) /\ BindsRules(WithoutWidgetBinding(bound, w))
           /\ BindsRules(<<>>)
  BY DEF BindsRules, WithWidgetBinding, WithoutWidgetBinding

\* A face, a message or a rule that is gone: what a job draws is true.
LEMMA DrawnIsTrue ==
    ASSUME NEW jb, JobIsTrue(jb), NEW bound, BindsRules(bound), NEW w
    PROVE  LookIsTrue(DrawForSpend(jb)) /\ LookIsTrue(DrawForRule(jb, bound, w))
  <1>1. LookIsTrue(jb.board)
    BY DEF JobIsTrue, BoardIsTrue, LookIsTrue
  <1>2. LookIsTrue(Message("pick"))
    BY MessagesAreTrue
  <1>3. ASSUME jb.board.kind = "rule", w \in DOMAIN bound, bound[w] \notin DOMAIN jb.faces,
               NEW f, f = [Message("gone") EXCEPT !.rule = bound[w], !.blind = jb.blind]
        PROVE  LookIsTrue(f)
    <2>1. f.kind = "gone" /\ f.rule = bound[w] /\ f.blind = jb.blind
      BY <1>3 DEF Message
    <2>2. bound[w] \in Rules /\ IsGone(bound[w], jb.blind)
      BY <1>3 DEF JobIsTrue, BoardIsTrue, MissingAreGone, BindsRules
    <2> QED
      BY <2>1, <2>2 DEF LookIsTrue
  <1>4. ASSUME NEW r \in DOMAIN jb.faces PROVE LookIsTrue(jb.faces[r])
    BY <1>4 DEF JobIsTrue, BoardIsTrue, LookIsTrue
  <1> QED
    BY <1>1, <1>2, <1>3, <1>4 DEF DrawForSpend, DrawForRule

\* A widget is drawn with what is true now.
LEMMA LookIsDrawn ==
    ASSUME WorldInv, WorldGrows, WorldInv', NEW f, LookIsTrue(f), NEW w, drawn'[w] = f
    PROVE  LookIsTrue(drawn[w])'
  <1>1. LookIsTrue(f)'
    BY LookStays
  <1> QED
    BY <1>1

\* The steps of a job keep the jobs, the widgets and the bindings true.
LEMMA JobStepsKeepBoards ==
    ASSUME WorldInv, WorldGrows, WorldInv', BoardInv, NEW j \in Jobs, JobStep(j)
    PROVE  BoardInv'
  <1>1. PICK jb : jb = job[j]
    OBVIOUS
  <1>2. /\ JobIsTrue(jb) /\ DOMAIN job = Jobs /\ DOMAIN drawn = AllWidgets /\ BindsRules(bindings)
        /\ \A w \in AllWidgets : LookIsTrue(drawn[w])
        /\ DOMAIN jb = JobFields
    BY <1>1 DEF BoardInv, JobIsTrue, FoundIsTrue
  <1>3. PICK bound : bound = bindings /\ BindsRules(bound)
    BY <1>2
  <1>4. ASSUME NEW nj, JobIsTrue(nj), DOMAIN job' = Jobs, job'[j] = nj,
               \A i \in Jobs : i # j => job'[i] = job[i],
               DOMAIN drawn' = AllWidgets, NEW binds, BindsRules(binds), bindings' = binds,
               \A w \in AllWidgets : drawn'[w] = drawn[w] \/ \E f : LookIsTrue(f) /\ drawn'[w] = f
        PROVE  BoardInv'
    <2>1. \A i \in Jobs : JobIsTrue(job[i])'
      BY <1>4, OneJobMoves
    <2>2. \A w \in AllWidgets : LookIsTrue(drawn[w])'
      BY <1>4, LooksStay, LookIsDrawn
    <2> QED
      BY <1>4, <2>1, <2>2 DEF BoardInv, BindsRules
  <1>5. ASSUME NEW nj, JobIsTrue(nj), job' = [job EXCEPT ![j] = nj], drawn' = drawn, bindings' = bindings
        PROVE  BoardInv'
    BY <1>2, <1>3, <1>4, <1>5
  <1>6. ASSUME NEW for, NEW choose, for = "all" \/ for \in AllWidgets, JobBegins(j, for, choose)
        PROVE  BoardInv'
    <2>1. PICK nj : nj = [Idle EXCEPT !.at = IF session THEN "payments" ELSE "bind",
                                      !.board = Message("signedOut"),
                                      !.for = for, !.choose = choose, !.label = hour]
      OBVIOUS
    <2>2. JobIsTrue(nj)
      BY <2>1, BeginningIsTrue
    <2>3. /\ job' = [job EXCEPT ![j] = nj] /\ bindings' = bound
          /\ drawn' = IF for = "all" \/ choose THEN drawn
                      ELSE [drawn EXCEPT ![for] = Message("loading")]
      BY <1>3, <1>6, <2>1 DEF JobBegins, store
    <2>4. LookIsTrue(Message("loading"))
      BY MessagesAreTrue
    <2>5. /\ DOMAIN drawn' = AllWidgets
          /\ \A w \in AllWidgets : drawn'[w] = drawn[w] \/ drawn'[w] = Message("loading")
      BY <1>2, <2>3
    <2> QED
      BY <1>2, <1>3, <1>4, <2>2, <2>3, <2>4, <2>5
  <1>7. ASSUME PaymentsListed(j) PROVE BoardInv'
    <2>1. PICK nj : nj = [jb EXCEPT !.at = "trades",
                                    !.found = [r \in {p \in PayRules : Listed(p)} |-> account[r]]]
      OBVIOUS
    <2>2. job' = [job EXCEPT ![j] = nj] /\ jb.at = "payments" /\ drawn' = drawn /\ bindings' = bindings
      BY <1>1, <1>2, <1>7, <2>1 DEF PaymentsListed, store
    <2> QED
      BY <1>2, <1>5, <2>1, <2>2, PaymentsAreFound
  <1>8. ASSUME NEW body \in {"error", "noRule"}, HasBoard(j, body), drawn' = drawn, bindings' = bindings
        PROVE  BoardInv'
    <2>1. PICK nj : nj = [jb EXCEPT !.at = "bind", !.board = Message(body)]
      OBVIOUS
    <2>2. job' = [job EXCEPT ![j] = nj]
      BY <1>1, <1>2, <1>8, <2>1 DEF HasBoard
    <2> QED
      BY <1>2, <1>5, <1>8, <2>1, <2>2, MessageBoardIsTrue
  <1>9. ASSUME PaymentsUnlisted(j) PROVE BoardInv'
    BY <1>8, <1>9 DEF PaymentsUnlisted, store
  <1>10. ASSUME TradesListed(j) PROVE BoardInv'
    <2>1. PICK trades : trades = {t \in TradeRules : Listed(t)}
      OBVIOUS
    <2>2. PICK put : put = [r \in DOMAIN jb.found \union trades |->
                                  IF r \in trades THEN account[r] ELSE jb.found[r]]
      OBVIOUS
    <2>3. /\ drawn' = drawn /\ bindings' = bindings /\ jb.at = "trades"
          /\ IF DOMAIN put = {} THEN HasBoard(j, "noRule")
             ELSE job' = [job EXCEPT ![j].at = "selection", ![j].found = put]
      BY <1>1, <1>10, <2>1, <2>2 DEF TradesListed, store
    <2>4. CASE DOMAIN put = {}
      BY <1>8, <2>3, <2>4
    <2>5. CASE DOMAIN put # {}
      <3>1. PICK nj : nj = [jb EXCEPT !.at = "selection", !.found = put]
        OBVIOUS
      <3>2. job' = [job EXCEPT ![j] = nj]
        BY <1>1, <1>2, <2>3, <2>5, <3>1
      <3>3. jb.at = "trades"
        BY <2>3
      <3>4. JobIsTrue(jb)
        BY <1>2
      <3>5. JobIsTrue(nj)
        <4>1. /\ DOMAIN put = DOMAIN jb.found \union trades
              /\ \A r \in DOMAIN put : put[r] = IF r \in trades THEN account[r] ELSE jb.found[r]
          BY <2>2
        <4> QED
          BY <2>1, <2>5, <3>1, <3>3, <3>4, <4>1, TradesAreFound
      <3> QED
        BY <1>5, <2>3, <3>2, <3>5
    <2> QED
      BY <2>4, <2>5
  <1>11. ASSUME TradesUnlisted(j) PROVE BoardInv'
    <2>1. /\ drawn' = drawn /\ bindings' = bindings /\ jb.at = "trades"
          /\ IF DOMAIN jb.found = {} THEN HasBoard(j, "error")
             ELSE job' = [job EXCEPT ![j].at = "selection", ![j].blind = TRUE]
      BY <1>1, <1>11 DEF TradesUnlisted, store
    <2>2. CASE DOMAIN jb.found = {}
      BY <1>8, <2>1, <2>2
    <2>3. CASE DOMAIN jb.found # {}
      <3>1. PICK nj : nj = [jb EXCEPT !.at = "selection", !.blind = TRUE]
        OBVIOUS
      <3>2. job' = [job EXCEPT ![j] = nj]
        BY <1>1, <1>2, <2>1, <2>3, <3>1
      <3> QED
        BY <1>2, <1>5, <2>1, <2>3, <3>1, <3>2, TradesAreLeftOut
    <2> QED
      BY <2>2, <2>3
  <1>12. ASSUME SelectionRead(j) PROVE BoardInv'
    <2>1. PICK preferred : preferred = selected
      OBVIOUS
    <2>2. PICK nj : nj = [jb EXCEPT !.at = "ledgers", !.chosen = preferred]
      OBVIOUS
    <2>3. job' = [job EXCEPT ![j] = nj] /\ jb.at = "selection" /\ drawn' = drawn /\ bindings' = bindings
      BY <1>1, <1>2, <1>12, <2>1, <2>2 DEF SelectionRead, store
    <2> QED
      BY <1>2, <1>5, <2>2, <2>3, SelectionIsRead
  <1>13. ASSUME LedgerFor(j) PROVE BoardInv'
    <2>1. jb.at = "ledgers" /\ drawn' = drawn /\ bindings' = bindings
      BY <1>1, <1>13 DEF LedgerFor, store
    <2>2. PICK r : r = NextLedger(j)
      OBVIOUS
    <2>3. r \in DOMAIN jb.found \ DOMAIN jb.seen
      BY <1>1, <1>2, <2>1, <2>2, NextIsLeft
    <2>4. PICK row \in {LatestListedDecision(ledger[r]), Unread} :
            LET seen == [q \in DOMAIN jb.seen \union {r} |-> IF q = r THEN row ELSE jb.seen[q]]
            IN  job' = [job EXCEPT ![j] = IF DOMAIN seen = DOMAIN jb.found
                                          THEN AssembleWidgetBoard(@, seen)
                                          ELSE [@ EXCEPT !.seen = seen]]
      BY <1>1, <1>13, <2>2 DEF LedgerFor
    <2>5. PICK seen : seen = [q \in DOMAIN jb.seen \union {r} |-> IF q = r THEN row ELSE jb.seen[q]]
      OBVIOUS
    <2>6. PICK nj : nj = IF DOMAIN seen = DOMAIN jb.found THEN AssembleWidgetBoard(jb, seen)
                         ELSE [jb EXCEPT !.seen = seen]
      OBVIOUS
    <2>7. job' = [job EXCEPT ![j] = nj]
      BY <1>1, <2>4, <2>5, <2>6
    <2>8. JobIsTrue(nj)
      BY <1>2, <2>1, <2>3, <2>5, <2>6, OneMoreIsRead
    <2> QED
      BY <1>5, <2>1, <2>7, <2>8
  <1>14. ASSUME RefreshHomeWidgets(j) PROVE BoardInv'
    <2>1. PICK nj : nj = [jb EXCEPT !.at = "rules", !.copy = bound]
      OBVIOUS
    <2>2. /\ job' = [job EXCEPT ![j] = nj] /\ bindings' = bound /\ jb.at = "bind"
      BY <1>1, <1>2, <1>3, <1>14, <2>1 DEF RefreshHomeWidgets, store
    <2>3. JobIsTrue(nj)
      BY <1>2, <1>3, <2>1, <2>2, CopyIsTaken
    <2>4. /\ DOMAIN drawn' = AllWidgets
          /\ \A w \in AllWidgets : drawn'[w] = drawn[w] \/ drawn'[w] = DrawForSpend(jb)
      BY <1>1, <1>14 DEF RefreshHomeWidgets, Drawn
    <2>5. LookIsTrue(DrawForSpend(jb))
      BY <1>2, <1>3, DrawnIsTrue
    <2> QED
      BY <1>2, <1>3, <1>4, <2>2, <2>3, <2>4, <2>5
  <1>15. ASSUME RefreshRuleWidgets(j) PROVE BoardInv'
    <2>1. job' = [job EXCEPT ![j] = Idle] /\ bindings' = bound
      BY <1>3, <1>15 DEF RefreshRuleWidgets, store
    <2>2. /\ DOMAIN drawn' = AllWidgets
          /\ \A w \in AllWidgets : drawn'[w] = drawn[w] \/ drawn'[w] = DrawForRule(jb, jb.copy, w)
      BY <1>1, <1>15 DEF RefreshRuleWidgets, Drawn
    <2>3. \A w : LookIsTrue(DrawForRule(jb, jb.copy, w))
      <3>1. PICK copy : copy = jb.copy
        OBVIOUS
      <3>2. BindsRules(copy)
        BY <1>2, <3>1 DEF JobIsTrue, BoardIsTrue
      <3> QED
        BY <1>2, <3>1, <3>2, DrawnIsTrue
    <2> QED
      BY <1>2, <1>3, <1>4, <2>1, <2>2, <2>3, IdleIsTrue
  <1>16. ASSUME WidgetTaskHandler(j) PROVE BoardInv'
    <2>1. job' = [job EXCEPT ![j] = Idle] /\ bindings' = bound
      BY <1>3, <1>16 DEF WidgetTaskHandler, store
    <2>2. PICK copy \in {bound, <<>>} :
            /\ DOMAIN drawn' = AllWidgets
            /\ \A w \in AllWidgets : \/ drawn'[w] = drawn[w] \/ drawn'[w] = DrawForSpend(jb)
                                     \/ drawn'[w] = DrawForRule(jb, copy, w)
      BY <1>1, <1>3, <1>16 DEF WidgetTaskHandler, Drawn
    <2>3. BindsRules(<<>>)
      BY DEF BindsRules
    <2>4. \A w : LookIsTrue(DrawForRule(jb, copy, w)) /\ LookIsTrue(DrawForSpend(jb))
      BY <1>2, <1>3, <2>3, DrawnIsTrue
    <2> QED
      BY <1>2, <1>3, <1>4, <2>1, <2>2, <2>4, IdleIsTrue
  <1>17. ASSUME JobLost(j) \/ ChoiceClosed(j) PROVE BoardInv'
    <2>1. job' = [job EXCEPT ![j] = Idle] /\ drawn' = drawn /\ bindings' = bindings
      BY <1>17 DEF JobLost, ChoiceClosed, store
    <2> QED
      BY <1>5, <2>1, IdleIsTrue
  <1>18. ASSUME NEW r \in Rules, Picks(j, r) PROVE BoardInv'
    <2>1. PICK nj : nj = [jb EXCEPT !.at = "write", !.copy = bound, !.face = r]
      OBVIOUS
    <2>2. /\ job' = [job EXCEPT ![j] = nj] /\ jb.at = "bind" /\ r \in DOMAIN jb.faces
          /\ drawn' = drawn /\ bindings' = bindings
      BY <1>1, <1>2, <1>3, <1>18, <2>1 DEF Picks, store
    <2>3. JobIsTrue(nj)
      BY <1>2, <1>3, <2>1, <2>2, CopyIsTaken
    <2> QED
      BY <1>5, <2>2, <2>3
  <1>19. ASSUME PickSaved(j) PROVE BoardInv'
    <2>1. /\ job' = [job EXCEPT ![j] = Idle] /\ jb.at = "write"
          /\ bindings' = WithWidgetBinding(jb.copy, jb.for, jb.face)
          /\ drawn' = [drawn EXCEPT ![jb.for] = IF @.kind = "deleted" THEN @ ELSE jb.faces[jb.face]]
      BY <1>1, <1>19 DEF PickSaved
    <2>2. BindsRules(jb.copy) /\ jb.face \in DOMAIN jb.faces /\ jb.face \in Rules
      BY <1>2, <2>1 DEF JobIsTrue, BoardIsTrue
    <2>3. PICK f : f = jb.faces[jb.face]
      OBVIOUS
    <2>4. LookIsTrue(f)
      BY <1>2, <2>2, <2>3 DEF JobIsTrue, BoardIsTrue, LookIsTrue
    <2>5. /\ DOMAIN drawn' = AllWidgets
          /\ \A w \in AllWidgets : drawn'[w] = drawn[w] \/ drawn'[w] = f
      BY <1>2, <2>1, <2>3
    <2>6. PICK kept : kept = WithWidgetBinding(jb.copy, jb.for, jb.face)
      OBVIOUS
    <2>7. BindsRules(kept)
      BY <2>2, <2>6, BoundAreRules
    <2> QED
      BY <1>2, <1>4, <2>1, <2>4, <2>5, <2>6, <2>7, IdleIsTrue
  <1>20. ASSUME NEW w \in RuleWidgets, WidgetDeleted(j, w) PROVE BoardInv'
    <2>1. PICK nj : nj = [Idle EXCEPT !.at = "forget", !.for = w, !.copy = bound]
      OBVIOUS
    <2>2. /\ job' = [job EXCEPT ![j] = nj] /\ bindings' = bound
          /\ drawn' = [drawn EXCEPT ![w] = Message("deleted")]
      BY <1>3, <1>20, <2>1 DEF WidgetDeleted, store
    <2>3. JobIsTrue(nj)
      BY <1>3, <2>1, ForgettingIsTrue
    <2>4. /\ DOMAIN drawn' = AllWidgets
          /\ \A v \in AllWidgets : drawn'[v] = drawn[v] \/ drawn'[v] = Message("deleted")
      BY <1>2, <2>2
    <2>5. LookIsTrue(Message("deleted"))
      BY MessagesAreTrue
    <2> QED
      BY <1>2, <1>3, <1>4, <2>2, <2>3, <2>4, <2>5
  <1>21. ASSUME ForgetWidgetBinding(j) PROVE BoardInv'
    <2>1. /\ job' = [job EXCEPT ![j] = Idle] /\ drawn' = drawn
          /\ bindings' = WithoutWidgetBinding(jb.copy, jb.for)
      BY <1>1, <1>21 DEF ForgetWidgetBinding
    <2>2. BindsRules(jb.copy)
      BY <1>2 DEF JobIsTrue, BoardIsTrue
    <2>3. PICK kept : kept = WithoutWidgetBinding(jb.copy, jb.for)
      OBVIOUS
    <2>4. BindsRules(kept)
      BY <2>2, <2>3 DEF BindsRules, WithoutWidgetBinding
    <2> QED
      BY <1>2, <1>4, <2>1, <2>3, <2>4, IdleIsTrue
  <1> QED
    BY <1>6, <1>7, <1>9, <1>10, <1>11, <1>12, <1>13, <1>14, <1>15, <1>16, <1>17, <1>18, <1>19,
       <1>20, <1>21 DEF JobStep, AllWidgets

-----------------------------------------------------------------------------
(* The bindings                                                            *)

\* Where no job but one moves, and what is stored stays, no change begins but that one's.
LEMMA JobStepsKeepPicks ==
    ASSUME BoardInv, PicksInv, NEW j \in Jobs, JobStep(j)
    PROVE  PicksInv'
  <1>1. DOMAIN job = Jobs
    BY DEF BoardInv
  <1>2. ASSUME NEW nj, nj.at \notin {"write", "forget"}, job' = [job EXCEPT ![j] = nj],
               UNCHANGED <<bindings, want, crossed>>
        PROVE  PicksInv'
    BY <1>1, <1>2 DEF PicksInv, Writing
  <1>3. DOMAIN job[j] = JobFields
    BY DEF BoardInv, JobIsTrue, FoundIsTrue
  <1>4. ASSUME NEW m, job' = [job EXCEPT ![j] = m],
               m.at \in {"write", "forget"}, m.copy = bindings,
               crossed' = (crossed \/ Crosses(j)), bindings' = bindings, want' = want
        PROVE  PicksInv'
    <2>1. CASE crossed \/ Crosses(j)
      BY <1>4, <2>1 DEF PicksInv
    <2>2. CASE ~(crossed \/ Crosses(j))
      <3>1. \A i \in Jobs : i # j => ~Writing(i) /\ job'[i] = job[i]
        BY <1>4, <2>2 DEF Crosses
      <3>2. \A i \in Jobs : Writing(i)' => i = j
        BY <1>1, <3>1 DEF Writing
      <3>3. job'[j].copy = bindings' /\ bindings' = want'
        BY <1>1, <1>4, <2>2 DEF PicksInv
      <3> QED
        BY <3>2, <3>3 DEF PicksInv, Writing
    <2> QED
      BY <2>1, <2>2
  <1>5. ASSUME Writing(j), job' = [job EXCEPT ![j] = Idle], crossed' = crossed,
               job[j].copy = bindings /\ bindings = want => bindings' = want'
        PROVE  PicksInv'
    <2>1. CASE crossed
      BY <1>5, <2>1 DEF PicksInv
    <2>2. CASE ~crossed
      <3>1. job[j].copy = bindings /\ bindings = want /\ \A k \in Jobs : Writing(k) => k = j
        BY <1>5, <2>2 DEF PicksInv
      <3>2. bindings' = want'
        BY <1>5, <3>1
      <3>3. \A i \in Jobs : ~Writing(i)'
        BY <1>1, <1>5, <3>1 DEF Writing, Idle
      <3> QED
        BY <3>2, <3>3 DEF PicksInv
    <2> QED
      BY <2>1, <2>2
  <1> DEFINE Quiet == UNCHANGED <<bindings, want, crossed>>
             Stays == \E nj : nj.at \notin {"write", "forget"} /\ job' = [job EXCEPT ![j] = nj]
  <1>6. ASSUME Quiet, Stays PROVE PicksInv'
    BY <1>2, <1>6
  <1>7. ASSUME NEW for, NEW choose, JobBegins(j, for, choose) PROVE Quiet /\ Stays
    <2>1. PICK nj : nj = [Idle EXCEPT !.at = IF session THEN "payments" ELSE "bind",
                                      !.board = Message("signedOut"),
                                      !.for = for, !.choose = choose, !.label = hour]
      OBVIOUS
    <2>2. nj.at \notin {"write", "forget"}
      BY <2>1 DEF Idle
    <2> QED
      BY <1>7, <2>1, <2>2 DEF JobBegins, store
  <1>8. ASSUME NEW body, HasBoard(j, body) PROVE Stays
    <2>1. PICK nj : nj = [job[j] EXCEPT !.at = "bind", !.board = Message(body)]
      OBVIOUS
    <2>2. nj.at = "bind" /\ job' = [job EXCEPT ![j] = nj]
      BY <1>1, <1>3, <1>8, <2>1 DEF HasBoard, JobFields
    <2> QED
      BY <2>2
  <1>9. ASSUME PaymentsListed(j) PROVE Quiet /\ Stays
    <2>1. PICK nj : nj = [job[j] EXCEPT !.at = "trades",
                            !.found = [r \in {p \in PayRules : Listed(p)} |-> account[r]]]
      OBVIOUS
    <2>2. nj.at = "trades" /\ job' = [job EXCEPT ![j] = nj]
      BY <1>1, <1>3, <1>9, <2>1 DEF PaymentsListed, JobFields
    <2> QED
      BY <1>9, <2>2 DEF PaymentsListed, store, ghosts
  <1>10. ASSUME TradesListed(j) PROVE Quiet /\ Stays
    <2>1. PICK put : \/ HasBoard(j, "noRule")
                       \/ job' = [job EXCEPT ![j].at = "selection", ![j].found = put]
      BY <1>10 DEF TradesListed
    <2>2. PICK nj : nj = [job[j] EXCEPT !.at = "selection", !.found = put]
      OBVIOUS
    <2>3. nj.at = "selection"
      BY <1>3, <2>2 DEF JobFields
    <2>4. HasBoard(j, "noRule") \/ job' = [job EXCEPT ![j] = nj]
      BY <1>1, <1>3, <2>1, <2>2
    <2> QED
      BY <1>8, <1>10, <2>3, <2>4 DEF TradesListed, store, ghosts
  <1>11. ASSUME TradesUnlisted(j) PROVE Quiet /\ Stays
    <2>1. PICK nj : nj = [job[j] EXCEPT !.at = "selection", !.blind = TRUE]
      OBVIOUS
    <2>2. nj.at = "selection"
      BY <1>3, <2>1 DEF JobFields
    <2>3. HasBoard(j, "error") \/ job' = [job EXCEPT ![j] = nj]
      BY <1>1, <1>3, <1>11, <2>1 DEF TradesUnlisted
    <2> QED
      BY <1>8, <1>11, <2>2, <2>3 DEF TradesUnlisted, store, ghosts
  <1>12. ASSUME SelectionRead(j) PROVE Quiet /\ Stays
    <2>1. PICK nj : nj = [job[j] EXCEPT !.at = "ledgers", !.chosen = selected]
      OBVIOUS
    <2>2. nj.at = "ledgers" /\ job' = [job EXCEPT ![j] = nj]
      BY <1>1, <1>3, <1>12, <2>1 DEF SelectionRead, JobFields
    <2> QED
      BY <1>12, <2>2 DEF SelectionRead, store, ghosts
  <1>13. ASSUME LedgerFor(j) PROVE Quiet /\ Stays
    <2>1. PICK jb : jb = job[j]
      OBVIOUS
    <2>2. DOMAIN jb = JobFields /\ jb.at = "ledgers"
      BY <1>3, <1>13, <2>1 DEF LedgerFor
    <2>3. PICK seen : \/ job' = [job EXCEPT ![j] = AssembleWidgetBoard(jb, seen)]
                      \/ job' = [job EXCEPT ![j] = [jb EXCEPT !.seen = seen]]
      BY <1>13, <2>1 DEF LedgerFor
    <2>4. AssembleWidgetBoard(jb, seen).at = "bind"
      BY <2>2 DEF AssembleWidgetBoard, JobFields
    <2>5. [jb EXCEPT !.seen = seen].at = "ledgers"
      BY <2>2 DEF JobFields
    <2>6. Stays
      BY <2>3, <2>4, <2>5
    <2> QED
      BY <1>13, <2>6 DEF LedgerFor, store, ghosts
  <1>14. ASSUME RefreshHomeWidgets(j) PROVE Quiet /\ Stays
    <2>1. PICK nj : nj = [job[j] EXCEPT !.at = "rules", !.copy = bindings]
      OBVIOUS
    <2>2. nj.at = "rules" /\ job' = [job EXCEPT ![j] = nj]
      BY <1>1, <1>3, <1>14, <2>1 DEF RefreshHomeWidgets, JobFields
    <2> QED
      BY <1>14, <2>2 DEF RefreshHomeWidgets, store, ghosts
  <1>15. Idle.at \notin {"write", "forget"}
    BY DEF Idle
  <1>16. ASSUME RefreshRuleWidgets(j) \/ WidgetTaskHandler(j) \/ JobLost(j) \/ ChoiceClosed(j)
         PROVE  Quiet /\ Stays
    BY <1>15, <1>16 DEF RefreshRuleWidgets, WidgetTaskHandler, JobLost, ChoiceClosed, store, ghosts
  <1>17. ASSUME PaymentsUnlisted(j) PROVE Quiet /\ Stays
    BY <1>8, <1>17 DEF PaymentsUnlisted, store, ghosts
  <1>18. ASSUME NEW r \in Rules, Picks(j, r) PROVE PicksInv'
    <2>1. PICK bound : bound = bindings
      OBVIOUS
    <2>2. PICK m : m = [job[j] EXCEPT !.at = "write", !.copy = bound, !.face = r]
      OBVIOUS
    <2>3. m.at = "write" /\ m.copy = bindings /\ job' = [job EXCEPT ![j] = m]
      BY <1>1, <1>3, <1>18, <2>1, <2>2 DEF Picks, JobFields
    <2> QED
      BY <1>4, <1>18, <2>3 DEF Picks, store
  <1>19. ASSUME NEW w \in RuleWidgets, WidgetDeleted(j, w) PROVE PicksInv'
    <2>1. PICK m : m = [Idle EXCEPT !.at = "forget", !.for = w, !.copy = bindings]
      OBVIOUS
    <2>2. m.at = "forget" /\ m.copy = bindings /\ job' = [job EXCEPT ![j] = m]
      BY <1>19, <2>1 DEF WidgetDeleted, Idle
    <2> QED
      BY <1>4, <1>19, <2>2 DEF WidgetDeleted, store
  <1>20. ASSUME PickSaved(j) PROVE PicksInv'
    BY <1>5, <1>20 DEF PickSaved, Writing, WithWidgetBinding
  <1>21. ASSUME ForgetWidgetBinding(j) PROVE PicksInv'
    BY <1>5, <1>21 DEF ForgetWidgetBinding, Writing, WithoutWidgetBinding
  <1> QED
    BY <1>6, <1>7, <1>9, <1>10, <1>11, <1>12, <1>13, <1>14, <1>16, <1>17, <1>18, <1>19, <1>20,
       <1>21 DEF JobStep

\* The invariant is kept by every step.
LEMMA WidgetsStep ==
    ASSUME WidgetsInv, [WidgetsNext]_widgetVars
    PROVE  WidgetsInv'
  <1>1. WorldInv' /\ WorldGrows
    BY TheWorldGrows DEF WidgetsInv
  <1>2. ASSUME NEW j \in Jobs, JobStep(j) PROVE WidgetsInv'
    BY <1>1, <1>2, JobStepsKeepBoards, JobStepsKeepPicks DEF WidgetsInv
  <1>3. ASSUME UNCHANGED <<bindings, job, drawn, want, crossed>> PROVE WidgetsInv'
    <2>1. PicksInv'
      BY <1>3 DEF WidgetsInv, PicksInv, Writing
    <2>2. \A i \in Jobs : JobIsTrue(job[i])'
      <3>1. ASSUME NEW i \in Jobs PROVE JobIsTrue(job[i])'
        <4>1. PICK x : x = job[i]
          OBVIOUS
        <4>2. JobIsTrue(x)' /\ job'[i] = x
          BY <1>1, <1>3, <4>1, JobStays DEF WidgetsInv, BoardInv
        <4> QED
          BY <4>2
      <3> QED
        BY <3>1
    <2>3. \A w \in AllWidgets : LookIsTrue(drawn[w])'
      BY <1>1, <1>3, LooksStay DEF WidgetsInv
    <2>4. BoardInv'
      BY <1>3, <2>2, <2>3 DEF WidgetsInv, BoardInv, BindsRules
    <2> QED
      BY <1>1, <2>1, <2>4 DEF WidgetsInv
  <1>4. ASSUME NEW r \in Rules, NEW kind, Decides(r, kind) \/ EndsRule(r) \/ Selects(r)
        PROVE  WidgetsInv'
    BY <1>3, <1>4 DEF Decides, EndsRule, Selects, store, ghosts
  <1>5. ASSUME ClockTicks \/ SignsOut \/ UNCHANGED widgetVars PROVE WidgetsInv'
    BY <1>3, <1>5 DEF ClockTicks, SignsOut, widgetVars, store, ghosts
  <1> QED
    BY <1>2, <1>4, <1>5 DEF WidgetsNext, JobStep

LEMMA WidgetsBegin == ASSUME WidgetsInit PROVE WidgetsInv
  <1>1. /\ \A r \in Rules : ledger[r] = <<>> /\ account[r] = [status |-> "active", paid |-> 0]
        /\ DOMAIN ledger = Rules /\ hour = 1
        /\ account \in [Rules -> [status : {"active", "revoked", "closed"}, paid : Nat]]
    BY DEF WidgetsInit
  <1>2. /\ Written(<<>>, 1) /\ PaidIn(<<>>) = 0
    <2>1. {i \in DOMAIN <<>> : <<>>[i].kind = "paid"} = {} /\ DOMAIN <<>> = {}
      OBVIOUS
    <2>2. PaidIn(<<>>) = 0
      BY <2>1, FS_EmptySet DEF PaidIn
    <2> QED
      BY <2>2 DEF Written
  <1>3. WorldInv
    BY <1>1, <1>2 DEF WorldInv
  <1>4. BoardInv
    <2>1. \A j \in Jobs : JobIsTrue(job[j])
      BY <1>3, IdleIsTrue DEF WidgetsInit
    <2>2. \A w \in AllWidgets : LookIsTrue(drawn[w])
      BY MessagesAreTrue DEF WidgetsInit
    <2> QED
      BY <2>1, <2>2 DEF WidgetsInit, BoardInv, BindsRules
  <1>5. PicksInv
    BY DEF WidgetsInit, PicksInv, Writing, Idle
  <1> QED
    BY <1>3, <1>4, <1>5 DEF WidgetsInv

\* The invariant of the widgets: ledgers are written in order, and whatever a job has read and
\* a widget shows is of some moment between its label and now.
THEOREM WidgetsInvariant == WidgetsSpec => []WidgetsInv
  BY WidgetsBegin, WidgetsStep, PTL DEF WidgetsSpec

LEMMA WidgetsMeanIt ==
    ASSUME WidgetsInv
    PROVE  WidgetsAreTrue
  <1>1. FacesHoldTogether
    <2>1. ASSUME NEW f \in Faces
          PROVE  /\ f.paid >= PaidBefore(ledger[f.rule], f.label)
                 /\ f.seen # Unread => PaidIn(SubSeq(ledger[f.rule], 1, f.seen)) >= f.paid
      <3>1. FaceIsTrue(f)
        BY DEF Faces, WidgetsInv, BoardInv, LookIsTrue
      <3> QED
        BY <3>1 DEF FaceIsTrue, CountIsOf, SeenCovers
    <2> QED
      BY <2>1 DEF FacesHoldTogether, PaidBefore
  <1>2. GoneIsGone
    BY DEF GoneIsGone, WidgetsInv, BoardInv, LookIsTrue, IsGone, AllWidgets
  <1>3. BindingsFollowPicks
    BY DEF BindingsFollowPicks, WidgetsInv, PicksInv
  <1> QED
    BY <1>1, <1>2, <1>3 DEF WidgetsAreTrue

\* A face on the home screen agrees with itself and with the time on its label; a rule said to be
\* gone is gone, or trades and could not be listed; and the bindings stored are the owner's picks
\* unless two changes of them overlapped (widgetData.ts, widgets/).
THEOREM WidgetsTellTheTruth == WidgetsSpec => []WidgetsAreTrue
  BY WidgetsInvariant, WidgetsMeanIt, PTL

-----------------------------------------------------------------------------
(* The screens of the app                                                  *)

\* Nothing is shown to an owner as absent that no listing found so, unless a listing of another
\* account strayed in.
ReadsInv ==
    /\ DOMAIN hooks = {"owner", "list", "shown", "loading", "error", "rateLimited", "checked"}
    /\ DOMAIN fetch = Fetches
    /\ \A f \in Fetches :
          /\ DOMAIN fetch[f] = {"at", "owner", "preferred", "pick", "tries"}
          /\ fetch[f].at = "record" /\ fetch[f].pick = Nobody => fetch[f].owner \in emptied
    /\ \/ hooks.checked = Nobody \/ hooks.checked # hooks.owner
       \/ hooks.loading \/ hooks.error \/ hooks.shown # Nobody
       \/ hooks.owner \in emptied \/ strayed

\* A listing with a rule picks one.
LEMMA SomethingIsPicked ==
    ASSUME NEW found \in SUBSET Listable, NEW preferred, Pick(found, preferred) = Nobody
    PROVE  found = {}
  <1>1. Listable \subseteq Nat \ {0} /\ IsFiniteSet(Listable)
    BY RuleReadsAssumption
  <1>2. ASSUME NEW S \in SUBSET Listable, S # {} PROVE Max(S) # Nobody
    <2>1. IsFiniteSet(S)
      BY <1>1, FS_Subset
    <2>2. S \subseteq Int
      BY <1>1
    <2>3. Max(S) \in S
      BY <1>2, <2>1, <2>2, Greatest
    <2> QED
      BY <1>1, <2>3 DEF Nobody
  <1>3. ASSUME found \ ListableTrades # {} PROVE PickMandate(found, preferred) # Nobody
    <2> DEFINE mandates == found \ ListableTrades
               live == {r \in mandates : standing[r] = "live"}
               unstopped == {r \in mandates : standing[r] # "revoked"}
    <2>1. mandates \in SUBSET Listable /\ live \in SUBSET Listable /\ unstopped \in SUBSET Listable
      OBVIOUS
    <2>2. preferred \in mandates => preferred # Nobody
      BY <1>1 DEF Nobody
    <2> QED
      BY <1>2, <1>3, <2>1, <2>2 DEF PickMandate
  <1>4. found \intersect ListableTrades \in SUBSET Listable
    OBVIOUS
  <1>5. preferred \in found => preferred # Nobody
    BY <1>1 DEF Nobody
  <1>6. CASE found \ ListableTrades # {}
    BY <1>3, <1>5, <1>6 DEF Pick
  <1>7. CASE found \ ListableTrades = {}
    BY <1>2, <1>4, <1>5, <1>7 DEF Pick
  <1> QED
    BY <1>6, <1>7

\* While a read runs nothing is said to be absent.
LEMMA BeginningKeepsReads ==
    ASSUME ReadsInv, NEW f \in Fetches, NEW v, NEW c, DOMAIN v = DOMAIN hooks, emptied' = emptied,
           BeginFetch(f, v, c)
    PROVE  ReadsInv'
  <1>1. CASE v.owner = Nobody
    <2>1. hooks' = Cleared(v) /\ fetch' = fetch
      BY <1>1 DEF BeginFetch
    <2>2. DOMAIN hooks' = DOMAIN hooks /\ hooks'.checked = Nobody
      BY <2>1 DEF Cleared, ReadsInv
    <2> QED
      BY <2>1, <2>2 DEF ReadsInv
  <1>2. CASE v.owner # Nobody
    <2>1. PICK n : n = NewFetch(v.owner, c)
      OBVIOUS
    <2>2. hooks' = Started(v) /\ fetch' = [fetch EXCEPT ![f] = n]
      BY <1>2, <2>1 DEF BeginFetch
    <2>3. DOMAIN n = {"at", "owner", "preferred", "pick", "tries"} /\ n.at = "list"
      BY <2>1 DEF NewFetch, NoFetch
    <2>4. DOMAIN hooks' = DOMAIN hooks /\ hooks'.loading
      BY <2>2 DEF Started, ReadsInv
    <2> QED
      BY <2>2, <2>3, <2>4 DEF ReadsInv
  <1> QED
    BY <1>1, <1>2

LEMMA ReadsStep ==
    ASSUME ReadsInv, [ReadNext]_readVars
    PROVE  ReadsInv'
  <1>1. /\ DOMAIN hooks = {"owner", "list", "shown", "loading", "error", "rateLimited", "checked"}
        /\ \A f \in Fetches : DOMAIN fetch[f] = {"at", "owner", "preferred", "pick", "tries"}
    BY DEF ReadsInv
  <1>2. ASSUME NEW f \in Fetches, ListArrives(f) PROVE ReadsInv'
    <2>1. PICK found, a : found = RulesOfOwner(fetch[f].owner) /\ a = fetch[f].owner
      OBVIOUS
    <2>2. PICK pick : pick = Pick(found, fetch[f].preferred)
      OBVIOUS
    <2>3. /\ fetch' = [fetch EXCEPT ![f].at = "record", ![f].pick = pick]
          /\ hooks' = [hooks EXCEPT !.list = found, !.shown = IF pick = Nobody THEN Nobody ELSE @]
          /\ emptied' = IF found = {} THEN emptied \union {a} ELSE emptied
          /\ strayed' = (strayed \/ (found = {} /\ a # hooks.owner))
      BY <1>2, <2>1, <2>2 DEF ListArrives
    <2>4. pick = Nobody => a \in emptied' /\ (a # hooks.owner => strayed')
      BY <2>1, <2>2, <2>3, SomethingIsPicked DEF RulesOfOwner
    <2>5. PICK n : n = [fetch[f] EXCEPT !.at = "record", !.pick = pick]
      OBVIOUS
    <2>6. /\ fetch' = [fetch EXCEPT ![f] = n] /\ n.owner = a /\ n.pick = pick
          /\ DOMAIN n = {"at", "owner", "preferred", "pick", "tries"}
      BY <1>1, <2>1, <2>3, <2>5
    <2>7. /\ DOMAIN hooks' = DOMAIN hooks /\ hooks'.checked = hooks.checked /\ hooks'.owner = hooks.owner
          /\ hooks'.loading = hooks.loading /\ hooks'.error = hooks.error
          /\ hooks'.shown = IF pick = Nobody THEN Nobody ELSE hooks.shown
      BY <1>1, <2>3
    <2>8. emptied \subseteq emptied' /\ (strayed => strayed')
      BY <2>3
    <2> QED
      BY <2>4, <2>6, <2>7, <2>8 DEF ReadsInv
  <1>3. ASSUME NEW f \in Fetches, RecordArrives(f) PROVE ReadsInv'
    <2>1. PICK a : a = fetch[f].owner
      OBVIOUS
    <2>2. /\ fetch' = [fetch EXCEPT ![f] = NoFetch] /\ emptied' = emptied
          /\ fetch[f].pick = Nobody => a \in emptied
      BY <1>3, <2>1 DEF RecordArrives, ReadsInv
    <2>3. /\ DOMAIN hooks' = DOMAIN hooks /\ hooks'.checked = a /\ hooks'.owner = hooks.owner
          /\ hooks'.shown = IF fetch[f].pick = Nobody THEN hooks.shown ELSE fetch[f].pick
      BY <1>1, <1>3, <2>1 DEF RecordArrives, Done
    <2>4. NoFetch.at = "idle" /\ DOMAIN NoFetch = {"at", "owner", "preferred", "pick", "tries"}
      BY DEF NoFetch
    <2>5. hooks'.checked # hooks'.owner \/ hooks'.shown # Nobody \/ hooks'.owner \in emptied'
      BY <2>2, <2>3
    <2> QED
      BY <2>2, <2>3, <2>4, <2>5 DEF ReadsInv
  <1>4. ASSUME NEW f \in Fetches, RateLimited(f) PROVE ReadsInv'
    <2>1. PICK n : n = [fetch[f] EXCEPT !.at = "list", !.preferred = chosen, !.tries = @ + 1]
      OBVIOUS
    <2>2. /\ fetch' = [fetch EXCEPT ![f] = n] /\ n.at = "list"
          /\ DOMAIN n = {"at", "owner", "preferred", "pick", "tries"}
          /\ emptied' = emptied /\ strayed' = strayed
      BY <1>1, <1>4, <2>1 DEF RateLimited
    <2>3. /\ DOMAIN hooks' = DOMAIN hooks /\ hooks'.checked = hooks.checked /\ hooks'.owner = hooks.owner
          /\ hooks'.loading = hooks.loading /\ hooks'.error = hooks.error
          /\ hooks'.shown = hooks.shown
      BY <1>1, <1>4 DEF RateLimited
    <2> QED
      BY <2>2, <2>3 DEF ReadsInv
  <1>5. ASSUME NEW f \in Fetches, FetchFails(f) PROVE ReadsInv'
    <2>1. /\ fetch' = [fetch EXCEPT ![f] = NoFetch] /\ emptied' = emptied
      BY <1>5 DEF FetchFails
    <2>2. DOMAIN hooks' = DOMAIN hooks /\ hooks'.error
      BY <1>1, <1>5 DEF FetchFails, Done
    <2>3. NoFetch.at = "idle" /\ DOMAIN NoFetch = {"at", "owner", "preferred", "pick", "tries"}
      BY DEF NoFetch
    <2> QED
      BY <2>1, <2>2, <2>3 DEF ReadsInv
  <1>6. ASSUME NEW f \in Fetches, NEW p \in Accounts, ConnectOwner(f, p) PROVE ReadsInv'
    <2>1. PICK v : v = [hooks EXCEPT !.owner = p]
      OBVIOUS
    <2>2. BeginFetch(f, v, chosen) /\ emptied' = emptied
      BY <1>6, <2>1 DEF ConnectOwner
    <2>3. DOMAIN v = DOMAIN hooks
      BY <1>1, <2>1
    <2>4. PICK c : c = chosen
      OBVIOUS
    <2> QED
      BY <2>2, <2>3, <2>4, BeginningKeepsReads
  <1>7. ASSUME DisconnectOwner PROVE ReadsInv'
    <2>1. fetch' = fetch /\ emptied' = emptied /\ hooks' = Cleared([hooks EXCEPT !.owner = Nobody])
      BY <1>7 DEF DisconnectOwner
    <2>2. DOMAIN hooks' = DOMAIN hooks /\ hooks'.checked = Nobody
      BY <1>1, <2>1 DEF Cleared
    <2> QED
      BY <2>1, <2>2 DEF ReadsInv
  <1>8. ASSUME UNCHANGED <<hooks, fetch, emptied, strayed>> PROVE ReadsInv'
    BY <1>8 DEF ReadsInv
  <1>9. ASSUME NEW r \in Listable, NEW how, OpenRule(r) \/ CloseRule(r) \/ EndRule(r, how)
        PROVE  UNCHANGED <<hooks, fetch, emptied, strayed>>
    BY <1>9 DEF OpenRule, CloseRule, EndRule
  <1>10. ASSUME NEW f \in Fetches, NEW r, Pull(f) \/ Select(f, r) \/ SwitchTo(f, r) PROVE ReadsInv'
    <2>1. emptied' = emptied /\ \E c : BeginFetch(f, hooks, c)
      BY <1>10 DEF Pull, Select, SwitchTo
    <2> QED
      BY <2>1, BeginningKeepsReads
  <1> QED
    BY <1>2, <1>3, <1>4, <1>5, <1>6, <1>7, <1>8, <1>9, <1>10 DEF ReadNext, FetchStep, readVars

\* "No rule on chain for this owner" is said, and a first rule offered, only when a listing of
\* this owner came back without one: for any accounts in turn, however their reads overlap, fail,
\* are limited and are tried again, unless an empty listing of another account came in late
\* (refresh of useChain.ts, mandateRead.ts).
THEOREM AbsenceIsRead == ReadSpec => []EmptyWasRead
  <1>1. ReadInit => ReadsInv
    BY DEF ReadInit, ReadsInv, NoHooks, NoFetch
  <1>2. ReadsInv /\ [ReadNext]_readVars => ReadsInv'
    BY ReadsStep
  <1>3. ReadsInv => EmptyWasRead
    <2>1. SUFFICES ASSUME ReadsInv, OverviewShows(hooks) = "first rule"
                   PROVE  hooks.owner \in emptied \/ strayed
      BY DEF EmptyWasRead
    <2>2. ReadStatus(hooks) = "empty"
      BY <2>1 DEF OverviewShows, ReadStatus
    <2>3. /\ hooks.owner # Nobody /\ hooks.checked = hooks.owner /\ hooks.shown = Nobody
          /\ ~hooks.loading /\ ~hooks.error
      BY <2>2 DEF ReadStatus
    <2> QED
      BY <2>1, <2>3 DEF ReadsInv
  <1> QED
    BY <1>1, <1>2, <1>3, PTL DEF ReadSpec

-----------------------------------------------------------------------------
(* Agent records: readings of a ledger                                     *)

RowKinds == {"opened", "paid", "refused", "override", "revoked", "decline"}

Reasons == {"ok", "not-active", "expired", "stale", "limit", "cap"}

Row == [i : Nat, kind : RowKinds, ts : Nat, nonce : Nat, amount : Nat, reason : Reasons]

\* The rows the program writes, and not the agent's notes.
OnRing(rows) == {row \in rows : row.kind # "decline"}

\* The first rows of a ledger.
UpTo(list, n) == {list[i] : i \in 1 .. n}

\* The newest of some rows, at most as many as the ring keeps, and fewer only when they are all.
IsNewest(ring, all) ==
    /\ ring \subseteq all
    /\ \A x \in ring, y \in all : x.i <= y.i => y \in ring
    /\ Cardinality(ring) <= RingRows
    /\ ring = all \/ Cardinality(ring) = RingRows

\* What a reader had of a ledger when n rows were written.
IsReading(rows, list, n) ==
    /\ n \in 1 .. Len(list)
    /\ rows \subseteq UpTo(list, n) /\ IsNewest(OnRing(rows), OnRing(UpTo(list, n)))

WasRead(rows, list) == \E n \in Nat : IsReading(rows, list, n)

\* A payment above the limit follows the permission of its nonce.
PermittedBefore(list) ==
    \A k \in 1 .. Len(list) : list[k].kind = "paid" =>
        \/ list[k].amount = 1
        \/ \E m \in 1 .. k - 1 : list[m].kind = "override" /\ list[m].nonce = list[k].nonce

\* A ledger is numbered in order, and begins with the opening of its rule.
IsLedger(list) ==
    /\ list \in Seq(Row) /\ Len(list) >= 1 /\ list[1].kind = "opened"
    /\ \A k \in 1 .. Len(list) : list[k].i = k
    /\ PermittedBefore(list)

\* What RingOf keeps are the newest rows.
LEMMA NewestAreKept ==
    ASSUME NEW all, IsFiniteSet(all), \A x \in all : x.i \in Nat,
           \A x, y \in all : x.i = y.i => x = y
    PROVE  IsNewest({row \in all : Cardinality({x \in all : x.i > row.i}) < RingRows}, all)
  <1> DEFINE Above(row) == {x \in all : x.i > row.i}
             ring == {row \in all : Cardinality(Above(row)) < RingRows}
             at == [x \in all |-> x.i]
             down == [x \in all |-> - x.i]
  <1>1. RingRows \in Nat /\ RingRows >= 1
    BY RecordAssumption
  <1>2. \A row \in all : /\ IsFiniteSet(Above(row)) /\ Cardinality(Above(row)) \in Nat
                         /\ IsFiniteSet(Above(row) \union {row})
                         /\ Cardinality(Above(row) \union {row}) = Cardinality(Above(row)) + 1
    <2> TAKE row \in all
    <2>1. IsFiniteSet(Above(row)) /\ row \notin Above(row)
      BY FS_Subset
    <2> HIDE DEF Above
    <2> QED BY <2>1, FS_AddElement, FS_CardinalityType
  <1>3. ASSUME NEW x \in ring, NEW y \in all, x.i <= y.i PROVE y \in ring
    <2>1. Above(y) \subseteq Above(x)
      BY <1>3
    <2>2. Cardinality(Above(y)) <= Cardinality(Above(x))
      BY <1>2, <2>1, FS_Subset
    <2>3. Cardinality(Above(x)) < RingRows /\ Cardinality(Above(x)) \in Nat /\ Cardinality(Above(y)) \in Nat
      BY <1>2
    <2> QED BY <1>1, <2>2, <2>3
  <1>4. Cardinality(ring) <= RingRows
    <2>1. CASE ring = {}
      <3> HIDE DEF ring
      <3> QED BY <1>1, <2>1, FS_EmptySet
    <2>2. CASE ring # {}
      <3>1. IsFiniteSet(ring)
        BY FS_Subset
      <3>2. \A x \in ring : down[x] \in Int /\ down[x] = - x.i /\ x.i \in Nat
        OBVIOUS
      <3>3. PICK least \in ring : \A y \in ring : down[y] <= down[least]
        <4> HIDE DEF ring, down
        <4> QED BY <2>2, <3>1, <3>2, LargestNumber
      <3>4. \A y \in ring : least.i <= y.i
        BY <3>2, <3>3
      <3>5. ring \subseteq Above(least) \union {least}
        BY <3>4
      <3>6. Cardinality(ring) <= Cardinality(Above(least)) + 1
        <4>1. PICK rest : rest = Above(least)
          OBVIOUS
        <4>2. ring \subseteq rest \union {least} /\ IsFiniteSet(rest \union {least})
              /\ Cardinality(rest \union {least}) = Cardinality(rest) + 1
          BY <1>2, <3>5, <4>1
        <4> HIDE DEF ring
        <4> QED BY <4>1, <4>2, FS_Subset
      <3>7. Cardinality(Above(least)) < RingRows /\ Cardinality(Above(least)) \in Nat
        BY <1>2
      <3>8. Cardinality(ring) \in Nat
        BY <3>1, FS_CardinalityType
      <3> QED BY <1>1, <3>6, <3>7, <3>8
    <2> QED BY <2>1, <2>2
  <1>5. ring = all \/ Cardinality(ring) = RingRows
    <2> SUFFICES ASSUME ring # all PROVE Cardinality(ring) >= RingRows
      <3>1. IsFiniteSet(ring)
        BY FS_Subset
      <3> HIDE DEF ring
      <3>2. Cardinality(ring) \in Nat
        BY <3>1, FS_CardinalityType
      <3> QED BY <1>1, <1>4, <3>2
    <2>1. all \ ring # {} /\ IsFiniteSet(all \ ring) /\ IsFiniteSet(ring)
      BY FS_Subset
    <2>2. \A x \in all \ ring : at[x] \in Int /\ at[x] = x.i /\ x.i \in Nat
      OBVIOUS
    <2>3. PICK last \in all \ ring : \A y \in all \ ring : at[y] <= at[last]
      <3> HIDE DEF ring, at
      <3> QED BY <2>1, <2>2, LargestNumber
    <2>4. Above(last) \subseteq ring
      BY <2>2, <2>3
    <2>5. Cardinality(Above(last)) <= Cardinality(ring)
      BY <2>1, <2>4, FS_Subset
    <2>6. Cardinality(Above(last)) >= RingRows /\ Cardinality(Above(last)) \in Nat
      <3>1. ~(Cardinality(Above(last)) < RingRows) /\ Cardinality(Above(last)) \in Nat
        BY <1>2
      <3> HIDE DEF Above
      <3> QED BY <1>1, <3>1
    <2>7. Cardinality(ring) \in Nat
      BY <2>1, FS_CardinalityType
    <2> QED BY <1>1, <2>5, <2>6, <2>7
  <1>6. ring \subseteq all
    OBVIOUS
  <1> HIDE DEF ring
  <1>7. IsNewest(ring, all)
    BY <1>3, <1>4, <1>5, <1>6 DEF IsNewest
  <1> QED
    BY <1>7 DEF ring

\* Rows of a ledger are finitely many and told apart by their number.
LEMMA LedgerRows ==
    ASSUME NEW list, IsLedger(list), NEW n \in 0 .. Len(list)
    PROVE  /\ IsFiniteSet(UpTo(list, n)) /\ IsFiniteSet(OnRing(UpTo(list, n)))
           /\ \A x \in UpTo(list, n) : x \in Row /\ x.i \in 1 .. n /\ list[x.i] = x
           /\ \A x, y \in UpTo(list, n) : x.i = y.i => x = y
  <1>1. \A k \in 1 .. n : list[k] \in Row /\ list[k].i = k
    BY DEF IsLedger
  <1>2. IsFiniteSet(1 .. n)
    BY FS_Interval
  <1>3. IsFiniteSet(UpTo(list, n))
    <2> DEFINE f == [k \in 1 .. n |-> list[k]]
    <2>1. f \in Surjection(1 .. n, UpTo(list, n))
      BY DEF UpTo, Surjection
    <2> QED BY <1>2, <2>1, FS_Surjection
  <1> QED
    BY <1>1, <1>3, FS_Subset DEF UpTo, OnRing

\* A payment above the limit that is new in a reading, when no row left the ring since an
\* earlier one, comes with its permission.
LEMMA PermissionIsRead ==
    ASSUME NEW list, IsLedger(list), NEW old, NEW new, WasRead(old, list), WasRead(new, list),
           old \subseteq new, NEW p \in new, p \notin old, p.kind = "paid", p.amount # 1
    PROVE  \E o \in new : o.kind = "override" /\ o.nonce = p.nonce
  <1>1. PICK n \in Nat : IsReading(old, list, n)
    BY DEF WasRead
  <1>2. PICK m \in Nat : IsReading(new, list, m)
    BY DEF WasRead
  <1> DEFINE A == OnRing(old)
             B == OnRing(new)
  <1>3. /\ n \in 1 .. Len(list) /\ m \in 1 .. Len(list) /\ Len(list) \in Nat
        /\ old \subseteq UpTo(list, n) /\ new \subseteq UpTo(list, m)
        /\ IsNewest(A, OnRing(UpTo(list, n))) /\ IsNewest(B, OnRing(UpTo(list, m)))
    BY <1>1, <1>2 DEF IsReading, IsLedger
  <1>4. p.i \in 1 .. m /\ list[p.i] = p
    BY <1>3, LedgerRows
  <1>5. PICK k \in 1 .. p.i - 1 : list[k].kind = "override" /\ list[k].nonce = p.nonce
    BY <1>3, <1>4 DEF IsLedger, PermittedBefore
  <1> DEFINE o == list[k]
  <1>6. o \in OnRing(UpTo(list, m)) /\ o.i = k /\ k \in 1 .. m
    BY <1>3, <1>4, <1>5 DEF UpTo, OnRing, IsLedger
  <1>7. A \subseteq B /\ p \in B /\ p \notin A
    BY DEF OnRing
  <1>8. IsFiniteSet(B) /\ IsFiniteSet(A)
    BY <1>3, LedgerRows, FS_Subset DEF IsNewest
  \* had the ring been full, the new row would have put an old one out
  <1>9. A = OnRing(UpTo(list, n))
    <2>1. IsFiniteSet(A \union {p}) /\ Cardinality(A \union {p}) = Cardinality(A) + 1
      BY <1>7, <1>8, FS_AddElement
    <2>2. Cardinality(A \union {p}) <= Cardinality(B)
      BY <1>7, <1>8, FS_Subset
    <2>3. Cardinality(A) \in Nat /\ Cardinality(B) \in Nat /\ RingRows \in Nat
      BY <1>8, FS_CardinalityType, RecordAssumption
    <2> HIDE DEF A, B
    <2> QED BY <1>3, <2>1, <2>2, <2>3 DEF IsNewest
  <1>10. CASE k <= n
    <2>1. o \in OnRing(UpTo(list, n))
      BY <1>3, <1>5, <1>6, <1>10 DEF UpTo, OnRing
    <2>2. o \in new
      BY <1>9, <2>1 DEF OnRing
    <2> QED BY <1>5, <2>2
  <1>11. CASE k > n
    <2>1. list[1] \in OnRing(UpTo(list, n)) /\ list[1].i = 1
      BY <1>3 DEF UpTo, OnRing, IsLedger
    <2>2. list[1] \in B
      BY <1>7, <1>9, <2>1
    <2>3. o \in B
      <3>1. list[1].i <= o.i
        BY <1>6, <2>1
      <3> HIDE DEF A, B, o
      <3> QED BY <1>3, <1>6, <2>2, <3>1 DEF IsNewest
    <2> QED BY <1>5, <2>3 DEF OnRing
  <1> QED
    BY <1>3, <1>10, <1>11

-----------------------------------------------------------------------------
(* Agent records: the grade                                                *)

\* Of two readings of a rule without a payment of the rule's own between them, the later counts
\* no more payments inside the rule, no fewer requests outside and no fewer permissions.
LEMMA CountsTurnWorse ==
    ASSUME NEW old, NEW new, IsFiniteSet(new), old \subseteq new, AllowedOnce(new),
           \A row \in new \ old : row.kind = "paid" =>
               \E o \in new : o.kind = "override" /\ o.nonce = row.nonce
    PROVE  LET c == CountRule(old)
               d == CountRule(new)
           IN /\ Cardinality(c.paidInside) \in Nat /\ Cardinality(d.paidInside) \in Nat
              /\ Cardinality(d.paidInside) <= Cardinality(c.paidInside)
              /\ Cardinality(Outside(c)) \in Nat /\ Cardinality(Outside(d)) \in Nat
              /\ Cardinality(Outside(c)) <= Cardinality(Outside(d))
              /\ Cardinality(c.allowances) \in Nat /\ Cardinality(d.allowances) \in Nat
              /\ Cardinality(c.allowances) <= Cardinality(d.allowances)
  <1> DEFINE c == CountRule(old)
             d == CountRule(new)
             A == Outside(c)
             B == Outside(d)
  <1>1. /\ c.paidInside \subseteq old /\ d.paidInside \subseteq new
        /\ c.allowances \subseteq old /\ d.allowances \subseteq new
        /\ A \subseteq old /\ B \subseteq new
    BY DEF CountRule, Kind, Outside
  <1>2. IsFiniteSet(old)
    BY FS_Subset
  <1>3. d.paidInside \subseteq c.paidInside
    BY DEF CountRule, Kind, NoncesOf
  <1>4. c.allowances \subseteq d.allowances
    BY DEF CountRule, Kind
  \* what a refusal takes off the count of permissions it adds to that of refusals
  <1>5. ASSUME NEW x \in A \ B
        PROVE  /\ x.kind = "override"
               /\ \E y \in new \ old : y.kind = "refused" /\ y.nonce = x.nonce
    BY <1>5 DEF CountRule, Kind, NoncesOf, Outside
  <1> DEFINE into == [x \in A |-> IF x \in B THEN x
                                   ELSE CHOOSE y \in new \ old : y.kind = "refused" /\ y.nonce = x.nonce]
  <1>6. \A x \in A \ B : /\ into[x] \in new \ old /\ into[x].kind = "refused"
                         /\ into[x].nonce = x.nonce
    BY <1>5
  <1>7. \A x \in A \intersect B : into[x] = x
    OBVIOUS
  <1>8. into \in [A -> B]
    <2>1. \A x \in A \ B : into[x] \in B
      <3>1. \A y \in new : y.kind = "refused" => y \in B
        BY DEF CountRule, Kind, Outside
      <3> HIDE DEF B, A, into
      <3> QED BY <1>6, <3>1
    <2> QED BY <1>7, <2>1
  <1>9. \A x, y \in A : into[x] = into[y] => x = y
    <2> SUFFICES ASSUME NEW x \in A, NEW y \in A, into[x] = into[y] PROVE x = y
      OBVIOUS
    <2>1. x \in old /\ y \in old
      BY <1>1
    <2>2. CASE x \in B /\ y \in B
      BY <1>7, <2>2
    <2>3. CASE x \in B /\ y \notin B
      <3>1. into[x] = x /\ into[y] \in new \ old
        BY <1>6, <1>7, <2>3
      <3> HIDE DEF A, B, into
      <3> QED BY <2>1, <3>1
    <2>4. CASE x \notin B /\ y \in B
      <3>1. into[y] = y /\ into[x] \in new \ old
        BY <1>6, <1>7, <2>4
      <3> HIDE DEF A, B, into
      <3> QED BY <2>1, <3>1
    <2>5. CASE x \notin B /\ y \notin B
      <3>1. x.nonce = y.nonce
        BY <1>6, <2>5
      <3>2. x.kind = "override" /\ y.kind = "override"
        BY <1>5, <2>5
      <3> QED BY <2>1, <3>1, <3>2 DEF AllowedOnce, Kind
    <2> QED BY <2>2, <2>3, <2>4, <2>5
  <1>10. into \in Injection(A, B)
    <2> HIDE DEF A, B, into
    <2> QED BY <1>8, <1>9 DEF Injection, IsInjective
  <1> HIDE DEF into, A, B, c, d
  <1>11. IsFiniteSet(B)
    BY <1>1, FS_Subset
  <1>12. Cardinality(A) <= Cardinality(B) /\ IsFiniteSet(A)
    BY <1>10, <1>11, FS_Injection
  <1>13. /\ IsFiniteSet(c.paidInside) /\ IsFiniteSet(d.paidInside)
         /\ IsFiniteSet(c.allowances) /\ IsFiniteSet(d.allowances)
    BY <1>1, <1>2, FS_Subset
  <1>14. /\ Cardinality(d.paidInside) <= Cardinality(c.paidInside)
         /\ Cardinality(c.allowances) <= Cardinality(d.allowances)
    BY <1>3, <1>4, <1>13, FS_Subset
  <1> QED
    BY <1>11, <1>12, <1>13, <1>14, FS_CardinalityType DEF A, B, c, d

\* The band of a grade rises with the requests outside and the permissions, and falls with the
\* payments inside.
LEMMA BandsRise ==
    ASSUME NEW p \in Nat, NEW q \in Nat, NEW o \in Nat, NEW u \in Nat, NEW a \in Nat, NEW b \in Nat,
           q <= p, o <= u, a <= b
    PROVE  /\ StepDown(BandFor(o, p + o), a) <= StepDown(BandFor(u, q + u), b)
           /\ StepDown(BandFor(o, p + o), a) \in Int /\ StepDown(BandFor(u, q + u), b) \in Int
  <1>1. BandFor(o, p + o) <= BandFor(u, q + u) /\ BandFor(o, p + o) \in 1 .. 3 /\ BandFor(u, q + u) \in 1 .. 3
    BY DEF BandFor
  <1>2. \A n \in 1 .. 3 : Min({n + 1, 3}) = IF n = 3 THEN 3 ELSE n + 1
    BY DEF Min
  <1>3. \A n \in 1 .. 3, k \in Nat : StepDown(n, k) = IF k < 2 \/ n = 3 THEN n ELSE n + 1
    BY <1>2 DEF StepDown
  <1> QED
    BY <1>1, <1>3

\* Tallies are sums.
LEMMA TalliesAreTotals == \A count : Tally(count) = Total(count, DOMAIN count)
  BY DEF Tally, Total

\* The grade of an agent over readings that only turned worse.
LEMMA GradesTurnWorse ==
    ASSUME NEW S, IsFiniteSet(S), NEW old, NEW new, DOMAIN old = S, DOMAIN new = S,
           \A r \in S : /\ IsFiniteSet(new[r]) /\ old[r] \subseteq new[r] /\ AllowedOnce(new[r])
                        /\ \A row \in new[r] \ old[r] : row.kind = "paid" =>
                               \E o \in new[r] : o.kind = "override" /\ o.nonce = row.nonce,
           NEW t, NEW u, GradeRules(old, t).band # 0, GradeRules(new, u).band # 0
    PROVE  GradeRules(new, u).band >= GradeRules(old, t).band
  <1> DEFINE c == [r \in S |-> CountRule(old[r])]
             d == [r \in S |-> CountRule(new[r])]
             p == [r \in S |-> Cardinality(c[r].paidInside)]
             q == [r \in S |-> Cardinality(d[r].paidInside)]
             o == [r \in S |-> Cardinality(Outside(c[r]))]
             v == [r \in S |-> Cardinality(Outside(d[r]))]
             a == [r \in S |-> Cardinality(c[r].allowances)]
             b == [r \in S |-> Cardinality(d[r].allowances)]
  <1>1. \A r \in S : /\ p[r] \in Nat /\ q[r] \in Nat /\ o[r] \in Nat /\ v[r] \in Nat /\ a[r] \in Nat /\ b[r] \in Nat
                     /\ q[r] <= p[r] /\ o[r] <= v[r] /\ a[r] <= b[r]
    <2> TAKE r \in S
    <2>1. /\ c[r] = CountRule(old[r]) /\ d[r] = CountRule(new[r])
          /\ p[r] = Cardinality(c[r].paidInside) /\ q[r] = Cardinality(d[r].paidInside)
          /\ o[r] = Cardinality(Outside(c[r])) /\ v[r] = Cardinality(Outside(d[r]))
          /\ a[r] = Cardinality(c[r].allowances) /\ b[r] = Cardinality(d[r].allowances)
      OBVIOUS
    <2> HIDE DEF c, d, p, q, o, v, a, b
    <2> QED BY <2>1, CountsTurnWorse
  <1>2. DOMAIN p = S /\ DOMAIN q = S /\ DOMAIN o = S /\ DOMAIN v = S /\ DOMAIN a = S /\ DOMAIN b = S
    OBVIOUS
  <1>3. /\ GradeRules(old, t).band = 0
             \/ GradeRules(old, t).band = StepDown(BandFor(Tally(o), Tally(p) + Tally(o)), Tally(a))
        /\ GradeRules(new, u).band = 0
             \/ GradeRules(new, u).band = StepDown(BandFor(Tally(v), Tally(q) + Tally(v)), Tally(b))
    BY Zenon DEF GradeRules
  <1> HIDE DEF c, d, p, q, o, v, a, b
  <1>4. /\ Total(q, S) <= Total(p, S) /\ Total(p, S) \in Nat /\ Total(q, S) \in Nat
        /\ Total(o, S) <= Total(v, S) /\ Total(o, S) \in Nat /\ Total(v, S) \in Nat
        /\ Total(a, S) <= Total(b, S) /\ Total(a, S) \in Nat /\ Total(b, S) \in Nat
    BY <1>1, TotalMonotone
  <1>5. /\ Tally(p) = Total(p, S) /\ Tally(q) = Total(q, S) /\ Tally(o) = Total(o, S)
        /\ Tally(v) = Total(v, S) /\ Tally(a) = Total(a, S) /\ Tally(b) = Total(b, S)
    BY <1>2, TalliesAreTotals
  <1>6. /\ GradeRules(old, t).band = StepDown(BandFor(Tally(o), Tally(p) + Tally(o)), Tally(a))
        /\ GradeRules(new, u).band = StepDown(BandFor(Tally(v), Tally(q) + Tally(v)), Tally(b))
    BY <1>3
  <1>7. LET x == StepDown(BandFor(Tally(o), Tally(p) + Tally(o)), Tally(a))
            y == StepDown(BandFor(Tally(v), Tally(q) + Tally(v)), Tally(b))
        IN x <= y /\ x \in Int /\ y \in Int
    <2> DEFINE x == Total(p, S)
               y == Total(q, S)
               z == Total(o, S)
               w == Total(v, S)
               m == Total(a, S)
               n == Total(b, S)
    <2>1. /\ y <= x /\ x \in Nat /\ y \in Nat
          /\ z <= w /\ z \in Nat /\ w \in Nat
          /\ m <= n /\ m \in Nat /\ n \in Nat
      BY <1>4
    <2> HIDE DEF x, y, z, w, m, n
    <2>2. /\ StepDown(BandFor(z, x + z), m) <= StepDown(BandFor(w, y + w), n)
          /\ StepDown(BandFor(z, x + z), m) \in Int /\ StepDown(BandFor(w, y + w), n) \in Int
      BY ONLY <2>1, BandsRise
    <2>3. Tally(p) = x /\ Tally(q) = y /\ Tally(o) = z /\ Tally(v) = w /\ Tally(a) = m /\ Tally(b) = n
      BY <1>5, Zenon DEF x, y, z, w, m, n
    <2> QED BY <2>2, <2>3, Zenon
  <1> QED
    BY <1>6, <1>7

-----------------------------------------------------------------------------
(* Agent records: the invariant                                            *)

AccountRecord ==
    [spent : Nat, status : {"active", "revoked", "expired", "exhausted"}, last : Nat, override : Nat]

\* The rules: their ledgers are in order, and an override that stands was granted.
LedgersInv ==
    /\ clock \in Nat
    /\ {"rules", "jumps", "skews"} \subseteq DOMAIN can /\ can.rules \subseteq RecordRules /\ can.jumps \subseteq Nat
    /\ can.skews \subseteq Int
    /\ accounts \in [RecordRules -> AccountRecord] /\ DOMAIN ledgers = RecordRules
    /\ \A r \in RecordRules :
          /\ IsLedger(ledgers[r])
          /\ accounts[r].override # 0 =>
                \E k \in 1 .. Len(ledgers[r]) :
                    ledgers[r][k].kind = "override" /\ ledgers[r][k].nonce = accounts[r].override

\* What was loaded of the rules was read from their ledgers.
ReadRules(facts) == \A r \in DOMAIN facts : r \in RecordRules /\ WasRead(facts[r].rows, ledgers[r])

\* A load that still counts began with what is shown of the rules now, and no refresh runs.
IsLoad(load) ==
    /\ DOMAIN load = {"from", "got", "alive"}
    /\ load.alive => load.from = view /\ refresh.stage = "idle"
    /\ DOMAIN load.got \subseteq can.rules /\ ReadRules(load.got)

LoadsInv ==
    /\ (\E S : loads \in Seq(S)) /\ \A j \in DOMAIN loads : IsLoad(loads[j])
    /\ DOMAIN shown = {"from", "facts", "failed"}
    /\ DOMAIN shown.facts \in {{}, can.rules} /\ ReadRules(shown.facts)
    /\ shown.from \in Nat /\ DOMAIN view = {"at", "accounts"} /\ view.at \in Nat
    /\ shown.from <= view.at /\ view.at <= clock
    /\ DOMAIN refresh = {"now", "stage", "failed", "held"} /\ refresh.now \in Int

RecordsInv == LedgersInv /\ LoadsInv

\* The rules only write to the end of their ledgers.
Longer(new, old) ==
    Len(new) \in Nat /\ Len(new) >= Len(old) /\ \A k \in 1 .. Len(old) : new[k] = old[k]

LEMMA ReadingsStay ==
    ASSUME NEW rows, NEW old, NEW new, Len(old) \in Nat, Longer(new, old), WasRead(rows, old)
    PROVE  WasRead(rows, new)
  <1>1. PICK n \in Nat : IsReading(rows, old, n)
    BY DEF WasRead
  <1>2. n \in 1 .. Len(old) /\ n \in 1 .. Len(new)
    BY <1>1 DEF IsReading, Longer
  <1>3. UpTo(old, n) = UpTo(new, n)
    BY <1>2 DEF UpTo, Longer
  <1> QED
    BY <1>1, <1>2, <1>3 DEF WasRead, IsReading

\* One more row on a ledger.
LEMMA LedgerGrows ==
    ASSUME NEW list, IsLedger(list), NEW e \in Row, e.i = Len(list) + 1,
           e.kind = "paid" => \/ e.amount = 1
                              \/ \E m \in 1 .. Len(list) : list[m].kind = "override" /\ list[m].nonce = e.nonce
    PROVE  /\ IsLedger(Append(list, e)) /\ Longer(Append(list, e), list)
           /\ Len(Append(list, e)) = Len(list) + 1 /\ Append(list, e)[Len(list) + 1] = e
  <1> DEFINE n == Len(list)
             new == Append(list, e)
  <1>1. list \in Seq(Row) /\ n \in Nat /\ n >= 1
    BY DEF IsLedger
  <1>2. /\ new \in Seq(Row) /\ Len(new) = n + 1 /\ new[n + 1] = e
        /\ \A k \in 1 .. n : new[k] = list[k]
    BY <1>1
  <1> HIDE DEF new
  <1>3. Longer(new, list)
    BY <1>1, <1>2 DEF Longer
  <1>4. PermittedBefore(new)
    <2> SUFFICES ASSUME NEW k \in 1 .. Len(new), new[k].kind = "paid", new[k].amount # 1
                 PROVE  \E m \in 1 .. k - 1 : new[m].kind = "override" /\ new[m].nonce = new[k].nonce
      BY DEF PermittedBefore
    <2>1. CASE k \in 1 .. n
      <3>1. PICK m \in 1 .. k - 1 : list[m].kind = "override" /\ list[m].nonce = list[k].nonce
        BY <1>2, <2>1 DEF IsLedger, PermittedBefore
      <3>2. m \in 1 .. n /\ new[m] = list[m] /\ new[k] = list[k]
        BY <1>1, <1>2, <2>1
      <3> QED BY <3>1, <3>2
    <2>2. CASE k = n + 1
      <3>1. PICK m \in 1 .. n : list[m].kind = "override" /\ list[m].nonce = e.nonce
        BY <1>2, <2>2
      <3>2. m \in 1 .. k - 1
        BY <1>1, <2>2
      <3> QED BY <1>2, <2>2, <3>1, <3>2
    <2> QED BY <1>1, <1>2, <2>1, <2>2
  <1>5. \A k \in 1 .. Len(new) : new[k].i = k
    BY <1>1, <1>2 DEF IsLedger
  <1>6. new[1].kind = "opened"
    BY <1>1, <1>2 DEF IsLedger
  <1> QED
    BY <1>1, <1>2, <1>3, <1>4, <1>5, <1>6 DEF IsLedger, new

\* A step that writes one row of a rule and leaves the phone as it was: what is paid is counted as
\* spent, what is above the limit uses up the override of its nonce, and a rule that has ended stays
\* so.
WritesRow(r, e) ==
    /\ Writes(r, e) /\ e.i = Len(ledgers[r]) + 1 /\ e.ts = clock /\ e.kind # "opened"
    /\ e.kind = "paid" => \/ e.amount = 1
                          \/ e.nonce = accounts[r].override /\ e.nonce # 0
    /\ accounts' \in [RecordRules -> AccountRecord] /\ \A x \in RecordRules : x # r => accounts'[x] = accounts[x]
    /\ \/ accounts'[r].override \in {0, accounts[r].override}
       \/ e.kind = "override" /\ accounts'[r].override = e.nonce
    /\ accounts'[r].spent = IF e.kind = "paid" THEN accounts[r].spent + e.amount ELSE accounts[r].spent
    /\ accounts[r].status # "active" => accounts'[r].status # "active"
    /\ DOMAIN can' = DOMAIN can /\ can'.rules = can.rules /\ can'.jumps = can.jumps /\ can'.skews = can.skews
    /\ clock' = clock /\ UNCHANGED <<view, refresh, loads, shown>>

LEMMA RowIsWritten ==
    ASSUME RecordsInv, NEW r \in RecordRules, NEW e \in Row, WritesRow(r, e)
    PROVE  RecordsInv'
  <1>0. /\ Writes(r, e) /\ e.i = Len(ledgers[r]) + 1
        /\ e.kind = "paid" => \/ e.amount = 1
                              \/ e.nonce = accounts[r].override /\ e.nonce # 0
        /\ accounts' \in [RecordRules -> AccountRecord]
        /\ \A x \in RecordRules : x # r => accounts'[x] = accounts[x]
        /\ \/ accounts'[r].override \in {0, accounts[r].override}
           \/ e.kind = "override" /\ accounts'[r].override = e.nonce
        /\ DOMAIN can' = DOMAIN can /\ can'.rules = can.rules /\ can'.jumps = can.jumps /\ can'.skews = can.skews
        /\ clock' = clock /\ UNCHANGED <<view, refresh, loads, shown>>
    BY DEF WritesRow
  <1> DEFINE list == ledgers[r]
             new == ledgers'[r]
  <1>1. /\ new = Append(list, e) /\ DOMAIN ledgers' = RecordRules
        /\ \A x \in RecordRules : x # r => ledgers'[x] = ledgers[x]
    BY <1>0 DEF RecordsInv, LedgersInv, Writes
  <1>2. IsLedger(list)
    BY DEF RecordsInv, LedgersInv
  <1>3. accounts[r].override # 0 =>
            \E k \in 1 .. Len(list) : list[k].kind = "override" /\ list[k].nonce = accounts[r].override
    BY DEF RecordsInv, LedgersInv
  <1>4. /\ IsLedger(new) /\ Longer(new, list) /\ Len(new) = Len(list) + 1 /\ new[Len(list) + 1] = e
    <2> HIDE DEF list, new
    <2>1. e.i = Len(list) + 1
      BY <1>0 DEF list
    <2> QED BY <1>0, <1>1, <1>2, <1>3, <2>1, LedgerGrows
  <1>5. accounts'[r].override # 0 =>
            \E k \in 1 .. Len(new) : new[k].kind = "override" /\ new[k].nonce = accounts'[r].override
    <2> HIDE DEF list, new
    <2>1. Len(list) \in Nat
      BY <1>2 DEF IsLedger
    <2>2. CASE accounts'[r].override = accounts[r].override
      BY <1>3, <1>4, <2>1, <2>2 DEF Longer
    <2>3. CASE e.kind = "override" /\ accounts'[r].override = e.nonce
      <3>1. Len(list) + 1 \in 1 .. Len(new)
        BY <1>4, <2>1
      <3> QED BY <1>4, <2>3, <3>1
    <2> QED BY <1>0, <2>2, <2>3
  <1>6. LedgersInv'
    <2>1. \A x \in RecordRules : x # r => IsLedger(ledgers[x]) /\ ledgers'[x] = ledgers[x] /\ accounts'[x] = accounts[x]
      BY <1>0, <1>1 DEF RecordsInv, LedgersInv
    <2>2. \A x \in RecordRules : IsLedger(ledgers'[x])
      BY <1>4, <2>1
    <2>3. ASSUME NEW x \in RecordRules, accounts'[x].override # 0
          PROVE  \E k \in 1 .. Len(ledgers'[x]) :
                     ledgers'[x][k].kind = "override" /\ ledgers'[x][k].nonce = accounts'[x].override
      <3>1. CASE x = r
        BY <1>5, <2>3, <3>1
      <3>2. CASE x # r
        BY <2>1, <2>3, <3>2 DEF RecordsInv, LedgersInv
      <3> QED BY <3>1, <3>2
    <2> QED BY <1>0, <1>1, <2>2, <2>3 DEF RecordsInv, LedgersInv
  <1>7. ASSUME NEW facts, ReadRules(facts) PROVE ReadRules(facts)'
    <2> SUFFICES ASSUME NEW x \in DOMAIN facts PROVE x \in RecordRules /\ WasRead(facts[x].rows, ledgers'[x])
      BY DEF ReadRules
    <2>1. x \in RecordRules /\ WasRead(facts[x].rows, ledgers[x])
      BY <1>7 DEF ReadRules
    <2>2. CASE x = r
      <3>1. Len(ledgers[x]) \in Nat
        BY <1>2, <2>2 DEF IsLedger
      <3> QED BY <1>4, <2>1, <2>2, <3>1, ReadingsStay
    <2>3. CASE x # r
      BY <1>1, <2>1, <2>3
    <2> QED BY <2>1, <2>2, <2>3
  <1>8. LoadsInv'
    <2>1. \A j \in DOMAIN loads : IsLoad(loads[j])'
      BY <1>0, <1>7 DEF RecordsInv, LoadsInv, IsLoad
    <2>2. ReadRules(shown.facts)'
      BY <1>0, <1>7 DEF RecordsInv, LoadsInv
    <2> QED BY <1>0, <2>1, <2>2 DEF RecordsInv, LoadsInv
  <1> QED
    BY <1>6, <1>8 DEF RecordsInv

\* A charge: what pays more than the limit uses up the override of its nonce.
LEMMA ChargeWrites ==
    ASSUME RecordsInv, NEW r \in RecordRules, NEW nonce \in Nat \ {0}, NEW amount \in 1 .. 2,
           Charge(r, nonce, amount)
    PROVE  \E e \in Row : WritesRow(r, e)
  <1> DEFINE verdict == Verdict(r, nonce, amount)
             kind == IF verdict = "ok" THEN "paid" ELSE "refused"
             e == Entry(r, kind, nonce, amount, verdict)
  <1>1. /\ accounts \in [RecordRules -> AccountRecord] /\ accounts[r] \in AccountRecord
        /\ clock \in Nat /\ {"rules", "jumps", "skews"} \subseteq DOMAIN can /\ Len(ledgers[r]) \in Nat
    BY DEF RecordsInv, LedgersInv, IsLedger
  <1>2. /\ verdict \in Reasons
        /\ verdict = "ok" /\ amount # 1 => nonce = accounts[r].override
        /\ verdict = "ok" => accounts[r].status = "active"
    <2>1. ExpiresAt(r) \in Nat
      <3>1. ledgers[r] \in Seq(Row) /\ 1 \in 1 .. Len(ledgers[r])
        BY DEF RecordsInv, LedgersInv, IsLedger
      <3>2. ledgers[r][1] \in Row
        BY <3>1
      <3>3. ledgers[r][1].ts \in Nat
        BY <3>2 DEF Row
      <3> QED BY <3>3, RecordAssumption DEF ExpiresAt
    <2>2. PICK t : t = ExpiresAt(r)
      OBVIOUS
    <2>3. PICK a : a = accounts[r] /\ a \in AccountRecord
      BY <1>1
    <2>4. verdict = CASE a.status # "active" -> "not-active"
                      [] a.status = "active" /\ clock >= t -> "expired"
                      [] a.status = "active" /\ clock < t ->
                            IF nonce <= a.last THEN "stale"
                            ELSE IF amount > 1 /\ a.override # nonce THEN "limit"
                            ELSE IF a.spent + amount > RuleCap THEN "cap" ELSE "ok"
      BY <2>2, <2>3, Zenon DEF Verdict
    <2>5. CASE a.status # "active"
      <3>1. verdict = "not-active"
        BY <2>4, <2>5
      <3> HIDE DEF verdict
      <3> QED BY <3>1 DEF Reasons
    <2>6. CASE a.status = "active" /\ clock >= t
      <3>1. verdict = "expired"
        BY <1>1, <2>1, <2>2, <2>4, <2>6
      <3> HIDE DEF verdict
      <3> QED BY <3>1 DEF Reasons
    <2>7. CASE a.status = "active" /\ clock < t
      <3>1. verdict = IF nonce <= a.last THEN "stale"
                      ELSE IF amount > 1 /\ a.override # nonce THEN "limit"
                      ELSE IF a.spent + amount > RuleCap THEN "cap" ELSE "ok"
        BY <1>1, <2>1, <2>2, <2>4, <2>7
      <3> HIDE DEF verdict
      <3> QED BY <2>3, <2>7, <3>1 DEF Reasons
    <2> HIDE DEF verdict
    <2> QED BY <1>1, <2>1, <2>2, <2>5, <2>6, <2>7
  <1>4. e \in Row /\ e.i = Len(ledgers[r]) + 1 /\ e.kind = kind /\ e.amount = amount /\ e.nonce = nonce
        /\ e.ts = clock
    <2> HIDE DEF verdict
    <2>1. kind \in {"paid", "refused"}
      OBVIOUS
    <2> HIDE DEF kind
    <2> QED BY <1>1, <1>2, <2>1 DEF Entry, Row, RowKinds, Reasons
  <1>5. PICK a \in AccountRecord :
          /\ accounts' = [accounts EXCEPT ![r] = a] /\ a.override \in {0, accounts[r].override}
          /\ a.spent = IF verdict = "ok" THEN accounts[r].spent + amount ELSE accounts[r].spent
          /\ accounts[r].status # "active" => a.status # "active"
    <2>1. RuleCap \in Nat
      BY RecordAssumption
    <2> HIDE DEF verdict
    <2> DEFINE paid == [accounts[r] EXCEPT !.spent = @ + amount, !.last = nonce,
                                           !.override = IF @ = nonce THEN 0 ELSE @,
                                           !.status = IF accounts[r].spent + amount >= RuleCap
                                                      THEN "exhausted" ELSE @]
               a == IF verdict = "ok" THEN paid
                    ELSE IF verdict = "expired" THEN [accounts[r] EXCEPT !.status = "expired"] ELSE accounts[r]
    <2>2. paid \in AccountRecord /\ paid.override \in {0, accounts[r].override} /\ paid.spent = accounts[r].spent + amount
      <3>1. PICK b : b = accounts[r]
        OBVIOUS
      <3>2. b \in AccountRecord /\ b.spent + amount \in Nat
        BY <1>1, <3>1 DEF AccountRecord
      <3>3. PICK st : st = (IF b.spent + amount >= RuleCap THEN "exhausted" ELSE b.status)
        OBVIOUS
      <3>4. PICK ov : ov = (IF b.override = nonce THEN 0 ELSE b.override)
        OBVIOUS
      <3>5. paid = [b EXCEPT !.spent = b.spent + amount, !.last = nonce, !.override = ov, !.status = st]
        BY <3>1, <3>3, <3>4
      <3>6. st \in {"active", "revoked", "expired", "exhausted"} /\ ov \in {0, b.override}
        BY <3>2, <3>3, <3>4 DEF AccountRecord
      <3>7. paid = [spent |-> b.spent + amount, status |-> st, last |-> nonce, override |-> ov]
        <4> HIDE DEF paid
        <4> QED BY <3>2, <3>5 DEF AccountRecord
      <3> HIDE DEF paid
      <3>8. paid \in AccountRecord
        BY <3>2, <3>6, <3>7 DEF AccountRecord
      <3>9. paid.override = ov /\ paid.spent = b.spent + amount
        BY <3>7
      <3> QED BY <3>1, <3>6, <3>8, <3>9
    <2>3. /\ a \in AccountRecord /\ a.override \in {0, accounts[r].override}
          /\ a.spent = IF verdict = "ok" THEN accounts[r].spent + amount ELSE accounts[r].spent
          /\ accounts[r].status # "active" => a.status # "active"
      <3> HIDE DEF paid
      <3> QED BY <1>1, <1>2, <2>2 DEF AccountRecord
    <2>4. accounts' = [accounts EXCEPT ![r] = a]
      BY DEF Charge, verdict
    <2> HIDE DEF a
    <2> QED BY <2>3, <2>4, Zenon
  <1>6. /\ accounts' \in [RecordRules -> AccountRecord] /\ accounts'[r] = a
        /\ \A x \in RecordRules : x # r => accounts'[x] = accounts[x]
    BY <1>1, <1>5
  <1>7. DOMAIN can' = DOMAIN can /\ can'.rules = can.rules /\ can'.jumps = can.jumps /\ can'.skews = can.skews
    BY <1>1 DEF Charge
  <1>8. Writes(r, e) /\ clock' = clock /\ UNCHANGED <<view, refresh, loads, shown>>
    BY DEF Charge
  <1>9. /\ e.kind = "paid" => e.amount = 1 \/ (e.nonce = accounts[r].override /\ e.nonce # 0)
        /\ e.kind # "opened" /\ (e.kind = "paid") = (verdict = "ok")
    BY <1>2, <1>4
  <1> HIDE DEF e, kind, verdict
  <1>10. accounts'[r].spent = IF e.kind = "paid" THEN accounts[r].spent + e.amount ELSE accounts[r].spent
    BY <1>4, <1>5, <1>6, <1>9
  <1>11. WritesRow(r, e)
    BY <1>4, <1>5, <1>6, <1>7, <1>8, <1>9, <1>10 DEF WritesRow
  <1> QED
    BY <1>4, <1>11

\* The other rows of a ledger.
LEMMA OtherRowsWrite ==
    ASSUME RecordsInv, NEW r \in RecordRules, NEW nonce \in Nat,
           GrantOverride(r, nonce) \/ RevokeRule(r) \/ Decline(r)
    PROVE  \E e \in Row : WritesRow(r, e)
  <1>1. /\ accounts \in [RecordRules -> AccountRecord] /\ accounts[r] \in AccountRecord
        /\ clock \in Nat /\ {"rules", "jumps", "skews"} \subseteq DOMAIN can /\ Len(ledgers[r]) \in Nat
    BY DEF RecordsInv, LedgersInv, IsLedger
  <1>2. CASE GrantOverride(r, nonce)
    <2>1. PICK e : e = Entry(r, "override", nonce, 2, "ok")
      OBVIOUS
    <2>2. e \in Row /\ e.i = Len(ledgers[r]) + 1 /\ e.kind = "override" /\ e.nonce = nonce /\ e.ts = clock
      BY <1>1, <2>1 DEF Entry, Row, RowKinds, Reasons
    <2>3. /\ accounts' \in [RecordRules -> AccountRecord] /\ accounts'[r].override = nonce
          /\ accounts'[r].spent = accounts[r].spent /\ accounts'[r].status = accounts[r].status
          /\ \A x \in RecordRules : x # r => accounts'[x] = accounts[x]
      BY <1>1, <1>2 DEF GrantOverride, AccountRecord
    <2>4. DOMAIN can' = DOMAIN can /\ can'.rules = can.rules /\ can'.jumps = can.jumps /\ can'.skews = can.skews
      BY <1>1, <1>2 DEF GrantOverride
    <2>5. Writes(r, e) /\ clock' = clock /\ UNCHANGED <<view, refresh, loads, shown>>
      BY <1>2, <2>1 DEF GrantOverride
    <2> QED BY <2>2, <2>3, <2>4, <2>5 DEF WritesRow
  <1>3. CASE RevokeRule(r)
    <2>1. PICK e : e = Entry(r, "revoked", 0, 0, "ok")
      OBVIOUS
    <2>2. e \in Row /\ e.i = Len(ledgers[r]) + 1 /\ e.kind = "revoked" /\ e.ts = clock
      BY <1>1, <2>1 DEF Entry, Row, RowKinds, Reasons
    <2>3. /\ accounts' \in [RecordRules -> AccountRecord] /\ accounts'[r].override = 0
          /\ accounts'[r].spent = accounts[r].spent /\ accounts'[r].status = "revoked"
          /\ \A x \in RecordRules : x # r => accounts'[x] = accounts[x]
      BY <1>1, <1>3 DEF RevokeRule, AccountRecord
    <2>4. DOMAIN can' = DOMAIN can /\ can'.rules = can.rules /\ can'.jumps = can.jumps /\ can'.skews = can.skews
      BY <1>1, <1>3 DEF RevokeRule
    <2>5. Writes(r, e) /\ clock' = clock /\ UNCHANGED <<view, refresh, loads, shown>>
      BY <1>3, <2>1 DEF RevokeRule
    <2> QED BY <2>2, <2>3, <2>4, <2>5 DEF WritesRow
  <1>4. CASE Decline(r)
    <2>1. PICK e : e = Entry(r, "decline", 0, 1, "ok")
      OBVIOUS
    <2>2. e \in Row /\ e.i = Len(ledgers[r]) + 1 /\ e.kind = "decline" /\ e.ts = clock
      BY <1>1, <2>1 DEF Entry, Row, RowKinds, Reasons
    <2>3. accounts' = accounts
      BY <1>4 DEF Decline
    <2>4. DOMAIN can' = DOMAIN can /\ can'.rules = can.rules /\ can'.jumps = can.jumps /\ can'.skews = can.skews
      BY <1>1, <1>4 DEF Decline
    <2>5. Writes(r, e) /\ clock' = clock /\ UNCHANGED <<view, refresh, loads, shown>>
      BY <1>4, <2>1 DEF Decline
    <2> QED BY <1>1, <2>2, <2>3, <2>4, <2>5 DEF WritesRow
  <1> QED
    BY <1>2, <1>3, <1>4

\* What a load reads of a rule is a reading of its ledger.
LEMMA FetchedIsRead ==
    ASSUME RecordsInv, NEW r \in RecordRules, NEW unread
    PROVE  IsReading(Fetched(r, unread), ledgers[r], Len(ledgers[r])) /\ Len(ledgers[r]) \in Nat
  <1> DEFINE list == ledgers[r]
             n == Len(list)
             all == OnRing(UpTo(list, n))
  <1>1. IsLedger(list) /\ n \in Nat /\ n >= 1
    BY DEF RecordsInv, LedgersInv, IsLedger
  <1>2. RowsOf(r) = UpTo(list, n)
    BY <1>1 DEF RowsOf, UpTo, IsLedger
  <1>3. /\ IsFiniteSet(all) /\ \A x \in all : x.i \in Nat
        /\ \A x, y \in all : x.i = y.i => x = y
    <2> HIDE DEF list
    <2>1. n \in 0 .. Len(list) /\ 1 .. n \subseteq Nat
      BY <1>1
    <2> QED BY <1>1, <2>1, LedgerRows DEF OnRing
  <1>4. IsNewest(RingOf(r), all)
    <2>1. RingOf(r) = {row \in all : Cardinality({x \in all : x.i > row.i}) < RingRows}
      BY <1>2 DEF RingOf, OnRing
    <2> HIDE DEF all
    <2> QED BY <1>3, <2>1, NewestAreKept
  <1>5. OnRing(Fetched(r, unread)) = RingOf(r) /\ Fetched(r, unread) \subseteq UpTo(list, n)
    BY <1>2 DEF Fetched, MergeDecisionRows, AdvisoryRows, RingOf, OnRing
  <1> HIDE DEF list
  <1>6. IsReading(Fetched(r, unread), list, n)
    BY <1>1, <1>4, <1>5 DEF IsReading
  <1> QED
    BY <1>1, <1>6 DEF list

\* A list without one of its members.
LEMMA DropOne ==
    ASSUME NEW S, NEW s \in Seq(S), NEW j \in 1 .. Len(s)
    PROVE  LET d == SubSeq(s, 1, j - 1) \o SubSeq(s, j + 1, Len(s))
           IN d \in Seq(S) /\ \A i \in DOMAIN d : \E k \in DOMAIN s : d[i] = s[k]
  <1> DEFINE a == SubSeq(s, 1, j - 1)
             b == SubSeq(s, j + 1, Len(s))
  <1>1. /\ a \in Seq(S) /\ Len(a) = j - 1 /\ \A i \in 1 .. j - 1 : a[i] = s[i]
        /\ b \in Seq(S) /\ Len(b) = Len(s) - j /\ \A i \in 1 .. Len(s) - j : b[i] = s[i + j]
    OBVIOUS
  <1> HIDE DEF a, b
  <1>2. PICK d : d = a \o b
    OBVIOUS
  <1>3. /\ d \in Seq(S) /\ Len(d) = Len(a) + Len(b)
        /\ \A i \in 1 .. Len(a) : d[i] = a[i]
        /\ \A i \in Len(a) + 1 .. Len(a) + Len(b) : d[i] = b[i - Len(a)]
    <2>1. a \in Seq(S) /\ b \in Seq(S) /\ Len(a) \in Nat /\ Len(b) \in Nat
      BY <1>1
    <2>2. /\ d \in Seq(S) /\ Len(d) = Len(a) + Len(b)
          /\ \A i \in 1 .. Len(a) + Len(b) : d[i] = IF i <= Len(a) THEN a[i] ELSE b[i - Len(a)]
      BY <1>2, <2>1, ConcatProperties
    <2>3. PICK p, q : p = Len(a) /\ q = Len(b)
      OBVIOUS
    <2>4. \A i \in 1 .. p : i \in 1 .. p + q /\ i <= p
      BY <2>1, <2>3
    <2>5. \A i \in p + 1 .. p + q : i \in 1 .. p + q /\ ~(i <= p)
      BY <2>1, <2>3
    <2> QED BY <2>2, <2>3, <2>4, <2>5
  <1>4. ASSUME NEW i \in DOMAIN d PROVE \E k \in DOMAIN s : d[i] = s[k]
    <2>1. i \in 1 .. Len(s) - 1 /\ Len(s) \in Nat /\ DOMAIN s = 1 .. Len(s)
      BY <1>1, <1>3, <1>4
    <2>2. CASE i <= j - 1
      BY <1>1, <1>3, <2>1, <2>2
    <2>3. CASE i > j - 1
      <3>1. i - Len(a) \in 1 .. Len(s) - j /\ (i - Len(a)) + j = i + 1 /\ i + 1 \in 1 .. Len(s)
        BY <1>1, <2>1, <2>3
      <3>2. d[i] = b[i - Len(a)] /\ b[i - Len(a)] = s[(i - Len(a)) + j]
        <4>1. i \in Len(a) + 1 .. Len(a) + Len(b)
          BY <1>1, <2>1, <2>3
        <4> QED BY <1>1, <1>3, <3>1, <4>1
      <3> QED BY <2>1, <3>1, <3>2
    <2> QED BY <2>1, <2>2, <2>3
  <1> QED
    BY <1>2, <1>3, <1>4 DEF a, b

\* The loads after a new one, a read, an end or a failure.
LEMMA LoadsKeepRecords ==
    ASSUME RecordsInv,
           \/ RefreshBegins \/ RulesListed \/ RefreshEnds \/ RefreshFails
           \/ \E j \in DOMAIN loads : (\E r \in can.rules : ReadHistory(j, r)) \/ FinishLoad(j) \/ LoadFails(j)
    PROVE  /\ RecordsInv' /\ ledgers' = ledgers /\ can'.rules = can.rules
           /\ shown'.facts # <<>> => shown'.from >= shown.from
  <1>1. PICK S : loads \in Seq(S)
    BY DEF RecordsInv, LoadsInv
  <1>2. /\ DOMAIN loads = 1 .. Len(loads) /\ Len(loads) \in Nat
        /\ \A j \in DOMAIN loads : IsLoad(loads[j]) /\ loads[j] \in S
        /\ {"rules", "jumps", "skews"} \subseteq DOMAIN can /\ clock \in Nat
        /\ DOMAIN shown = {"from", "facts", "failed"} /\ shown.from \in Nat /\ view.at \in Nat
        /\ shown.from <= view.at /\ view.at <= clock
    BY <1>1 DEF RecordsInv, LoadsInv, LedgersInv
  <1>3. ASSUME UNCHANGED <<clock, accounts, ledgers>>, DOMAIN can' = DOMAIN can,
               can'.rules = can.rules, can'.jumps = can.jumps /\ can'.skews = can.skews
        PROVE  LedgersInv' /\ \A facts : ReadRules(facts) => ReadRules(facts)'
    BY <1>3 DEF RecordsInv, LedgersInv, ReadRules
  <1>4. CASE RefreshBegins
    <2>1. /\ UNCHANGED <<clock, accounts, ledgers, view, shown>> /\ DOMAIN can' = DOMAIN can
          /\ can'.rules = can.rules /\ can'.jumps = can.jumps /\ can'.skews = can.skews
      BY <1>2, <1>4 DEF RefreshBegins
    <2>2. DOMAIN refresh' = {"now", "stage", "failed", "held"} /\ refresh'.now \in Int
      <3>1. PICK skew \in can.skews :
                refresh' = [refresh EXCEPT !.now = clock + skew, !.stage = "listing", !.failed = FALSE]
        BY <1>4 DEF RefreshBegins
      <3>2. skew \in Int /\ DOMAIN refresh = {"now", "stage", "failed", "held"}
        BY DEF RecordsInv, LoadsInv, LedgersInv
      <3> QED BY <1>2, <3>1, <3>2
    <2>3. loads' = [j \in DOMAIN loads |-> [loads[j] EXCEPT !.alive = FALSE]]
      BY <1>4 DEF RefreshBegins
    <2>4. PICK T : T = {loads'[j] : j \in DOMAIN loads}
      OBVIOUS
    <2>5. loads' \in Seq(T) /\ DOMAIN loads' = DOMAIN loads
      <3>1. DOMAIN loads' = 1 .. Len(loads) /\ loads' \in [1 .. Len(loads) -> T]
        BY <1>2, <2>3, <2>4
      <3> QED BY <1>2, <3>1
    <2>6. ASSUME NEW j \in DOMAIN loads PROVE IsLoad(loads[j])'
      <3>1. IsLoad(loads[j])
        BY <1>2
      <3>2. DOMAIN loads'[j] = {"from", "got", "alive"} /\ ~loads'[j].alive /\ loads'[j].got = loads[j].got
        BY <2>3, <2>6, <3>1 DEF IsLoad
      <3> QED BY <1>3, <2>1, <3>1, <3>2 DEF IsLoad
    <2>7. LoadsInv'
      BY <1>2, <1>3, <2>1, <2>2, <2>5, <2>6 DEF RecordsInv, LoadsInv
    <2> QED BY <1>2, <1>3, <2>1, <2>7 DEF RecordsInv
  <1>9. CASE RulesListed
    <2>1. UNCHANGED <<clock, accounts, ledgers, loads, shown, can>> /\ refresh.stage # "idle"
      BY <1>9 DEF RulesListed
    <2>2. DOMAIN view' = {"at", "accounts"} /\ view'.at = clock
      BY <1>9 DEF RulesListed
    <2>3. DOMAIN refresh' = {"now", "stage", "failed", "held"} /\ refresh'.now \in Int
      BY <1>9 DEF RulesListed, RecordsInv, LoadsInv
    <2>4. ASSUME NEW j \in DOMAIN loads PROVE IsLoad(loads[j])'
      <3>1. IsLoad(loads[j]) /\ ~loads[j].alive
        BY <1>2, <2>1 DEF IsLoad
      <3> QED BY <2>1, <3>1 DEF IsLoad, ReadRules
    <2>5. LoadsInv'
      BY <1>2, <1>3, <2>1, <2>2, <2>3, <2>4 DEF RecordsInv, LoadsInv
    <2> QED BY <1>2, <1>3, <2>1, <2>5 DEF RecordsInv
  <1>10. CASE RefreshEnds \/ RefreshFails
    <2>1. /\ UNCHANGED <<clock, accounts, ledgers, view, shown>> /\ DOMAIN can' = DOMAIN can
          /\ can'.rules = can.rules /\ can'.jumps = can.jumps /\ can'.skews = can.skews
      BY <1>2, <1>10 DEF RefreshEnds, RefreshFails
    <2>2. /\ DOMAIN refresh' = {"now", "stage", "failed", "held"} /\ refresh'.now \in Int
          /\ refresh'.stage = "idle"
      BY <1>10 DEF RefreshEnds, RefreshFails, RecordsInv, LoadsInv
    <2>3. PICK l : l = [from |-> view, got |-> <<>>, alive |-> TRUE]
      OBVIOUS
    <2>4. loads' = loads \/ loads' = Append(loads, l)
      BY <1>10, <2>3 DEF RefreshEnds, RefreshFails, BeginLoad
    <2>5. ASSUME NEW load, IsLoad(load) PROVE IsLoad(load)'
      BY <1>3, <2>1, <2>2, <2>5 DEF IsLoad
    <2>6. IsLoad(l)'
      <3>1. DOMAIN l = {"from", "got", "alive"} /\ l.from = view' /\ DOMAIN l.got = {}
        BY <2>1, <2>3
      <3> QED BY <2>2, <3>1 DEF IsLoad, ReadRules
    <2>7. /\ loads' \in Seq(S \union {l})
          /\ \A j \in DOMAIN loads' : loads'[j] = l \/ \E k \in DOMAIN loads : loads'[j] = loads[k]
      <3>1. loads \in Seq(S \union {l}) /\ l \in S \union {l}
        BY <1>1
      <3>2. CASE loads' = loads
        BY <3>1, <3>2
      <3>3. CASE loads' = Append(loads, l)
        <4>1. /\ Append(loads, l) \in Seq(S \union {l}) /\ DOMAIN Append(loads, l) = 1 .. Len(loads) + 1
              /\ \A j \in 1 .. Len(loads) : Append(loads, l)[j] = loads[j]
              /\ Append(loads, l)[Len(loads) + 1] = l
          BY <1>2, <3>1
        <4>2. \A j \in 1 .. Len(loads) + 1 : j \in 1 .. Len(loads) \/ j = Len(loads) + 1
          BY <1>2
        <4> QED BY <1>2, <3>3, <4>1, <4>2
      <3> QED BY <2>4, <3>2, <3>3
    <2>8. \A j \in DOMAIN loads' : IsLoad(loads[j])'
      <3>1. ASSUME NEW j \in DOMAIN loads' PROVE IsLoad(loads[j])'
        <4>1. PICK x : x = loads'[j] /\ IsLoad(x)'
          BY <1>2, <2>5, <2>6, <2>7, <3>1
        <4> QED BY <4>1 DEF IsLoad, ReadRules
      <3> QED BY <3>1
    <2>9. LoadsInv'
      BY <1>2, <1>3, <2>1, <2>2, <2>7, <2>8 DEF RecordsInv, LoadsInv
    <2> QED BY <1>2, <1>3, <2>1, <2>9 DEF RecordsInv
  <1>5. ASSUME NEW j \in DOMAIN loads, NEW r \in can.rules, ReadHistory(j, r)
        PROVE  RecordsInv' /\ UNCHANGED <<ledgers, can, shown>>
    <2>1. UNCHANGED <<clock, accounts, ledgers, view, refresh, shown, can>>
      BY <1>5 DEF ReadHistory
    <2>2. PICK unread : LET facts == FactsOf(loads[j], r, unread)
                        IN  loads' = [loads EXCEPT ![j].got =
                                [x \in DOMAIN @ \union {r} |-> IF x = r THEN facts ELSE @[x]]]
      BY <1>5 DEF ReadHistory
    <2>3. PICK facts : facts = FactsOf(loads[j], r, unread)
      OBVIOUS
    <2>4. PICK got : got = [x \in DOMAIN loads[j].got \union {r} |-> IF x = r THEN facts ELSE loads[j].got[x]]
      OBVIOUS
    <2>5. PICK l : l = [loads[j] EXCEPT !.got = got]
      OBVIOUS
    <2>6. loads' = [loads EXCEPT ![j] = l]
      BY <2>2, <2>3, <2>4, <2>5
    <2>7. r \in RecordRules /\ WasRead(facts.rows, ledgers[r])
      <3>1. facts.rows = Fetched(r, unread)
        BY <2>3 DEF FactsOf
      <3>2. r \in RecordRules
        BY <1>5 DEF RecordsInv, LedgersInv
      <3> QED BY <3>1, <3>2, FetchedIsRead DEF WasRead
    <2>8. IsLoad(loads[j])
      BY <1>2
    <2>9. IsLoad(l)
      <3>1. /\ DOMAIN l = {"from", "got", "alive"} /\ l.from = loads[j].from /\ l.alive = loads[j].alive
            /\ l.got = got
        BY <2>5, <2>8 DEF IsLoad
      <3>2. DOMAIN got \subseteq can.rules
        BY <1>5, <2>4, <2>8 DEF IsLoad
      <3>3. ReadRules(got)
        BY <2>4, <2>7, <2>8 DEF IsLoad, ReadRules
      <3> QED BY <2>8, <3>1, <3>2, <3>3 DEF IsLoad
    <2>10. loads' \in Seq(S \union {l}) /\ DOMAIN loads' = DOMAIN loads
      BY <1>1, <1>2, <2>6
    <2>11. \A i \in DOMAIN loads : IsLoad(loads'[i])
      BY <1>2, <2>6, <2>9
    <2>12. LoadsInv'
      BY <2>1, <2>10, <2>11 DEF RecordsInv, LoadsInv, IsLoad, ReadRules
    <2> QED BY <1>3, <2>1, <2>12 DEF RecordsInv
  <1>6. ASSUME NEW j \in DOMAIN loads, loads' = Drop(j), UNCHANGED <<clock, accounts, ledgers, view, refresh>>,
               DOMAIN can' = DOMAIN can, can'.rules = can.rules, can'.jumps = can.jumps /\ can'.skews = can.skews,
               DOMAIN shown' = {"from", "facts", "failed"}, DOMAIN shown'.facts \in {{}, can.rules},
               ReadRules(shown'.facts), shown'.from \in Nat, shown'.from <= view.at
        PROVE  RecordsInv'
    <2>1. loads' \in Seq(S) /\ \A i \in DOMAIN loads' : \E k \in DOMAIN loads : loads'[i] = loads[k]
      <3>1. j \in 1 .. Len(loads)
        BY <1>2
      <3>2. LET d == SubSeq(loads, 1, j - 1) \o SubSeq(loads, j + 1, Len(loads))
            IN  d \in Seq(S) /\ \A i \in DOMAIN d : \E k \in DOMAIN loads : d[i] = loads[k]
        BY <1>1, <3>1, DropOne
      <3>3. loads' = SubSeq(loads, 1, j - 1) \o SubSeq(loads, j + 1, Len(loads))
        BY <1>6 DEF Drop
      <3> QED BY <3>2, <3>3
    <2>2. \A i \in DOMAIN loads' : IsLoad(loads'[i])
      BY <1>2, <2>1
    <2>3. LoadsInv'
      BY <1>2, <1>6, <2>1, <2>2 DEF RecordsInv, LoadsInv, IsLoad, ReadRules
    <2> QED BY <1>3, <1>6, <2>3 DEF RecordsInv
  <1>7. ASSUME NEW j \in DOMAIN loads, FinishLoad(j)
        PROVE  RecordsInv' /\ ledgers' = ledgers /\ can' = can /\ shown'.from >= shown.from
    <2>1. /\ loads' = Drop(j) /\ UNCHANGED <<clock, accounts, ledgers, view, refresh, can>>
          /\ DOMAIN loads[j].got = can.rules
      BY <1>7 DEF FinishLoad
    <2>2. IsLoad(loads[j])
      BY <1>2
    <2>3. CASE loads[j].alive
      <3>1. shown' = [from |-> view.at, facts |-> loads[j].got, failed |-> FALSE]
        BY <1>7, <2>2, <2>3 DEF FinishLoad, IsLoad
      <3>2. /\ DOMAIN shown' = {"from", "facts", "failed"} /\ shown'.facts = loads[j].got /\ shown'.from = view.at
        BY <3>1
      <3>3. ReadRules(shown'.facts)
        BY <2>2, <3>2 DEF IsLoad
      <3>4. RecordsInv'
        BY <1>2, <1>6, <2>1, <3>2, <3>3
      <3> QED BY <1>2, <2>1, <3>2, <3>4
    <2>4. CASE ~loads[j].alive
      <3>1. shown' = shown
        BY <1>7, <2>4 DEF FinishLoad
      <3>2. ReadRules(shown'.facts) /\ DOMAIN shown'.facts \in {{}, can.rules}
        BY <3>1 DEF RecordsInv, LoadsInv
      <3>3. RecordsInv'
        BY <1>2, <1>6, <2>1, <3>1, <3>2
      <3> QED BY <1>2, <2>1, <3>1, <3>3
    <2> QED BY <2>3, <2>4
  <1>8. ASSUME NEW j \in DOMAIN loads, LoadFails(j)
        PROVE  /\ RecordsInv' /\ ledgers' = ledgers /\ can'.rules = can.rules
               /\ shown'.facts # <<>> => shown'.from >= shown.from
    <2>1. /\ loads' = Drop(j) /\ UNCHANGED <<clock, accounts, ledgers, view, refresh>>
          /\ DOMAIN can' = DOMAIN can /\ can'.rules = can.rules /\ can'.jumps = can.jumps /\ can'.skews = can.skews
      BY <1>2, <1>8 DEF LoadFails
    <2>2. CASE shown' = [NothingShown EXCEPT !.failed = TRUE]
      <3>1. DOMAIN shown' = {"from", "facts", "failed"} /\ shown'.facts = <<>> /\ shown'.from = 0
        BY <2>2 DEF NothingShown
      <3>2. DOMAIN shown'.facts = {}
        BY <3>1
      <3>3. RecordsInv'
        BY <1>2, <1>6, <2>1, <3>1, <3>2 DEF ReadRules
      <3> QED BY <2>1, <3>1, <3>3
    <2>3. CASE shown' = shown
      <3>2. ReadRules(shown'.facts) /\ DOMAIN shown'.facts \in {{}, can.rules}
        BY <2>3 DEF RecordsInv, LoadsInv
      <3>3. RecordsInv'
        BY <1>2, <1>6, <2>1, <2>3, <3>2
      <3> QED BY <1>2, <2>1, <2>3, <3>3
    <2> QED BY <1>8, <2>2, <2>3 DEF LoadFails
  <1> QED
    BY <1>2, <1>4, <1>5, <1>7, <1>8, <1>9, <1>10

\* The world and the phone go on.
LEMMA RecordsStep == RecordsInv /\ [RecordsNext]_recordVars => RecordsInv'
  <1> SUFFICES ASSUME RecordsInv, [RecordsNext]_recordVars PROVE RecordsInv'
    OBVIOUS
  <1>1. /\ can.rules \subseteq RecordRules /\ accounts \in [RecordRules -> AccountRecord]
        /\ {"rules", "jumps", "skews"} \subseteq DOMAIN can /\ can.jumps \subseteq Nat /\ clock \in Nat
    BY DEF RecordsInv, LedgersInv
  <1>2. ASSUME NEW r \in can.rules, NEW nonce \in RecordNonces(r) PROVE r \in RecordRules /\ nonce \in Nat \ {0}
    <2>1. r \in RecordRules /\ accounts[r] \in AccountRecord
      BY <1>1
    <2>2. accounts[r].last \in Nat
      BY <2>1 DEF AccountRecord
    <2> QED BY <1>2, <2>1, <2>2 DEF RecordNonces
  <1>3. ASSUME NEW r \in can.rules, NEW nonce \in RecordNonces(r), NEW amount \in 1 .. 2, Charge(r, nonce, amount)
        PROVE  RecordsInv'
    BY <1>2, <1>3, ChargeWrites, RowIsWritten
  <1>4. ASSUME NEW r \in can.rules, NEW nonce \in RecordNonces(r), GrantOverride(r, nonce)
        PROVE  RecordsInv'
    <2>1. nonce \in Nat /\ r \in RecordRules
      BY <1>2
    <2> QED BY <1>4, <2>1, OtherRowsWrite, RowIsWritten
  <1>5. ASSUME NEW r \in can.rules, RevokeRule(r) \/ Decline(r) PROVE RecordsInv'
    <2>1. 0 \in Nat /\ r \in RecordRules
      BY <1>1
    <2> QED BY <1>5, <2>1, OtherRowsWrite, RowIsWritten
  <1>6. ASSUME DayGoesOn PROVE RecordsInv'
    <2>1. PICK units \in can.jumps : clock' = clock + units
      BY <1>6 DEF DayGoesOn
    <2>2. /\ clock' \in Nat /\ clock <= clock' /\ UNCHANGED <<accounts, ledgers, view, refresh, loads, shown>>
          /\ DOMAIN can' = DOMAIN can /\ can'.rules = can.rules /\ can'.jumps = can.jumps /\ can'.skews = can.skews
      BY <1>1, <1>6, <2>1 DEF DayGoesOn
    <2>3. LedgersInv'
      BY <2>2 DEF RecordsInv, LedgersInv
    <2>4. LoadsInv'
      <3>1. view.at \in Nat /\ view.at <= clock
        BY DEF RecordsInv, LoadsInv
      <3>2. view'.at <= clock'
        BY <1>1, <2>2, <3>1
      <3> QED BY <2>2, <3>2 DEF RecordsInv, LoadsInv, IsLoad, ReadRules
    <2> QED BY <2>3, <2>4 DEF RecordsInv
  <1>7. ASSUME UNCHANGED recordVars PROVE RecordsInv'
    BY <1>7 DEF recordVars, RecordsInv, LedgersInv, LoadsInv, IsLoad, ReadRules
  <1> QED
    BY <1>3, <1>4, <1>5, <1>6, <1>7, LoadsKeepRecords DEF RecordsNext

LEMMA RecordsInvInit == RecordsInit => RecordsInv
  <1> SUFFICES ASSUME RecordsInit PROVE RecordsInv
    OBVIOUS
  <1>1. /\ can.start \in Nat /\ can.rules \subseteq RecordRules /\ can.jumps \subseteq Nat
        /\ can.skews \subseteq Int /\ {"rules", "jumps", "skews"} \subseteq DOMAIN can
    BY RecordAssumption DEF RecordsInit
  <1>2. accounts \in [RecordRules -> AccountRecord] /\ \A r \in RecordRules : accounts[r].override = 0
    BY DEF RecordsInit, AccountRecord
  <1>3. ASSUME NEW r \in RecordRules PROVE IsLedger(ledgers[r])
    <2>1. PICK e : e = [i |-> 1, kind |-> "opened", ts |-> 1, nonce |-> 0, amount |-> RuleCap, reason |-> "ok"]
      OBVIOUS
    <2>2. e \in Row
      BY <2>1, RecordAssumption DEF Row, RowKinds, Reasons
    <2>3. ledgers[r] = <<e>>
      BY <2>1 DEF RecordsInit
    <2>4. ledgers[r] \in Seq(Row) /\ Len(ledgers[r]) = 1 /\ ledgers[r][1] = e
      BY <2>2, <2>3
    <2> QED BY <2>1, <2>4 DEF IsLedger, PermittedBefore
  <1>4. LedgersInv
    BY <1>1, <1>2, <1>3 DEF RecordsInit, LedgersInv
  <1>5. LoadsInv
    <2>1. loads \in Seq({}) /\ DOMAIN loads = {}
      BY DEF RecordsInit
    <2>2. /\ DOMAIN shown = {"from", "facts", "failed"} /\ shown.from = 0 /\ shown.facts = <<>>
          /\ DOMAIN view = {"at", "accounts"} /\ view.at = 0
          /\ DOMAIN refresh = {"now", "stage", "failed", "held"} /\ refresh.now = 0
      BY DEF RecordsInit, NothingShown, NoView, NotRefreshed
    <2>3. DOMAIN shown.facts = {}
      BY <2>2
    <2>4. clock \in Nat
      BY <1>1 DEF RecordsInit
    <2> QED BY <2>1, <2>2, <2>3, <2>4 DEF LoadsInv, ReadRules
  <1> QED
    BY <1>4, <1>5 DEF RecordsInv

\* Ledgers, loads and what is shown, at any time: histories were read from their ledgers at some
\* moment, and only a load of what is shown of the rules now will be shown.
THEOREM RecordsInvariant == RecordsSpec => []RecordsInv
  <1> QED
    BY RecordsInvInit, RecordsStep, PTL DEF RecordsSpec

\* A grade does not get better by readings without a payment between them.
LEMMA GradesStep ==
    ASSUME RecordsInv, RecordsInv', ledgers' = ledgers, can'.rules = can.rules,
           NEW a \in DOMAIN AgentCards \intersect DOMAIN AgentCards',
           AgentCards[a].grade.band # 0, AgentCards'[a].grade.band # 0, NothingEarned(a)
    PROVE  AgentCards'[a].grade.band >= AgentCards[a].grade.band
  <1> DEFINE S == {r \in can.rules : AgentOf[r] = a}
             old == [r \in S |-> shown.facts[r].rows]
             new == [r \in S |-> shown'.facts[r].rows]
  <1>1. Screen = "ready" /\ a \in {AgentOf[r] : r \in DOMAIN shown.facts} /\ AgentCards[a] = AgentRecord(a)
    BY DEF AgentCards
  <1>2. Screen' = "ready" /\ a \in {AgentOf[r] : r \in DOMAIN shown'.facts} /\ AgentCards'[a] = AgentRecord(a)'
    BY DEF AgentCards
  <1>3. DOMAIN shown.facts = can.rules /\ DOMAIN shown'.facts = can.rules
    BY <1>1, <1>2 DEF RecordsInv, LoadsInv
  <1>4. AgentCards[a].grade = GradeRules(old, refresh.now)
    BY <1>1, <1>3 DEF AgentRecord
  <1>5. AgentCards'[a].grade = GradeRules(new, refresh'.now)
    BY <1>2, <1>3 DEF AgentRecord
  <1>6. IsFiniteSet(S) /\ S \subseteq RecordRules
    <2>1. can.rules \subseteq RecordRules
      BY DEF RecordsInv, LedgersInv
    <2> QED BY <2>1, RecordAssumption, FS_Subset
  <1>7. ASSUME NEW r \in S
        PROVE  /\ IsFiniteSet(new[r]) /\ old[r] \subseteq new[r] /\ AllowedOnce(new[r])
               /\ \A row \in new[r] \ old[r] : row.kind = "paid" =>
                      \E o \in new[r] : o.kind = "override" /\ o.nonce = row.nonce
    <2>1. PICK x, y, list : x = shown.facts[r].rows /\ y = shown'.facts[r].rows /\ list = ledgers[r]
      OBVIOUS
    <2>2. old[r] = x /\ new[r] = y
      BY <2>1
    <2>3. r \in RecordRules /\ IsLedger(list) /\ WasRead(x, list) /\ WasRead(y, list)
      BY <1>3, <1>6, <2>1 DEF RecordsInv, LedgersInv, LoadsInv, ReadRules
    <2>4. x \subseteq y /\ AllowedOnce(y) /\ \A row \in y \ x : ~(row.kind = "paid" /\ row.amount = 1)
      BY <1>3, <2>1 DEF NothingEarned
    <2>5. IsFiniteSet(y)
      <3>1. PICK n \in Nat : IsReading(y, list, n)
        BY <2>3 DEF WasRead
      <3>2. n \in 0 .. Len(list) /\ y \subseteq UpTo(list, n)
        BY <3>1 DEF IsReading
      <3> QED BY <2>3, <3>2, LedgerRows, FS_Subset
    <2>6. \A row \in y \ x : row.kind = "paid" => \E o \in y : o.kind = "override" /\ o.nonce = row.nonce
      BY <2>3, <2>4, PermissionIsRead
    <2> QED BY <2>2, <2>4, <2>5, <2>6
  <1>8. DOMAIN old = S /\ DOMAIN new = S
    OBVIOUS
  <1> HIDE DEF S, old, new
  <1>9. GradeRules(old, refresh.now).band # 0 /\ GradeRules(new, refresh'.now).band # 0
    BY <1>4, <1>5
  <1>10. GradeRules(new, refresh'.now).band >= GradeRules(old, refresh.now).band
    BY ONLY <1>6, <1>7, <1>8, <1>9, GradesTurnWorse, ZenonT(40)
  <1> QED
    BY <1>4, <1>5, <1>10

\* For any agents, rules and rings, and loads that overlap, fail and end in any order: nothing but
\* a payment of a rule's own makes an agent's grade better from one reading to the next, and what
\* is shown never goes back to an earlier reading (gradeRules; the alive flag of useAgentHistories).
THEOREM RecordsGrowOnly == RecordsSpec => RecordsOnlyGrow
  <1> DEFINE NotBetter ==
          \/ UNCHANGED <<shown, refresh>>
          \/ \A a \in DOMAIN AgentCards \intersect DOMAIN AgentCards' :
                AgentCards[a].grade.band # 0 /\ AgentCards'[a].grade.band # 0 /\ NothingEarned(a)
                    => AgentCards'[a].grade.band >= AgentCards[a].grade.band
             Later == shown'.facts # <<>> => shown'.from >= shown.from
  <1>1. ASSUME RecordsInv, RecordsInv', RecordsNext PROVE NotBetter /\ Later
    <2>1. shown.from \in Nat
      BY <1>1 DEF RecordsInv, LoadsInv
    <2>2. CASE \/ RefreshBegins \/ RulesListed \/ RefreshEnds \/ RefreshFails
               \/ \E j \in DOMAIN loads :
                     (\E r \in can.rules : ReadHistory(j, r)) \/ FinishLoad(j) \/ LoadFails(j)
      BY <1>1, <2>2, LoadsKeepRecords, GradesStep
    <2>3. CASE UNCHANGED <<shown, refresh>>
      BY <2>1, <2>3
    <2>4. ASSUME NEW r, NEW nonce, NEW amount,
                 \/ Charge(r, nonce, amount) \/ GrantOverride(r, nonce) \/ RevokeRule(r) \/ Decline(r)
                 \/ DayGoesOn
          PROVE  UNCHANGED <<shown, refresh>>
      BY <2>4 DEF Charge, GrantOverride, RevokeRule, Decline, DayGoesOn
    <2> QED BY <1>1, <2>2, <2>3, <2>4 DEF RecordsNext
  <1>2. ASSUME RecordsInv, UNCHANGED recordVars PROVE NotBetter /\ Later
    BY <1>2 DEF recordVars, RecordsInv, LoadsInv
  <1>3. RecordsInv /\ RecordsInv' /\ [RecordsNext]_recordVars => [NotBetter]_recordVars /\ [Later]_recordVars
    BY <1>1
  <1> HIDE DEF NotBetter, Later
  <1>4. RecordsSpec => [][NotBetter]_recordVars /\ [][Later]_recordVars
    BY <1>3, RecordsInvariant, PTL DEF RecordsSpec
  <1> QED
    BY <1>4 DEF RecordsOnlyGrow, GradesAreEarned, ShownNeverGoesBack, NotBetter, Later


-----------------------------------------------------------------------------
(* Agent records: what was read, and when                                  *)

RowAmount == [row \in Row |-> row.amount]

\* What the payments among some rows come to.
PaidTotal(rows) == Total(RowAmount, Kind(rows, "paid"))

\* Rows are written in the order of time, and only the first opens the rule.
InTime(list, now) ==
    /\ list[1].ts = 1
    /\ \A k \in 1 .. Len(list) : list[k].ts \in 1 .. now /\ (list[k].kind = "opened" => k = 1)
    /\ \A j, k \in 1 .. Len(list) : j <= k => list[j].ts <= list[k].ts

WorldInTime ==
    /\ clock >= 1
    /\ \A r \in RecordRules :
          InTime(ledgers[r], clock) /\ accounts[r].spent = PaidTotal(UpTo(ledgers[r], Len(ledgers[r])))

\* What was listed of the rules: none has spent less since, or became active again.
IsListing(from) ==
    /\ from.at \in 1 .. clock
    /\ \A r \in can.rules :
          /\ from.accounts[r].spent <= accounts[r].spent
          /\ from.accounts[r].spent \in Nat
          /\ from.accounts[r].status # "active" => accounts[r].status # "active"

\* The facts of a rule are a reading of its ledger that had every row written before a time, and
\* an account that was listed no later.
IsFactsOf(facts, r, at) ==
    /\ facts.expires = ExpiresAt(r) /\ facts.spent \in Nat
    /\ facts.status # "active" => accounts[r].status # "active"
    /\ \E n \in Nat :
          /\ IsReading(facts.rows, ledgers[r], n)
          /\ facts.spent <= PaidTotal(UpTo(ledgers[r], n))
          /\ \A k \in n + 1 .. Len(ledgers[r]) : ledgers[r][k].ts >= at

FactsAreOf(got, at) == \A r \in DOMAIN got : r \in RecordRules /\ IsFactsOf(got[r], r, at)

TruthInv ==
    /\ WorldInTime
    /\ view = NoView \/ IsListing(view)
    /\ refresh.held \/ refresh.stage = "listed" => view # NoView
    /\ \A j \in DOMAIN loads : IsListing(loads[j].from) /\ FactsAreOf(loads[j].got, loads[j].from.at)
    /\ shown.from <= clock /\ FactsAreOf(shown.facts, shown.from)

\* Ledgers grow at their ends, with rows of the present, and accounts follow them.
WorldGoesOn ==
    /\ can'.rules = can.rules /\ clock' \in Nat /\ clock' >= clock
    /\ \A r \in RecordRules :
          /\ Longer(ledgers'[r], ledgers[r])
          /\ \A k \in Len(ledgers[r]) + 1 .. Len(ledgers'[r]) :
                ledgers'[r][k].ts \in Nat /\ ledgers'[r][k].ts >= clock
          /\ accounts'[r].spent \in Nat /\ accounts'[r].spent >= accounts[r].spent
          /\ accounts[r].status # "active" => accounts'[r].status # "active"

\* What was listed and read stays true as the world goes on.
LEMMA WhatWasReadStays ==
    ASSUME RecordsInv, WorldGoesOn
    PROVE  /\ \A from : IsListing(from) => IsListing(from)'
           /\ \A got, at : FactsAreOf(got, at) /\ at \in Nat /\ at <= clock => FactsAreOf(got, at)'
  <1>1. /\ clock \in Nat /\ can.rules \subseteq RecordRules
        /\ \A r \in RecordRules : accounts[r].spent \in Nat /\ Len(ledgers[r]) \in Nat /\ Len(ledgers[r]) >= 1
    <2>1. \A r \in RecordRules : accounts[r] \in AccountRecord
      BY DEF RecordsInv, LedgersInv
    <2> QED BY <2>1 DEF RecordsInv, LedgersInv, IsLedger, AccountRecord
  <1>2. ASSUME NEW from, IsListing(from) PROVE IsListing(from)'
    <2>1. from.at \in 1 .. clock'
      BY <1>1, <1>2 DEF IsListing, WorldGoesOn
    <2>2. ASSUME NEW r \in can.rules
          PROVE  /\ from.accounts[r].spent <= accounts'[r].spent
                 /\ from.accounts[r].spent \in Nat
                 /\ from.accounts[r].status # "active" => accounts'[r].status # "active"
      <3>1. r \in RecordRules
        BY <1>1
      <3> QED BY <1>1, <1>2, <3>1 DEF IsListing, WorldGoesOn
    <2>3. can'.rules = can.rules
      BY DEF WorldGoesOn
    <2> QED BY <2>1, <2>2, <2>3 DEF IsListing
  <1>3. ASSUME NEW got, NEW at \in Nat, FactsAreOf(got, at), at <= clock, NEW r \in DOMAIN got
        PROVE  r \in RecordRules /\ IsFactsOf(got[r], r, at)'
    <2>1. r \in RecordRules /\ IsFactsOf(got[r], r, at)
      BY <1>3 DEF FactsAreOf
    <2>2. PICK facts, old, new : facts = got[r] /\ old = ledgers[r] /\ new = ledgers'[r]
      OBVIOUS
    <2>3. /\ Len(old) \in Nat /\ Len(old) >= 1 /\ Longer(new, old)
          /\ \A k \in Len(old) + 1 .. Len(new) : new[k].ts \in Nat /\ new[k].ts >= clock
          /\ accounts[r].status # "active" => accounts'[r].status # "active"
      BY <1>1, <2>1, <2>2 DEF WorldGoesOn
    <2>4. PICK n \in Nat : /\ IsReading(facts.rows, old, n)
                           /\ facts.spent <= PaidTotal(UpTo(old, n))
                           /\ \A k \in n + 1 .. Len(old) : old[k].ts >= at
      BY <2>1, <2>2 DEF IsFactsOf
    <2>5. n \in 1 .. Len(old) /\ n \in 1 .. Len(new) /\ UpTo(old, n) = UpTo(new, n)
      <3>1. n \in 1 .. Len(old) /\ n \in 1 .. Len(new)
        BY <2>3, <2>4 DEF IsReading, Longer
      <3>2. \A k \in 1 .. n : old[k] = new[k]
        <4>1. \A k \in 1 .. n : k \in 1 .. Len(old)
          BY <2>3, <3>1
        <4> QED BY <2>3, <4>1 DEF Longer
      <3> QED BY <3>1, <3>2 DEF UpTo
    <2>6. IsReading(facts.rows, new, n)
      BY <2>4, <2>5 DEF IsReading
    <2>7. ASSUME NEW k \in n + 1 .. Len(new) PROVE new[k].ts >= at
      <3>1. CASE k <= Len(old)
        <4>1. k \in n + 1 .. Len(old) /\ k \in 1 .. Len(old)
          BY <2>3, <2>5, <2>7, <3>1
        <4>2. old[k].ts >= at /\ new[k] = old[k]
          BY <2>3, <2>4, <4>1 DEF Longer
        <4> QED BY <4>2
      <3>2. CASE ~(k <= Len(old))
        <4>1. k \in Len(old) + 1 .. Len(new)
          BY <2>3, <2>5, <2>7, <3>2 DEF Longer
        <4>2. new[k].ts \in Nat /\ new[k].ts >= clock
          BY <2>3, <4>1
        <4>3. at \in Nat /\ clock \in Nat /\ at <= clock
          BY <1>1, <1>3
        <4> QED BY <4>2, <4>3
      <3> QED BY <3>1, <3>2
    <2>8. ExpiresAt(r)' = ExpiresAt(r)
      BY <2>2, <2>3 DEF ExpiresAt, Longer
    <2> QED BY <2>1, <2>2, <2>3, <2>4, <2>5, <2>6, <2>7, <2>8 DEF IsFactsOf
  <1> QED
    BY <1>2, <1>3 DEF FactsAreOf

\* The phone's part of the invariant as the world goes on without it.
LEMMA TruthStays ==
    ASSUME RecordsInv, TruthInv, WorldGoesOn, WorldInTime', UNCHANGED <<view, refresh, loads, shown>>
    PROVE  TruthInv'
  <1>1. clock \in Nat /\ shown.from \in Nat /\ shown.from <= clock
    BY DEF RecordsInv, LedgersInv, LoadsInv, TruthInv
  <1>2. view' = NoView \/ IsListing(view)'
    BY WhatWasReadStays DEF TruthInv
  <1>3. ASSUME NEW j \in DOMAIN loads
        PROVE  IsListing(loads[j].from)' /\ FactsAreOf(loads[j].got, loads[j].from.at)'
    <2>1. PICK from, got : from = loads[j].from /\ got = loads[j].got
      OBVIOUS
    <2>2. IsListing(from) /\ FactsAreOf(got, from.at)
      BY <2>1 DEF TruthInv
    <2>3. from.at \in Nat /\ from.at <= clock
      BY <1>1, <2>2 DEF IsListing
    <2>4. IsListing(from)' /\ FactsAreOf(got, from.at)'
      BY <2>2, <2>3, WhatWasReadStays
    <2> QED BY <2>1, <2>4
  <1>4. FactsAreOf(shown.facts, shown.from)'
    <2>1. PICK facts, from : facts = shown.facts /\ from = shown.from
      OBVIOUS
    <2>2. FactsAreOf(facts, from)'
      BY <1>1, <2>1, WhatWasReadStays DEF TruthInv
    <2> QED BY <2>1, <2>2
  <1>5. shown'.from <= clock'
    BY <1>1 DEF WorldGoesOn
  <1> QED
    BY <1>2, <1>3, <1>4, <1>5 DEF TruthInv

\* What a ledger's payments come to when a row is added.
LEMMA PaidTotalGrows ==
    ASSUME NEW list, IsLedger(list), NEW e \in Row, e.i = Len(list) + 1, NEW new, new = Append(list, e)
    PROVE  PaidTotal(UpTo(new, Len(new))) =
               IF e.kind = "paid" THEN PaidTotal(UpTo(list, Len(list))) + e.amount
               ELSE PaidTotal(UpTo(list, Len(list)))
  <1> DEFINE n == Len(list)
             P == Kind(UpTo(list, n), "paid")
  <1>1. n \in Nat /\ list \in Seq(Row) /\ \A k \in 1 .. n : list[k].i = k /\ list[k] \in Row
    BY DEF IsLedger
  <1>2. Len(new) = n + 1 /\ new[n + 1] = e /\ \A k \in 1 .. n : new[k] = list[k]
    BY <1>1
  <1>3. UpTo(new, Len(new)) = UpTo(list, n) \union {e}
    <2>1. 1 .. n + 1 = 1 .. n \union {n + 1}
      BY <1>1
    <2> QED BY <1>2, <2>1 DEF UpTo
  <1>4. e \notin UpTo(list, n)
    BY <1>1 DEF UpTo
  <1>5. IsFiniteSet(P) /\ P \subseteq Row
    <2>1. n \in 0 .. Len(list)
      BY <1>1
    <2>2. IsFiniteSet(UpTo(list, n))
      BY <2>1, LedgerRows
    <2>3. P \subseteq UpTo(list, n) /\ UpTo(list, n) \subseteq Row
      BY <1>1 DEF UpTo, Kind
    <2> HIDE DEF P
    <2> QED BY <2>2, <2>3, FS_Subset
  <1>6. \A x \in Row : RowAmount[x] = x.amount /\ RowAmount[x] \in Int
    BY DEF RowAmount, Row
  <1>7. CASE e.kind = "paid"
    <2>1. Kind(UpTo(new, Len(new)), "paid") = P \union {e}
      BY <1>3, <1>7 DEF Kind
    <2>2. e \notin P
      BY <1>4 DEF Kind
    <2> HIDE DEF P
    <2>3. Total(RowAmount, P \union {e}) = Total(RowAmount, P) + e.amount
      BY <1>5, <1>6, <2>2, TotalAdd
    <2> QED BY <1>7, <2>1, <2>3 DEF PaidTotal, P
  <1>8. CASE e.kind # "paid"
    <2>1. Kind(UpTo(new, Len(new)), "paid") = P
      BY <1>3, <1>8 DEF Kind
    <2> QED BY <1>8, <2>1 DEF PaidTotal
  <1> QED
    BY <1>7, <1>8

\* A ledger stays in the order of time.
LEMMA InTimeGrows ==
    ASSUME NEW list, IsLedger(list), NEW now \in Nat, now >= 1, InTime(list, now),
           NEW e \in Row, e.ts = now, e.kind # "opened", NEW new, new = Append(list, e)
    PROVE  InTime(new, now)
  <1> DEFINE n == Len(list)
  <1>1. n \in Nat /\ n >= 1 /\ list \in Seq(Row) /\ \A k \in 1 .. n : list[k] \in Row
    BY DEF IsLedger
  <1>2. Len(new) = n + 1 /\ new[n + 1] = e /\ \A k \in 1 .. n : new[k] = list[k]
    BY <1>1
  <1>3. ASSUME NEW k \in 1 .. n + 1 PROVE k \in 1 .. n \/ k = n + 1
    BY <1>1
  <1>4. new[1].ts = 1
    BY <1>1, <1>2 DEF InTime
  <1>5. \A k \in 1 .. n + 1 : new[k].ts \in 1 .. now /\ (new[k].kind = "opened" => k = 1)
    BY <1>1, <1>2, <1>3 DEF InTime
  <1>6. ASSUME NEW j \in 1 .. n + 1, NEW k \in 1 .. n + 1, j <= k PROVE new[j].ts <= new[k].ts
    <2>1. CASE k \in 1 .. n
      <3>1. j \in 1 .. n
        BY <1>1, <1>6, <2>1
      <3> QED BY <1>2, <1>6, <2>1, <3>1 DEF InTime
    <2>2. CASE k = n + 1
      <3>1. new[k].ts = now /\ new[j].ts \in 1 .. now
        BY <1>2, <1>5, <2>2
      <3> QED BY <3>1
    <2> QED BY <1>3, <2>1, <2>2
  <1> QED
    BY <1>2, <1>4, <1>5, <1>6 DEF InTime

\* A step that writes a row.
LEMMA RowIsWrittenInTime ==
    ASSUME RecordsInv, TruthInv, NEW r \in RecordRules, NEW e \in Row, WritesRow(r, e)
    PROVE  TruthInv'
  <1>1. /\ clock \in Nat /\ DOMAIN ledgers = RecordRules /\ clock >= 1
        /\ \A x \in RecordRules : /\ accounts[x] \in AccountRecord /\ IsLedger(ledgers[x])
                                  /\ InTime(ledgers[x], clock)
                                  /\ accounts[x].spent = PaidTotal(UpTo(ledgers[x], Len(ledgers[x])))
    BY DEF RecordsInv, LedgersInv, TruthInv, WorldInTime
  <1>2. /\ ledgers'[r] = Append(ledgers[r], e) /\ \A x \in RecordRules : x # r => ledgers'[x] = ledgers[x]
        /\ e.i = Len(ledgers[r]) + 1 /\ e.ts = clock /\ e.kind # "opened"
    BY <1>1 DEF WritesRow, Writes
  <1>3. /\ accounts' \in [RecordRules -> AccountRecord] /\ \A x \in RecordRules : x # r => accounts'[x] = accounts[x]
        /\ accounts'[r].spent = IF e.kind = "paid" THEN accounts[r].spent + e.amount ELSE accounts[r].spent
        /\ accounts[r].status # "active" => accounts'[r].status # "active"
        /\ can'.rules = can.rules /\ clock' = clock /\ UNCHANGED <<view, refresh, loads, shown>>
    BY DEF WritesRow
  <1>4. \A x \in RecordRules : accounts[x].spent \in Nat /\ accounts'[x].spent \in Nat
    BY <1>1, <1>3 DEF AccountRecord
  <1>5. WorldInTime'
    <2>1. InTime(ledgers'[r], clock)
      BY <1>1, <1>2, InTimeGrows
    <2>2. accounts'[r].spent = PaidTotal(UpTo(ledgers'[r], Len(ledgers'[r])))
      <3>1. PICK list, new : list = ledgers[r] /\ new = ledgers'[r]
        OBVIOUS
      <3>2. IsLedger(list) /\ new = Append(list, e) /\ e.i = Len(list) + 1
        BY <1>1, <1>2, <3>1
      <3>3. PaidTotal(UpTo(new, Len(new))) =
                IF e.kind = "paid" THEN PaidTotal(UpTo(list, Len(list))) + e.amount
                ELSE PaidTotal(UpTo(list, Len(list)))
        BY <3>2, PaidTotalGrows
      <3>4. accounts[r].spent = PaidTotal(UpTo(list, Len(list)))
        BY <1>1, <3>1
      <3> QED BY <1>3, <3>1, <3>3, <3>4
    <2> QED BY <1>1, <1>2, <1>3, <2>1, <2>2 DEF WorldInTime
  <1>6. WorldGoesOn
    <2>1. ASSUME NEW x \in RecordRules
          PROVE  /\ Longer(ledgers'[x], ledgers[x])
                 /\ \A k \in Len(ledgers[x]) + 1 .. Len(ledgers'[x]) :
                        ledgers'[x][k].ts \in Nat /\ ledgers'[x][k].ts >= clock
      <3>1. PICK list, new : list = ledgers[x] /\ new = ledgers'[x]
        OBVIOUS
      <3>2. IsLedger(list) /\ list \in Seq(Row) /\ Len(list) \in Nat
        BY <1>1, <3>1 DEF IsLedger
      <3>3. CASE x = r
        <4>1. Len(new) = Len(list) + 1 /\ new[Len(list) + 1] = e /\ \A k \in 1 .. Len(list) : new[k] = list[k]
          BY <1>2, <3>1, <3>2, <3>3
        <4>2. Longer(new, list)
          BY <3>2, <4>1 DEF Longer
        <4>3. \A k \in Len(list) + 1 .. Len(new) : new[k] = e
          BY <3>2, <4>1
        <4> QED BY <1>1, <1>2, <3>1, <4>2, <4>3
      <3>4. CASE x # r
        <4>1. new = list
          BY <1>2, <3>1, <3>4
        <4>2. Longer(new, list)
          BY <3>2, <4>1 DEF Longer
        <4>3. Len(list) + 1 .. Len(new) = {}
          BY <3>2, <4>1
        <4> QED BY <3>1, <4>2, <4>3
      <3> QED BY <3>3, <3>4
    <2>2. \A x \in RecordRules : accounts'[x].spent >= accounts[x].spent
      <3>1. e.amount \in Nat
        BY DEF Row
      <3> QED BY <1>3, <1>4, <3>1
    <2>3. \A x \in RecordRules : accounts[x].status # "active" => accounts'[x].status # "active"
      BY <1>3
    <2> QED BY <1>1, <1>3, <1>4, <2>1, <2>2, <2>3 DEF WorldGoesOn
  <1> QED
    BY <1>3, <1>5, <1>6, TruthStays

\* A step of the phone.
LEMMA LoadsKeepTruth ==
    ASSUME RecordsInv, TruthInv,
           \/ RefreshBegins \/ RulesListed \/ RefreshEnds \/ RefreshFails
           \/ \E j \in DOMAIN loads : (\E r \in can.rules : ReadHistory(j, r)) \/ FinishLoad(j) \/ LoadFails(j)
    PROVE  TruthInv'
  <1>1. PICK S : loads \in Seq(S)
    BY DEF RecordsInv, LoadsInv
  <1>2. /\ DOMAIN loads = 1 .. Len(loads) /\ Len(loads) \in Nat
        /\ clock \in Nat /\ clock >= 1 /\ can.rules \subseteq RecordRules /\ {"rules", "jumps", "skews"} \subseteq DOMAIN can
        /\ \A j \in DOMAIN loads :
              /\ IsLoad(loads[j]) /\ DOMAIN loads[j] = {"from", "got", "alive"}
              /\ IsListing(loads[j].from) /\ FactsAreOf(loads[j].got, loads[j].from.at)
        /\ \A r \in RecordRules : accounts[r].spent \in Nat
    <2>1. \A r \in RecordRules : accounts[r] \in AccountRecord
      BY DEF RecordsInv, LedgersInv
    <2> QED BY <1>1, <2>1 DEF RecordsInv, LoadsInv, LedgersInv, TruthInv, WorldInTime, IsLoad, AccountRecord
  <1>3. ASSUME UNCHANGED <<clock, accounts, ledgers>>, can'.rules = can.rules
        PROVE  /\ WorldInTime' /\ \A from : IsListing(from) => IsListing(from)'
               /\ \A got, at : FactsAreOf(got, at) => FactsAreOf(got, at)'
    <2>1. WorldInTime'
      BY <1>3 DEF TruthInv, WorldInTime
    <2>2. \A from : IsListing(from) => IsListing(from)'
      BY <1>3 DEF IsListing
    <2>3. \A r : ExpiresAt(r)' = ExpiresAt(r)
      BY <1>3 DEF ExpiresAt
    <2>4. \A got, at : FactsAreOf(got, at) => FactsAreOf(got, at)'
      BY <1>3, <2>3 DEF FactsAreOf, IsFactsOf
    <2> QED BY <2>1, <2>2, <2>4
  <1>12. ASSUME UNCHANGED <<clock, accounts, ledgers, shown>>, can'.rules = can.rules
         PROVE  /\ FactsAreOf(shown.facts, shown.from)' /\ shown'.from <= clock'
                /\ view' = view => view' = NoView \/ IsListing(view)'
    <2>1. PICK facts, from : facts = shown.facts /\ from = shown.from
      OBVIOUS
    <2>2. FactsAreOf(facts, from)'
      BY <1>3, <1>12, <2>1 DEF TruthInv
    <2> QED BY <1>3, <1>12, <2>1, <2>2 DEF TruthInv
  <1>4. CASE RefreshBegins
    <2>1. UNCHANGED <<clock, accounts, ledgers, view, shown>> /\ can'.rules = can.rules
      BY <1>2, <1>4 DEF RefreshBegins
    <2>2. loads' = [j \in DOMAIN loads |-> [loads[j] EXCEPT !.alive = FALSE]]
      BY <1>4 DEF RefreshBegins
    <2>3. refresh'.held = refresh.held /\ refresh'.stage = "listing"
      <3>1. DOMAIN refresh = {"now", "stage", "failed", "held"}
        BY DEF RecordsInv, LoadsInv
      <3> QED BY <1>4, <3>1 DEF RefreshBegins
    <2>4. ASSUME NEW j \in DOMAIN loads'
          PROVE  IsListing(loads[j].from)' /\ FactsAreOf(loads[j].got, loads[j].from.at)'
      <3>1. j \in DOMAIN loads /\ loads'[j].from = loads[j].from /\ loads'[j].got = loads[j].got
        BY <1>2, <2>2, <2>4
      <3>2. PICK f, g : f = loads'[j].from /\ g = loads'[j].got
        OBVIOUS
      <3>3. IsListing(f)' /\ FactsAreOf(g, f.at)'
        BY <1>2, <1>3, <2>1, <3>1, <3>2
      <3> QED BY <3>2, <3>3
    <2> QED BY <1>3, <1>12, <2>1, <2>3, <2>4 DEF TruthInv
  <1>9. CASE RulesListed
    <2>1. UNCHANGED <<clock, accounts, ledgers, loads, shown, can>>
      BY <1>9 DEF RulesListed
    <2>2. IsListing(view') /\ view' # NoView
      <3>1. /\ view'.at = clock
            /\ \A r \in can.rules : /\ view'.accounts[r].spent = accounts[r].spent
                                    /\ view'.accounts[r].status = accounts[r].status
        BY <1>9 DEF RulesListed
      <3>2. view'.at \in 1 .. clock /\ view'.at # 0
        BY <1>2, <3>1
      <3>3. PICK v : v = view'
        OBVIOUS
      <3> QED BY <1>2, <3>1, <3>2, <3>3 DEF IsListing, NoView
    <2>3. IsListing(view)' /\ view' # NoView
      <3>1. PICK v : v = view'
        OBVIOUS
      <3>2. IsListing(v)'
        BY <1>3, <2>1, <2>2, <3>1
      <3> QED BY <2>2, <3>1, <3>2
    <2>4. ASSUME NEW j \in DOMAIN loads'
          PROVE  IsListing(loads[j].from)' /\ FactsAreOf(loads[j].got, loads[j].from.at)'
      <3>1. j \in DOMAIN loads /\ loads' = loads
        BY <2>1, <2>4
      <3>2. PICK f, g : f = loads'[j].from /\ g = loads'[j].got
        OBVIOUS
      <3>3. IsListing(f)' /\ FactsAreOf(g, f.at)'
        BY <1>2, <1>3, <2>1, <3>1, <3>2
      <3> QED BY <3>2, <3>3
    <2> QED BY <1>3, <1>12, <2>1, <2>3, <2>4 DEF TruthInv
  <1>10. CASE RefreshEnds \/ RefreshFails
    <2>1. UNCHANGED <<clock, accounts, ledgers, view, shown>> /\ can'.rules = can.rules
      BY <1>2, <1>10 DEF RefreshEnds, RefreshFails
    <2>2. PICK l : l = [from |-> view, got |-> <<>>, alive |-> TRUE]
      OBVIOUS
    <2>3. loads' = loads \/ (view # NoView /\ loads' = Append(loads, l))
      BY <1>10, <2>2 DEF RefreshEnds, RefreshFails, BeginLoad
    <2>4. refresh'.stage = "idle" /\ (refresh'.held => refresh.held \/ refresh.stage = "listed")
      <3>1. DOMAIN refresh = {"now", "stage", "failed", "held"}
        BY DEF RecordsInv, LoadsInv
      <3> QED BY <1>10, <3>1 DEF RefreshEnds, RefreshFails
    <2>5. ASSUME NEW j \in DOMAIN loads'
          PROVE  IsListing(loads[j].from)' /\ FactsAreOf(loads[j].got, loads[j].from.at)'
      <3>1. PICK f, g : f = loads'[j].from /\ g = loads'[j].got
        OBVIOUS
      <3>2. CASE loads' = loads
        BY <1>2, <1>3, <2>1, <2>5, <3>2
      <3>3. CASE view # NoView /\ loads' = Append(loads, l)
        <4>1. /\ DOMAIN loads' = 1 .. Len(loads) + 1 /\ loads'[Len(loads) + 1] = l
              /\ \A k \in 1 .. Len(loads) : loads'[k] = loads[k]
          BY <1>1, <1>2, <3>3
        <4>2. CASE j \in 1 .. Len(loads)
          <5>1. IsListing(f)' /\ FactsAreOf(g, f.at)'
            BY <1>2, <1>3, <2>1, <3>1, <4>1, <4>2
          <5> QED BY <3>1, <5>1
        <4>3. CASE j = Len(loads) + 1
          <5>1. f = view /\ DOMAIN g = {}
            BY <2>2, <3>1, <4>1, <4>3
          <5>2. IsListing(f)
            BY <3>3, <5>1 DEF TruthInv
          <5>3. IsListing(f)' /\ FactsAreOf(g, f.at)'
            BY <1>3, <2>1, <5>1, <5>2 DEF FactsAreOf
          <5> QED BY <3>1, <5>3
        <4> QED BY <1>2, <2>5, <4>1, <4>2, <4>3
      <3> QED BY <2>3, <3>2, <3>3
    <2>6. view' = NoView \/ IsListing(view)'
      BY <1>3, <2>1 DEF TruthInv
    <2> QED BY <1>3, <1>12, <2>1, <2>4, <2>5, <2>6 DEF TruthInv
  <1>5. ASSUME UNCHANGED <<clock, accounts, ledgers, view, refresh>>, can'.rules = can.rules
        PROVE  view' = NoView \/ IsListing(view)'
    BY <1>3, <1>5 DEF TruthInv
  <1>6. ASSUME NEW j \in DOMAIN loads, NEW r \in can.rules, ReadHistory(j, r)
        PROVE  TruthInv'
    <2>1. UNCHANGED <<clock, accounts, ledgers, view, refresh, shown, can>>
      BY <1>6 DEF ReadHistory
    <2>2. PICK unread : LET facts == FactsOf(loads[j], r, unread)
                        IN  loads' = [loads EXCEPT ![j].got =
                                [x \in DOMAIN @ \union {r} |-> IF x = r THEN facts ELSE @[x]]]
      BY <1>6 DEF ReadHistory
    <2>3. PICK facts, at : facts = FactsOf(loads[j], r, unread) /\ at = loads[j].from.at
      OBVIOUS
    <2>4. PICK got : got = [x \in DOMAIN loads[j].got \union {r} |-> IF x = r THEN facts ELSE loads[j].got[x]]
      OBVIOUS
    <2>5. PICK l : l = [loads[j] EXCEPT !.got = got]
      OBVIOUS
    <2>6. loads' = [loads EXCEPT ![j] = l]
      BY <2>2, <2>3, <2>4, <2>5
    <2>7. r \in RecordRules /\ IsFactsOf(facts, r, at)
      <3>1. /\ facts.rows = Fetched(r, unread) /\ facts.expires = ExpiresAt(r)
            /\ facts.spent = loads[j].from.accounts[r].spent /\ facts.status = loads[j].from.accounts[r].status
        BY <2>3 DEF FactsOf
      <3>2. r \in RecordRules /\ r \in can.rules /\ IsListing(loads[j].from)
        BY <1>2, <1>6
      <3>3. PICK list, n : list = ledgers[r] /\ n = Len(ledgers[r])
        OBVIOUS
      <3>4. IsReading(facts.rows, list, n) /\ n \in Nat
        BY <3>1, <3>2, <3>3, FetchedIsRead
      <3>5. accounts[r].spent = PaidTotal(UpTo(list, n))
        BY <3>2, <3>3 DEF TruthInv, WorldInTime
      <3>6. facts.spent <= PaidTotal(UpTo(list, n)) /\ facts.spent \in Nat
            /\ (facts.status # "active" => accounts[r].status # "active")
        BY <3>1, <3>2, <3>5 DEF IsListing
      <3>7. n + 1 .. Len(list) = {}
        BY <3>3, <3>4
      <3> QED BY <3>1, <3>2, <3>3, <3>4, <3>6, <3>7 DEF IsFactsOf
    <2>8. l.from = loads[j].from /\ l.got = got
      BY <1>2, <2>5
    <2>9. FactsAreOf(got, at)
      <3>1. FactsAreOf(loads[j].got, at)
        BY <1>2, <2>3
      <3> QED BY <2>4, <2>7, <3>1 DEF FactsAreOf
    <2>10. ASSUME NEW i \in DOMAIN loads'
           PROVE  IsListing(loads[i].from)' /\ FactsAreOf(loads[i].got, loads[i].from.at)'
      <3>1. i \in DOMAIN loads /\ (i = j => loads'[i] = l) /\ (i # j => loads'[i] = loads[i])
        BY <2>6, <2>10
      <3>2. PICK f, g : f = loads'[i].from /\ g = loads'[i].got
        OBVIOUS
      <3>3. IsListing(f) /\ FactsAreOf(g, f.at)
        BY <1>2, <2>3, <2>8, <2>9, <3>1, <3>2
      <3>4. IsListing(f)' /\ FactsAreOf(g, f.at)'
        BY <1>3, <2>1, <3>3
      <3> QED BY <3>2, <3>4
    <2>11. FactsAreOf(shown.facts, shown.from)' /\ shown'.from <= clock'
      <3>1. PICK sf, from : sf = shown.facts /\ from = shown.from
        OBVIOUS
      <3>2. FactsAreOf(sf, from)'
        BY <1>3, <2>1, <3>1 DEF TruthInv
      <3> QED BY <2>1, <3>1, <3>2 DEF TruthInv
    <2> QED BY <1>3, <1>5, <2>1, <2>10, <2>11 DEF TruthInv
  <1>7. ASSUME NEW j \in DOMAIN loads, FinishLoad(j) \/ LoadFails(j)
        PROVE  TruthInv'
    <2>1. loads' = Drop(j) /\ UNCHANGED <<clock, accounts, ledgers, view, refresh>> /\ can'.rules = can.rules
      BY <1>2, <1>7 DEF FinishLoad, LoadFails
    <2>2. \A i \in DOMAIN loads' : \E k \in DOMAIN loads : loads'[i] = loads[k]
      <3>1. j \in 1 .. Len(loads)
        BY <1>2
      <3>2. LET d == SubSeq(loads, 1, j - 1) \o SubSeq(loads, j + 1, Len(loads))
            IN  d \in Seq(S) /\ \A i \in DOMAIN d : \E k \in DOMAIN loads : d[i] = loads[k]
        BY <1>1, <3>1, DropOne
      <3>3. loads' = SubSeq(loads, 1, j - 1) \o SubSeq(loads, j + 1, Len(loads))
        BY <2>1 DEF Drop
      <3> QED BY <3>2, <3>3
    <2>3. ASSUME NEW i \in DOMAIN loads'
          PROVE  IsListing(loads[i].from)' /\ FactsAreOf(loads[i].got, loads[i].from.at)'
      <3>1. PICK f, g : f = loads'[i].from /\ g = loads'[i].got
        OBVIOUS
      <3>2. IsListing(f) /\ FactsAreOf(g, f.at)
        BY <1>2, <2>2, <2>3, <3>1
      <3>3. IsListing(f)' /\ FactsAreOf(g, f.at)'
        BY <1>3, <2>1, <3>2
      <3> QED BY <3>1, <3>3
    <2>4. PICK facts, from : facts = shown'.facts /\ from = shown'.from
      OBVIOUS
    <2>5. FactsAreOf(facts, from) /\ from <= clock
      <3>1. CASE shown' = shown
        BY <2>4, <3>1 DEF TruthInv
      <3>2. CASE shown' = [NothingShown EXCEPT !.failed = TRUE]
        <4>1. DOMAIN facts = {} /\ from = 0
          BY <2>4, <3>2 DEF NothingShown
        <4> QED BY <1>2, <4>1 DEF FactsAreOf
      <3>3. CASE shown' = [from |-> loads[j].from.at, facts |-> loads[j].got, failed |-> FALSE]
        <4>1. facts = loads[j].got /\ from = loads[j].from.at
          BY <2>4, <3>3
        <4>2. from \in 1 .. clock
          BY <1>2, <4>1 DEF IsListing
        <4> QED BY <1>2, <4>1, <4>2
      <3> QED BY <1>7, <3>1, <3>2, <3>3 DEF FinishLoad, LoadFails
    <2>6. FactsAreOf(shown.facts, shown.from)' /\ shown'.from <= clock'
      <3>1. FactsAreOf(facts, from)'
        BY <1>3, <2>1, <2>5
      <3> QED BY <2>1, <2>4, <2>5, <3>1
    <2> QED BY <1>3, <1>5, <2>1, <2>3, <2>6 DEF TruthInv
  <1> QED
    BY <1>4, <1>6, <1>7, <1>9, <1>10

LEMMA TruthStep == RecordsInv /\ TruthInv /\ [RecordsNext]_recordVars => TruthInv'
  <1> SUFFICES ASSUME RecordsInv, TruthInv, [RecordsNext]_recordVars PROVE TruthInv'
    OBVIOUS
  <1>1. /\ can.rules \subseteq RecordRules /\ accounts \in [RecordRules -> AccountRecord]
        /\ {"rules", "jumps", "skews"} \subseteq DOMAIN can /\ can.jumps \subseteq Nat /\ clock \in Nat
    BY DEF RecordsInv, LedgersInv
  <1>2. ASSUME NEW r \in can.rules, NEW nonce \in RecordNonces(r) PROVE r \in RecordRules /\ nonce \in Nat \ {0}
    <2>1. r \in RecordRules /\ accounts[r] \in AccountRecord
      BY <1>1
    <2>2. accounts[r].last \in Nat
      BY <2>1 DEF AccountRecord
    <2> QED BY <1>2, <2>1, <2>2 DEF RecordNonces
  <1>3. ASSUME NEW r \in can.rules, NEW nonce \in RecordNonces(r), NEW amount \in 1 .. 2, Charge(r, nonce, amount)
        PROVE  TruthInv'
    BY <1>2, <1>3, ChargeWrites, RowIsWrittenInTime
  <1>4. ASSUME NEW r \in can.rules, NEW nonce \in RecordNonces(r), GrantOverride(r, nonce)
        PROVE  TruthInv'
    <2>1. nonce \in Nat /\ r \in RecordRules
      BY <1>2
    <2> QED BY <1>4, <2>1, OtherRowsWrite, RowIsWrittenInTime
  <1>5. ASSUME NEW r \in can.rules, RevokeRule(r) \/ Decline(r) PROVE TruthInv'
    <2>1. 0 \in Nat /\ r \in RecordRules
      BY <1>1
    <2> QED BY <1>5, <2>1, OtherRowsWrite, RowIsWrittenInTime
  <1>6. ASSUME clock' \in Nat, clock' >= clock, can'.rules = can.rules,
               UNCHANGED <<accounts, ledgers, view, refresh, loads, shown>>
        PROVE  TruthInv'
    <2>1. ASSUME NEW r \in RecordRules
          PROVE  /\ Len(ledgers[r]) \in Nat /\ accounts[r].spent \in Nat
                 /\ InTime(ledgers[r], clock')
                 /\ accounts[r].spent = PaidTotal(UpTo(ledgers[r], Len(ledgers[r])))
      <3>1. accounts[r] \in AccountRecord
        BY <1>1
      <3>2. InTime(ledgers[r], clock)
        BY DEF TruthInv, WorldInTime
      <3>3. InTime(ledgers[r], clock')
        BY <1>1, <1>6, <3>2 DEF InTime
      <3> QED BY <3>1, <3>3 DEF RecordsInv, LedgersInv, IsLedger, TruthInv, WorldInTime, AccountRecord
    <2>2. WorldInTime'
      BY <1>1, <1>6, <2>1 DEF TruthInv, WorldInTime
    <2>3. \A r \in RecordRules : Len(ledgers[r]) + 1 .. Len(ledgers[r]) = {}
      BY <2>1
    <2>4. WorldGoesOn
      BY <1>6, <2>1, <2>3 DEF WorldGoesOn, Longer
    <2> QED BY <1>6, <2>2, <2>4, TruthStays
  <1>7. ASSUME DayGoesOn PROVE TruthInv'
    <2>1. PICK units \in can.jumps : clock' = clock + units
      BY <1>7 DEF DayGoesOn
    <2>2. /\ clock' \in Nat /\ clock' >= clock /\ UNCHANGED <<accounts, ledgers, view, refresh, loads, shown>>
          /\ can'.rules = can.rules
      BY <1>1, <1>7, <2>1 DEF DayGoesOn
    <2> QED BY <1>6, <2>2
  <1>8. ASSUME UNCHANGED recordVars PROVE TruthInv'
    BY <1>1, <1>6, <1>8 DEF recordVars
  <1> QED
    BY <1>3, <1>4, <1>5, <1>7, <1>8, LoadsKeepTruth DEF RecordsNext

LEMMA TruthInvInit == RecordsInit => TruthInv
  <1> SUFFICES ASSUME RecordsInit PROVE TruthInv
    OBVIOUS
  <1>1. clock \in Nat \ {0}
    <2>1. can.start \in Nat \ {0}
      BY RecordAssumption DEF RecordsInit
    <2> QED BY <2>1 DEF RecordsInit
  <1>2. ASSUME NEW r \in RecordRules
        PROVE  InTime(ledgers[r], clock) /\ accounts[r].spent = PaidTotal(UpTo(ledgers[r], Len(ledgers[r])))
    <2>1. PICK e : e = [i |-> 1, kind |-> "opened", ts |-> 1, nonce |-> 0, amount |-> RuleCap, reason |-> "ok"]
      OBVIOUS
    <2>2. ledgers[r] = <<e>> /\ accounts[r].spent = 0
      BY <2>1 DEF RecordsInit
    <2>3. Len(ledgers[r]) = 1 /\ ledgers[r][1] = e /\ \A k \in 1 .. 1 : k = 1
      BY <2>2
    <2>4. InTime(ledgers[r], clock)
      BY <1>1, <2>1, <2>3 DEF InTime
    <2>5. Kind(UpTo(ledgers[r], Len(ledgers[r])), "paid") = {}
      BY <2>1, <2>3 DEF Kind, UpTo
    <2> QED BY <2>2, <2>4, <2>5, TotalEmpty DEF PaidTotal
  <1>3. DOMAIN shown.facts = {} /\ shown.from = 0 /\ view = NoView /\ DOMAIN loads = {}
        /\ ~refresh.held /\ refresh.stage = "idle"
    BY DEF RecordsInit, NothingShown, NotRefreshed
  <1> QED
    BY <1>1, <1>2, <1>3 DEF TruthInv, WorldInTime, FactsAreOf

\* What is shown of a rule, at any time: its account as it was listed, and its ledger as it was no
\* earlier than that.
THEOREM TruthInvariant == RecordsSpec => [](RecordsInv /\ TruthInv)
  <1> QED
    BY RecordsInvInit, RecordsStep, TruthInvInit, TruthStep, PTL DEF RecordsSpec

-----------------------------------------------------------------------------
(* Agent records: plaques, weeks and cards                                 *)

\* A reading that has every row up to its newest lacks only notes of those there were.
LEMMA WholeReading ==
    ASSUME NEW list, IsLedger(list), NEW n, NEW rows, IsReading(rows, list, n),
           \A i \in DOMAIN list : list[i] \in rows \/ \A row \in rows : row.i < i
    PROVE  \A k \in 1 .. n : list[k].kind # "decline" => list[k] \in rows
  <1> SUFFICES ASSUME NEW k \in 1 .. n, list[k].kind # "decline", list[k] \notin rows PROVE FALSE
    OBVIOUS
  <1>1. /\ list \in Seq(Row) /\ Len(list) \in Nat /\ \A i \in 1 .. Len(list) : list[i].i = i
        /\ n \in 1 .. Len(list)
    BY DEF IsLedger, IsReading
  <1>2. k \in DOMAIN list /\ list[k].i = k
    BY <1>1
  <1>3. PICK ring, all : ring = OnRing(rows) /\ all = OnRing(UpTo(list, n))
    OBVIOUS
  <1>4. list[k] \in all /\ list[k] \notin ring
    BY <1>3 DEF OnRing, UpTo
  <1>5. IsNewest(ring, all)
    BY <1>3 DEF IsReading
  <1>6. ring # {}
    <2>1. Cardinality(ring) = RingRows
      BY <1>4, <1>5 DEF IsNewest
    <2> QED BY <2>1, FS_EmptySet, RecordAssumption
  <1>7. PICK x \in ring : TRUE
    BY <1>6
  <1>8. x.i < k /\ x.i \in Nat
    <2>1. x \in rows
      BY <1>3, <1>7 DEF OnRing
    <2>2. PICK i \in 1 .. n : x = list[i]
      BY <2>1 DEF IsReading, UpTo
    <2> QED BY <1>1, <1>2, <2>1, <2>2
  <1>9. x.i <= list[k].i
    BY <1>1, <1>2, <1>8
  <1> QED
    BY <1>4, <1>5, <1>7, <1>9 DEF IsNewest

\* The sum over one.
LEMMA TotalOne == ASSUME NEW f, NEW x, f[x] \in Int PROVE Total(f, {x}) = f[x]
  <1>1. IsFiniteSet({x}) /\ {x} \ {x} = {}
    BY FS_Singleton
  <1>2. Total(f, {x}) = f[x] + Total(f, {x} \ {x})
    BY <1>1, TotalRemove
  <1> QED
    BY <1>1, <1>2, TotalEmpty

\* What rows say was spent, added up.
LEMMA RowAmountsAreTotal ==
    ASSUME NEW S, IsFiniteSet(S), S \subseteq Row
    PROVE  MapThenSumSet(LAMBDA row : row.amount, S) = Total(RowAmount, S)
  <1> DEFINE f == [x \in S |-> x.amount]
             body(g) == [s \in SUBSET S |->
                            IF s = {} THEN 0 ELSE (Picked(s)).amount + g[s \ {Picked(s)}]]
  <1>1. ASSUME NEW g PROVE TotalsOver(f, S, g) = body(g)
    BY DEF TotalsOver, Picked
  <1>2. Totals(f, S) = CHOOSE g : g = body(g)
    BY <1>1 DEF Totals, Solves
  <1>3. MapThenSumSet(LAMBDA x : x.amount, S) = (CHOOSE g : g = body(g))[S]
    BY DEF MapThenSumSet, MapThenFoldSet, Picked
  <1>4. Total(f, S) = Totals(f, S)[S]
    BY DEF Total, MapThenSumSet, MapThenFoldSet, Totals, Solves, TotalsOver, Picked
  <1>5. \A x \in S : f[x] = RowAmount[x]
    BY DEF RowAmount
  <1> HIDE DEF f
  <1>6. Total(f, S) = Total(RowAmount, S)
    BY <1>5, TotalSame
  <1> QED
    BY <1>2, <1>3, <1>4, <1>6

\* What is shown of a rule, row by row.
LEMMA ShownReading ==
    ASSUME RecordsInv, TruthInv, Screen = "ready", NEW r \in DOMAIN shown.facts
    PROVE  /\ r \in RecordRules /\ clock \in Nat /\ view.at \in 1 .. clock /\ refresh.now \in Int
           /\ IsLedger(ledgers[r]) /\ InTime(ledgers[r], clock)
           /\ IsFactsOf(shown.facts[r], r, shown.from)
           /\ IsFiniteSet(shown.facts[r].rows) /\ shown.facts[r].rows \subseteq Row
           /\ \A row \in shown.facts[r].rows :
                  /\ row.i \in 1 .. Len(ledgers[r]) /\ row = ledgers[r][row.i] /\ row.ts \in 1 .. clock
                  /\ row.kind = "opened" => row.ts = 1
  <1>1. r \in RecordRules /\ IsFactsOf(shown.facts[r], r, shown.from)
    BY DEF TruthInv, FactsAreOf
  <1>2. IsLedger(ledgers[r]) /\ InTime(ledgers[r], clock) /\ clock \in Nat
    BY <1>1 DEF RecordsInv, LedgersInv, TruthInv, WorldInTime
  <1>3. view.at \in 1 .. clock
    <2>1. view # NoView
      BY DEF Screen, TruthInv
    <2> QED BY <2>1 DEF TruthInv, IsListing
  <1>9. refresh.now \in Int
    BY DEF RecordsInv, LoadsInv
  <1>4. PICK list, rows : list = ledgers[r] /\ rows = shown.facts[r].rows
    OBVIOUS
  <1>5. PICK n \in Nat : IsReading(rows, list, n)
    BY <1>1, <1>4 DEF IsFactsOf
  <1>6. n \in 0 .. Len(list) /\ n \in 1 .. Len(list) /\ rows \subseteq UpTo(list, n) /\ Len(list) \in Nat
    BY <1>2, <1>4, <1>5 DEF IsReading, IsLedger
  <1>7. IsFiniteSet(rows)
    BY <1>2, <1>4, <1>6, LedgerRows, FS_Subset
  <1>8. ASSUME NEW row \in rows
        PROVE  /\ row.i \in 1 .. Len(list) /\ row = list[row.i] /\ row.ts \in 1 .. clock /\ row \in Row
               /\ row.kind = "opened" => row.ts = 1
    <2>1. PICK k \in 1 .. n : row = list[k]
      BY <1>6 DEF UpTo
    <2>2. k \in 1 .. Len(list)
      BY <1>6, <2>1
    <2>3. list[k].i = k /\ list[k] \in Row
      BY <1>2, <1>4, <2>2 DEF IsLedger
    <2>4. list[k].ts \in 1 .. clock /\ (list[k].kind = "opened" => k = 1) /\ list[1].ts = 1
      BY <1>2, <1>4, <2>2 DEF InTime
    <2> QED BY <2>1, <2>2, <2>3, <2>4
  <1> QED
    BY <1>1, <1>2, <1>3, <1>4, <1>7, <1>8, <1>9

\* A later time is not on an earlier day.
LEMMA DatesRise ==
    ASSUME NEW t \in Nat, NEW u \in Nat, t <= u
    PROVE  LocalDate(t) \in Int /\ LocalDate(u) \in Int /\ LocalDate(t) <= LocalDate(u)
  <1> DEFINE b == DayLen
             x == t + DayLen - Offset
             y == u + DayLen - Offset
             h == LocalDate(t)
             k == LocalDate(u)
  <1>1. b \in Nat /\ b > 0 /\ Offset \in Int
    BY RecordAssumption
  <1>2. x \in Int /\ y \in Int /\ x <= y
    BY <1>1
  <1>3. h = x \div b /\ k = y \div b
    BY DEF LocalDate
  <1> HIDE DEF b, x, y, h, k
  <1>4. /\ h \in Int /\ k \in Int
        /\ x = b * h + (x % b) /\ (x % b) \in 0 .. b - 1
        /\ y = b * k + (y % b) /\ (y % b) \in 0 .. b - 1
    BY <1>1, <1>2, <1>3
  <1>5. ASSUME h > k PROVE FALSE
    <2>1. h >= k + 1
      BY <1>4, <1>5
    <2>2. b * h >= b * (k + 1)
      BY <1>1, <1>4, <2>1
    <2>3. b * (k + 1) = b * k + b
      BY <1>1, <1>4
    <2>4. b * h \in Int /\ b * k \in Int
      BY <1>1, <1>4
    <2> QED BY <1>1, <1>2, <1>4, <2>2, <2>3, <2>4
  <1> QED
    BY <1>4, <1>5 DEF h, k

\* A reading that has the opening of its rule says when it was.
LEMMA OpenedAtFirst ==
    ASSUME NEW rows, IsFiniteSet(rows), \A row \in rows : row.kind = "opened" => row.ts = 1
    PROVE  OpenedAtOf(rows) \in {0, 1}
  <1> DEFINE opened == Kind(rows, "opened")
             S == {row.ts : row \in opened}
  <1>1. CASE opened = {}
    BY <1>1 DEF OpenedAtOf
  <1>2. CASE opened # {}
    <2>1. S = {1}
      BY <1>2 DEF Kind
    <2>2. Min({1}) \in {1}
      <3>1. IsFiniteSet({1})
        BY FS_Singleton
      <3>2. {1} \subseteq Int /\ {1} # {}
        OBVIOUS
      <3> QED BY <3>1, <3>2, LeastOfSet
    <2> QED BY <1>2, <2>1, <2>2 DEF OpenedAtOf
  <1> QED
    BY <1>1, <1>2

\* Of the weeks that a day is counted in there is one.
LEMMA WeekOfADay ==
    ASSUME NEW d \in Int, NEW d0 \in Int, d0 <= d, NEW w \in Int
    PROVE  d \in {d0 + (w - 1) * 7 + i : i \in 0 .. 6} <=> w = (d - d0) \div 7 + 1
  <1> DEFINE x == d - d0
             q == x \div 7
  <1>1. x \in Nat /\ q \in Int /\ x = 7 * q + (x % 7) /\ (x % 7) \in 0 .. 6
    OBVIOUS
  <1> HIDE DEF q
  <1>2. ASSUME w = q + 1 PROVE d \in {d0 + (w - 1) * 7 + i : i \in 0 .. 6}
    <2>1. d = d0 + (w - 1) * 7 + (x % 7)
      BY <1>1, <1>2
    <2> QED BY <1>1, <2>1
  <1>3. ASSUME NEW i \in 0 .. 6, d = d0 + (w - 1) * 7 + i PROVE w = q + 1
    BY <1>1, <1>3
  <1> QED
    BY <1>2, <1>3 DEF q

\* The review of the week a request was made in counts it, the review of no other week does.
LEMMA WeeksCount == RecordsInv /\ TruthInv => WeeksCountEachOnce
  <1> SUFFICES ASSUME RecordsInv, TruthInv, Screen = "ready", NEW r \in DOMAIN shown.facts,
                      OpenedAtOf(shown.facts[r].rows) # 0,
                      NEW row \in CountRule(shown.facts[r].rows).paidInside
                                    \union CountRule(shown.facts[r].rows).refused
               PROVE  LET h == shown.facts[r]
                          weeks == 1 .. CurrentWeek(h, clock)
                      IN  /\ row \in WeekReviewFor(h, row.ts, CurrentWeek(h, row.ts))
                          /\ Cardinality({w \in weeks : row \in WeekReviewFor(h, clock, w)}) = 1
                          /\ row \in ShownWeek(r) <=> CurrentWeek(h, row.ts) = CurrentWeek(h, refresh.now)
    BY DEF WeeksCountEachOnce
  <1>1. PICK h : h = shown.facts[r]
    OBVIOUS
  <1>2. /\ clock \in Nat /\ refresh.now \in Int /\ IsFiniteSet(h.rows)
        /\ \A x \in h.rows : x.ts \in 1 .. clock /\ (x.kind = "opened" => x.ts = 1)
    BY <1>1, ShownReading
  <1>3. row \in h.rows
    BY <1>1 DEF CountRule, Kind
  <1>4. OpenedAtOf(h.rows) = 1
    BY <1>1, <1>2, OpenedAtFirst
  <1> DEFINE d0 == LocalDate(1)
             d == LocalDate(row.ts)
             Week(t) == (LocalDate(t) - d0) \div 7 + 1
  <1>5. row.ts \in Nat /\ row.ts >= 1 /\ row.ts <= clock
    BY <1>2, <1>3
  <1>6. \A t \in Nat : t >= 1 => LocalDate(t) \in Int /\ d0 \in Int /\ d0 <= LocalDate(t)
    BY DatesRise
  <1>7. ASSUME NEW t \in Nat, t >= 1 PROVE CurrentWeek(h, t) = Week(t) /\ Week(t) \in Int /\ Week(t) >= 1
    <2>1. LocalDate(t) \in Int /\ d0 \in Int /\ d0 <= LocalDate(t)
      BY <1>6, <1>7
    <2>2. PICK dt, x : dt = LocalDate(t) /\ x = d0
      OBVIOUS
    <2>3. ~(dt - x < 0) /\ (dt - x) \div 7 + 1 \in Int /\ (dt - x) \div 7 + 1 >= 1
      BY <2>1, <2>2
    <2> QED BY <1>4, <2>2, <2>3 DEF CurrentWeek
  <1>8. ASSUME NEW at, NEW w \in Int PROVE row \in WeekReviewFor(h, at, w) <=> w = Week(row.ts)
    <2>1. WeekWindow(h, at, w) = {d0 + (w - 1) * 7 + i : i \in 0 .. 6}
      BY <1>4 DEF WeekWindow
    <2>2. row \in WeekReviewFor(h, at, w) <=> d \in WeekWindow(h, at, w)
      BY <1>1 DEF WeekReviewFor
    <2>3. d \in Int /\ d0 \in Int /\ d0 <= d
      BY <1>5, <1>6
    <2> HIDE DEF d, d0
    <2>4. d \in {d0 + (w - 1) * 7 + i : i \in 0 .. 6} <=> w = (d - d0) \div 7 + 1
      BY <2>3, WeekOfADay
    <2> QED BY <2>1, <2>2, <2>4 DEF d
  <1> HIDE DEF Week
  <1>9. Week(row.ts) \in 1 .. Week(clock)
    <2>1. PICK a, b, c : a = LocalDate(row.ts) /\ b = LocalDate(clock) /\ c = d0
      OBVIOUS
    <2>2. a \in Int /\ b \in Int /\ c \in Int /\ c <= a /\ a <= b
      BY <1>2, <1>5, <1>6, <2>1, DatesRise
    <2>3. (a - c) \div 7 <= (b - c) \div 7 /\ (a - c) \div 7 \in Nat /\ (b - c) \div 7 \in Nat
      BY <2>2
    <2> QED BY <2>1, <2>3 DEF Week
  <1>10. Cardinality({w \in 1 .. CurrentWeek(h, clock) : row \in WeekReviewFor(h, clock, w)}) = 1
    <2>1. CurrentWeek(h, clock) = Week(clock) /\ Week(clock) \in Int
      BY <1>2, <1>5, <1>7
    <2>2. {w \in 1 .. CurrentWeek(h, clock) : row \in WeekReviewFor(h, clock, w)} = {Week(row.ts)}
      BY <1>8, <1>9, <2>1
    <2> QED BY <2>2, FS_Singleton
  <1>11. row \in WeekReviewFor(h, row.ts, CurrentWeek(h, row.ts))
    BY <1>5, <1>7, <1>8
  <1>12. row \in ShownWeek(r) <=> CurrentWeek(h, row.ts) = CurrentWeek(h, refresh.now)
    <2>1. CurrentWeek(h, refresh.now) \in Int
      <3>1. PICK dt, x : dt = LocalDate(refresh.now) /\ x = LocalDate(1)
        OBVIOUS
      <3>2. dt \in Int /\ x \in Int
        BY <1>2, <3>1, RecordAssumption DEF LocalDate
      <3> QED BY <1>4, <3>1, <3>2 DEF CurrentWeek
    <2>2. ShownWeek(r) = WeekReviewFor(h, refresh.now, CurrentWeek(h, refresh.now))
      BY <1>1 DEF ShownWeek
    <2> QED BY <1>5, <1>7, <1>8, <2>1, <2>2
  <1> QED
    BY <1>1, <1>10, <1>11, <1>12

\* What a grade counts over the history of one rule.
LEMMA GradeOfOne ==
    ASSUME NEW r, NEW rows, IsFiniteSet(rows), NEW hs, hs = [x \in {r} |-> rows], NEW at
    PROVE  LET c == CountRule(rows)
               grade == GradeRules(hs, at)
           IN  /\ grade.paid = Cardinality(c.paidInside)
               /\ grade.outside = Cardinality(Outside(c))
               /\ grade.allowances = Cardinality(c.allowances)
  <1> DEFINE c == [x \in DOMAIN hs |-> CountRule(hs[x])]
             p == [x \in DOMAIN hs |-> Cardinality(c[x].paidInside)]
             o == [x \in DOMAIN hs |-> Cardinality(Outside(c[x]))]
             l == [x \in DOMAIN hs |-> Cardinality(c[x].allowances)]
  <1>1. /\ GradeRules(hs, at).paid = Tally(p) /\ GradeRules(hs, at).outside = Tally(o)
        /\ GradeRules(hs, at).allowances = Tally(l)
    BY DEF GradeRules
  <1>2. /\ DOMAIN p = {r} /\ DOMAIN o = {r} /\ DOMAIN l = {r}
        /\ p[r] = Cardinality(CountRule(rows).paidInside) /\ o[r] = Cardinality(Outside(CountRule(rows)))
        /\ l[r] = Cardinality(CountRule(rows).allowances)
    OBVIOUS
  <1>3. /\ Cardinality(CountRule(rows).paidInside) \in Int /\ Cardinality(Outside(CountRule(rows))) \in Int
        /\ Cardinality(CountRule(rows).allowances) \in Int
    <2>1. /\ CountRule(rows).paidInside \subseteq rows /\ Outside(CountRule(rows)) \subseteq rows
          /\ CountRule(rows).allowances \subseteq rows
      BY DEF CountRule, Outside, Kind
    <2>2. \A T : T \subseteq rows => Cardinality(T) \in Int
      BY FS_Subset, FS_CardinalityType
    <2> QED BY <2>1, <2>2
  <1> HIDE DEF p, o, l
  <1>4. Tally(p) = p[r] /\ Tally(o) = o[r] /\ Tally(l) = l[r]
    BY <1>2, <1>3, TalliesAreTotals, TotalOne
  <1> QED
    BY <1>1, <1>2, <1>4

\* The reasons given for refusals are as many as the refusals.
LEMMA ReasonsAddUp ==
    ASSUME NEW rows, IsFiniteSet(rows)
    PROVE  MapThenSumSet(LAMBDA reason : ReasonTallies(rows)[reason], DOMAIN ReasonTallies(rows))
               = Cardinality(Kind(rows, "refused"))
  <1> DEFINE F == Kind(rows, "refused")
             T == {row.reason : row \in F}
             g == [reason \in T |-> Cardinality({row \in F : row.reason = reason})]
             one == [row \in F |-> 1]
             p == [row \in F |-> row.reason]
  <1>1. IsFiniteSet(F) /\ IsFiniteSet(T)
    <2>1. F \subseteq rows
      BY DEF Kind
    <2>2. IsFiniteSet(F)
      BY <2>1, FS_Subset
    <2>3. p \in Surjection(F, T)
      BY DEF Surjection
    <2> HIDE DEF F, T, p
    <2> QED BY <2>2, <2>3, FS_Surjection
  <1>2. ReasonTallies(rows) = g /\ DOMAIN g = T
    BY DEF ReasonTallies
  <1>3. MapThenSumSet(LAMBDA reason : ReasonTallies(rows)[reason], DOMAIN ReasonTallies(rows)) = Total(g, T)
    <2>1. MapThenSumSet(LAMBDA reason : ReasonTallies(rows)[reason], DOMAIN ReasonTallies(rows))
            = Total(ReasonTallies(rows), DOMAIN ReasonTallies(rows))
      BY DEF Total
    <2> HIDE DEF g, T
    <2> QED BY <1>2, <2>1
  <1> HIDE DEF F
  <1>4. ASSUME NEW S, S \subseteq F PROVE Total(one, S) = Cardinality(S) /\ Cardinality(S) \in Nat
    <2>1. IsFiniteSet(S) /\ \A x \in S : one[x] = 1
      BY <1>1, <1>4, FS_Subset
    <2> HIDE DEF one
    <2>2. Total(one, S) = 1 * Cardinality(S) /\ Cardinality(S) \in Nat
      BY <2>1, TotalConstant, FS_CardinalityType
    <2> QED BY <2>2
  <1>5. \A t \in T : g[t] \in Nat /\ Total(one, {x \in F : p[x] = t}) = g[t]
    <2> SUFFICES ASSUME NEW t \in T PROVE g[t] \in Nat /\ Total(one, {x \in F : p[x] = t}) = g[t]
      OBVIOUS
    <2>1. {x \in F : p[x] = t} = {row \in F : row.reason = t}
      OBVIOUS
    <2>2. g[t] = Cardinality({row \in F : row.reason = t})
      OBVIOUS
    <2>3. {row \in F : row.reason = t} \subseteq F
      OBVIOUS
    <2> HIDE DEF g, T, p, one
    <2> QED BY <1>4, <2>1, <2>2, <2>3
  <1>6. \A x \in F : one[x] \in Nat /\ p[x] \in T
    OBVIOUS
  <1> HIDE DEF g, T, p, one
  <1>7. Total(one, F) <= Total(g, T) /\ Total(g, T) <= Total(one, F)
    <2>1. \A t \in T : g[t] \in Nat
      BY <1>5
    <2>2. \A t \in T : Total(one, {x \in F : p[x] = t}) <= g[t]
      BY <1>5
    <2>3. \A t \in T : g[t] <= Total(one, {x \in F : p[x] = t})
      BY <1>5
    <2>4. Total(one, F) <= Total(g, T)
      BY <1>1, <1>6, <2>1, <2>2, TotalGrouped
    <2>5. Total(g, T) <= Total(one, F)
      BY <1>1, <1>6, <2>1, <2>3, TotalSplit
    <2> QED BY <2>4, <2>5
  <1>8. Total(g, T) \in Int
    <2>1. \A t \in T : g[t] \in Nat
      BY <1>5
    <2>2. \A t \in T : g[t] \in Int
      BY <2>1
    <2> QED BY <1>1, <2>2, TotalInt
  <1>9. Total(one, F) = Cardinality(F) /\ Cardinality(F) \in Nat
    BY <1>4
  <1> QED
    BY <1>3, <1>7, <1>8, <1>9 DEF F

\* Of a reading that has every row up to its newest, what the program wrote is what it had written.
LEMMA WholeKinds ==
    ASSUME NEW list, IsLedger(list), NEW n, NEW rows, IsReading(rows, list, n),
           \A i \in DOMAIN list : list[i] \in rows \/ \A row \in rows : row.i < i,
           NEW kind, kind # "decline"
    PROVE  Kind(rows, kind) = Kind(UpTo(list, n), kind)
  <1>1. rows \subseteq UpTo(list, n)
    BY DEF IsReading
  <1>2. \A k \in 1 .. n : list[k].kind # "decline" => list[k] \in rows
    BY WholeReading
  <1> QED
    BY <1>1, <1>2 DEF Kind, UpTo

\* The card, the grade and the reasons count the same rows, and the card says no more was spent.
LEMMA CardsCount == RecordsInv /\ TruthInv => CardsAddUp
  <1> SUFFICES ASSUME RecordsInv, TruthInv, Screen = "ready", NEW r \in DOMAIN shown.facts, Whole(r)
               PROVE  LET h == shown.facts[r]
                          card == ShownCard(r)
                          tallies == ReasonTallies(h.rows)
                          grade == GradeRules([x \in {r} |-> h.rows], refresh.now)
                      IN  /\ card.paid = grade.paid /\ card.allowances = grade.allowances
                          /\ MapThenSumSet(LAMBDA reason : tallies[reason], DOMAIN tallies) = card.refused
                          /\ card.paid + grade.outside = Cardinality(RequestTicks(h.rows))
                          /\ card.spent <= MapThenSumSet(LAMBDA row : row.amount, Kind(h.rows, "paid"))
    BY DEF CardsAddUp
  <1>1. PICK h, list, rows : h = shown.facts[r] /\ list = ledgers[r] /\ rows = h.rows
    OBVIOUS
  <1>2. IsLedger(list) /\ IsFactsOf(h, r, shown.from) /\ IsFiniteSet(rows) /\ rows \subseteq Row
    BY <1>1, ShownReading
  <1>3. PICK c : c = CountRule(rows)
    OBVIOUS
  <1>4. /\ ShownCard(r).paid = Cardinality(c.paidInside) /\ ShownCard(r).refused = Cardinality(c.refused)
        /\ ShownCard(r).allowances = Cardinality(c.allowances) /\ ShownCard(r).spent = h.spent
    BY <1>1, <1>3 DEF ShownCard, TrackRecordFor
  <1>5. PICK at, hs, grade : at = refresh.now /\ hs = [x \in {r} |-> rows] /\ grade = GradeRules(hs, at)
    OBVIOUS
  <1>6. /\ grade.paid = Cardinality(c.paidInside) /\ grade.outside = Cardinality(Outside(c))
        /\ grade.allowances = Cardinality(c.allowances)
    <2>1. LET d == CountRule(rows)
              g == GradeRules(hs, at)
          IN  /\ g.paid = Cardinality(d.paidInside)
              /\ g.outside = Cardinality(Outside(d))
              /\ g.allowances = Cardinality(d.allowances)
      BY <1>2, <1>5, GradeOfOne
    <2> QED BY <1>3, <1>5, <2>1
  <1>7. c.refused = Kind(rows, "refused")
    BY <1>3 DEF CountRule
  <1>8. Cardinality(c.paidInside) + Cardinality(Outside(c)) = Cardinality(RequestTicks(rows))
    <2>1. RequestTicks(rows) = c.paidInside \union Outside(c)
      BY <1>3 DEF RequestTicks
    <2>2. c.paidInside \subseteq rows /\ Outside(c) \subseteq rows /\ c.paidInside \intersect Outside(c) = {}
      BY <1>3 DEF CountRule, Outside, Kind
    <2>3. IsFiniteSet(c.paidInside) /\ IsFiniteSet(Outside(c))
      BY <1>2, <2>2, FS_Subset
    <2>4. PICK A, B : A = c.paidInside /\ B = Outside(c)
      OBVIOUS
    <2>5. /\ Cardinality(A \union B) = Cardinality(A) + Cardinality(B) - Cardinality(A \intersect B)
          /\ Cardinality(A) \in Nat /\ Cardinality(B) \in Nat
      BY <2>3, <2>4, FS_Union, FS_CardinalityType
    <2>6. Cardinality(A \intersect B) = 0
      BY <2>2, <2>4, FS_EmptySet
    <2> QED BY <2>1, <2>4, <2>5, <2>6
  <1>9. h.spent <= MapThenSumSet(LAMBDA row : row.amount, Kind(rows, "paid"))
    <2>1. PICK n \in Nat : IsReading(rows, list, n) /\ h.spent <= PaidTotal(UpTo(list, n))
      BY <1>1, <1>2 DEF IsFactsOf
    <2>2. \A i \in DOMAIN list : list[i] \in rows \/ \A row \in rows : row.i < i
      BY <1>1 DEF Whole
    <2>3. Kind(rows, "paid") = Kind(UpTo(list, n), "paid")
      BY <1>2, <2>1, <2>2, WholeKinds
    <2>4. IsFiniteSet(Kind(rows, "paid")) /\ Kind(rows, "paid") \subseteq Row
      <3>1. Kind(rows, "paid") \subseteq rows
        BY DEF Kind
      <3> QED BY <1>2, <3>1, FS_Subset
    <2>5. MapThenSumSet(LAMBDA row : row.amount, Kind(rows, "paid")) = Total(RowAmount, Kind(rows, "paid"))
      BY <2>4, RowAmountsAreTotal
    <2> QED BY <2>1, <2>3, <2>5 DEF PaidTotal
  <1>10. MapThenSumSet(LAMBDA reason : ReasonTallies(rows)[reason], DOMAIN ReasonTallies(rows)) = Cardinality(c.refused)
    BY <1>2, <1>7, ReasonsAddUp
  <1> QED
    BY <1>1, <1>4, <1>5, <1>6, <1>8, <1>9, <1>10

\* The first of some rows by time is no later than any of them.
LEMMA FirstByTime ==
    ASSUME NEW rows, IsFiniteSet(rows), rows # {}, \A x \in rows : x.i \in Int /\ x.ts \in Int,
           \A x, y \in rows : x.i = y.i => x = y, \A x, y \in rows : x.i <= y.i => x.ts <= y.ts
    PROVE  Nth(rows, 1) \in rows /\ \A y \in rows : Nth(rows, 1).ts <= y.ts
  <1> DEFINE Upto(row) == {x \in rows : x.ts < row.ts \/ (x.ts = row.ts /\ x.i <= row.i)}
             f == [x \in rows |-> 0 - x.i]
  <1>1. PICK first \in rows : \A y \in rows : first.i <= y.i
    <2>1. \A x \in rows : f[x] \in Int
      OBVIOUS
    <2> HIDE DEF f
    <2>2. PICK m \in rows : \A y \in rows : f[y] <= f[m]
      BY <2>1, LargestNumber
    <2>3. \A y \in rows : m.i <= y.i
      BY <2>2 DEF f
    <2> QED BY <2>3
  <1>2. Upto(first) = {first}
    <2>1. ASSUME NEW x \in Upto(first) PROVE x = first
      <3>1. x \in rows /\ first.i <= x.i /\ first.ts <= x.ts
        BY <1>1, <2>1
      <3>2. x.i <= first.i
        BY <2>1, <3>1
      <3> QED BY <1>1, <3>1, <3>2
    <2> QED BY <1>1, <2>1
  <1>3. Cardinality(Upto(first)) = 1
    <2> HIDE DEF Upto
    <2> QED BY <1>2, FS_Singleton
  <1>4. Nth(rows, 1) = CHOOSE row \in rows : Cardinality(Upto(row)) = 1
    BY DEF Nth
  <1>5. PICK row : row = Nth(rows, 1)
    OBVIOUS
  <1>6. row \in rows /\ Cardinality(Upto(row)) = 1
    <2> HIDE DEF Upto
    <2> QED BY <1>1, <1>3, <1>4, <1>5
  <1>7. Upto(row) = {row}
    <2>1. row \in Upto(row) /\ Upto(row) \subseteq rows
      BY <1>6
    <2> HIDE DEF Upto
    <2>2. IsFiniteSet(Upto(row))
      BY <2>1, FS_Subset
    <2>3. PICK x : Upto(row) = {x}
      BY <1>6, <2>2, FS_Singleton
    <2> QED BY <2>1, <2>3
  <1>8. ASSUME NEW y \in rows, ~(row.ts <= y.ts) PROVE FALSE
    <2>1. y.ts < row.ts
      BY <1>6, <1>8
    <2>2. y \in Upto(row)
      BY <2>1
    <2>3. y = row
      BY <1>7, <2>2
    <2> QED BY <1>6, <2>1, <2>3
  <1> QED
    BY <1>5, <1>6, <1>8

\* The first row of a kind that is shown is the first there ever was.
LEMMA FirstEver ==
    ASSUME NEW list, IsLedger(list), NEW now \in Nat, InTime(list, now),
           NEW n, NEW rows, IsReading(rows, list, n),
           \A i \in DOMAIN list : list[i] \in rows \/ \A row \in rows : row.i < i,
           NEW kind, kind # "decline", Kind(rows, kind) # {}
    PROVE  \A k \in 1 .. Len(list) : list[k].kind = kind => Nth(Kind(rows, kind), 1).ts <= list[k].ts
  <1>1. /\ Len(list) \in Nat /\ n \in 1 .. Len(list) /\ list \in Seq(Row)
        /\ \A k \in 1 .. Len(list) : list[k].i = k /\ list[k] \in Row /\ list[k].ts \in Nat
    <2>1. list \in Seq(Row) /\ Len(list) \in Nat
      BY DEF IsLedger
    <2>2. \A k \in 1 .. Len(list) : list[k] \in Row
      BY <2>1
    <2> QED BY <2>1, <2>2 DEF IsLedger, IsReading, Row
  <1>2. PICK S : S = Kind(rows, kind)
    OBVIOUS
  <1>3. S = Kind(UpTo(list, n), kind)
    BY <1>2, WholeKinds
  <1>4. \A x \in S : x.i \in 1 .. n /\ x = list[x.i] /\ x.i \in Int /\ x.ts \in Int
    BY <1>1, <1>3 DEF Kind, UpTo
  <1>5. IsFiniteSet(S)
    <2>1. n \in 0 .. Len(list)
      BY <1>1
    <2>2. IsFiniteSet(UpTo(list, n)) /\ S \subseteq UpTo(list, n)
      BY <1>3, <2>1, LedgerRows DEF Kind
    <2> QED BY <2>2, FS_Subset
  <1>6. /\ \A x, y \in S : x.i = y.i => x = y
        /\ \A x, y \in S : x.i <= y.i => x.ts <= y.ts
    <2>1. \A x \in S : x.i \in 1 .. Len(list) /\ x = list[x.i]
      BY <1>1, <1>4
    <2>2. \A j, k \in 1 .. Len(list) : j <= k => list[j].ts <= list[k].ts
      BY DEF InTime
    <2> QED BY <2>1, <2>2
  <1>7. PICK first : first = Nth(S, 1) /\ first \in S /\ \A y \in S : first.ts <= y.ts
    BY <1>2, <1>4, <1>5, <1>6, FirstByTime
  <1>8. ASSUME NEW k \in 1 .. Len(list), list[k].kind = kind PROVE first.ts <= list[k].ts
    <2>1. CASE k <= n
      <3>1. k \in 1 .. n
        BY <1>1, <2>1
      <3>2. list[k] \in S
        BY <1>3, <1>8, <3>1 DEF Kind, UpTo
      <3> QED BY <1>7, <3>2
    <2>2. CASE ~(k <= n)
      <3>1. first.i \in 1 .. Len(list) /\ first = list[first.i] /\ first.i <= k
        BY <1>1, <1>4, <1>7, <2>2
      <3>2. list[first.i].ts <= list[k].ts
        BY <3>1 DEF InTime
      <3> QED BY <3>1, <3>2
    <2> QED BY <2>1, <2>2
  <1> QED
    BY <1>2, <1>7, <1>8

\* A rule that is called finished pays nothing any more.
LEMMA FinishedIsOver ==
    ASSUME RecordsInv, NEW r \in RecordRules, NEW h, NEW at \in Int,
           h.status # "active" \/ at <= clock, h.expires = ExpiresAt(r), h.status # "active" => accounts[r].status # "active",
           RuleEndedInsideCap(h, at), NEW nonce, NEW amount
    PROVE  Verdict(r, nonce, amount) # "ok"
  <1>1. ExpiresAt(r) \in Nat /\ clock \in Nat
    <2>1. ledgers[r] \in Seq(Row) /\ 1 \in 1 .. Len(ledgers[r])
      BY DEF RecordsInv, LedgersInv, IsLedger
    <2>2. ledgers[r][1] \in Row
      BY <2>1
    <2>3. ledgers[r][1].ts \in Nat
      BY <2>2 DEF Row
    <2> QED BY <2>3, RecordAssumption DEF ExpiresAt, RecordsInv, LedgersInv
  <1>2. PICK t, st : t = ExpiresAt(r) /\ st = accounts[r].status
    OBVIOUS
  <1>3. CASE st # "active"
    <2>1. Verdict(r, nonce, amount) = "not-active"
      BY <1>2, <1>3 DEF Verdict
    <2> QED BY <2>1
  <1>4. CASE st = "active"
    <2>1. clock >= t /\ ~(clock < t)
      <3>1. h.status = "active" /\ at >= h.expires
        BY <1>2, <1>4 DEF RuleEndedInsideCap
      <3>2. at <= clock
        BY <3>1
      <3> QED BY <1>1, <1>2, <3>1, <3>2
    <2>2. Verdict(r, nonce, amount) = "expired"
      BY <1>2, <1>4, <2>1 DEF Verdict
    <2> QED BY <2>2
  <1> QED
    BY <1>3, <1>4

\* A plaque that is shown is true of the rule's whole ledger.
LEMMA PlaquesHold == RecordsInv /\ TruthInv => PlaquesAreTrue
  <1> SUFFICES ASSUME RecordsInv, TruthInv, UpToDate, NEW r \in DOMAIN shown.facts, Whole(r)
               PROVE  LET h == shown.facts[r]
                          plaques == ShownPlaques(r)
                          ever == RowsOf(r)
                          mark == plaques.thirty.at
                      IN  /\ plaques.first.earned => \A row \in Kind(ever, "paid") : plaques.first.at <= row.ts
                          /\ plaques.refusal.earned =>
                                 \A row \in Kind(ever, "refused") : plaques.refusal.at <= row.ts
                          /\ plaques.ten.earned =>
                                 \A row \in Kind(ever, "override") : row.i > Max({x.i : x \in h.rows})
                          /\ plaques.thirty.earned /\ view.at > mark =>
                                 CountsUntil(h.rows, mark) = CountsUntil(ever, mark)
                          /\ plaques.ended.earned /\ (h.status # "active" \/ refresh.now <= clock) =>
                                 \A n \in 1 .. 9 : Verdict(r, n, 1) # "ok"
    BY DEF PlaquesAreTrue
  <1>1. PICK h, list, rows, ever : h = shown.facts[r] /\ list = ledgers[r] /\ rows = h.rows /\ ever = RowsOf(r)
    OBVIOUS
  <1>2. /\ r \in RecordRules /\ clock \in Nat /\ view.at \in 1 .. clock /\ refresh.now \in Int
        /\ IsLedger(list) /\ InTime(list, clock) /\ IsFactsOf(h, r, shown.from)
        /\ IsFiniteSet(rows)
        /\ \A row \in rows : /\ row.i \in 1 .. Len(list) /\ row = list[row.i] /\ row.ts \in 1 .. clock
                             /\ row.kind = "opened" => row.ts = 1
    BY <1>1, ShownReading DEF UpToDate
  <1>3. shown.from = view.at
    BY DEF UpToDate
  <1>4. PICK n \in Nat : IsReading(rows, list, n) /\ \A k \in n + 1 .. Len(list) : list[k].ts >= view.at
    BY <1>1, <1>2, <1>3 DEF IsFactsOf
  <1>5. \A i \in DOMAIN list : list[i] \in rows \/ \A row \in rows : row.i < i
    BY <1>1 DEF Whole
  <1>6. ever = {list[k] : k \in 1 .. Len(list)} /\ Len(list) \in Nat /\ n \in 1 .. Len(list)
        /\ \A k \in 1 .. Len(list) : list[k].i = k /\ list[k].ts \in Nat
    <2>1. list \in Seq(Row)
      BY <1>2 DEF IsLedger
    <2>2. \A k \in 1 .. Len(list) : list[k].ts \in Nat
      BY <1>2 DEF InTime
    <2> QED BY <1>1, <1>2, <1>4, <2>1, <2>2 DEF RowsOf, IsLedger, IsReading
  <1>7. /\ FirstPayment(h).earned => \A row \in Kind(ever, "paid") : FirstPayment(h).at <= row.ts
        /\ FirstRefusal(h).earned => \A row \in Kind(ever, "refused") : FirstRefusal(h).at <= row.ts
    <2>1. ASSUME NEW kind, kind # "decline", Kind(rows, kind) # {}
          PROVE  \A row \in Kind(ever, kind) : Nth(Kind(rows, kind), 1).ts <= row.ts
      <3>1. \A k \in 1 .. Len(list) : list[k].kind = kind => Nth(Kind(rows, kind), 1).ts <= list[k].ts
        BY <1>2, <1>4, <1>5, <2>1, FirstEver
      <3> QED BY <1>6, <3>1 DEF Kind
    <2>2. FirstPayment(h).earned => Kind(rows, "paid") # {} /\ FirstPayment(h).at = Nth(Kind(rows, "paid"), 1).ts
      BY <1>1 DEF FirstPayment, Pending, Earned
    <2>3. FirstRefusal(h).earned =>
              Kind(rows, "refused") # {} /\ FirstRefusal(h).at = Nth(Kind(rows, "refused"), 1).ts
      BY <1>1 DEF FirstRefusal, Pending, Earned
    <2> QED BY <2>1, <2>2, <2>3
  <1>8. TenRefusals(h).earned => \A row \in Kind(ever, "override") : row.i > Max({x.i : x \in rows})
    <2> SUFFICES ASSUME TenRefusals(h).earned, NEW row \in Kind(ever, "override")
                 PROVE  row.i > Max({x.i : x \in rows})
      OBVIOUS
    <2>1. Kind(rows, "override") = {} /\ ~(Cardinality(Kind(rows, "refused")) < ManyRefusals)
      BY <1>1 DEF TenRefusals, Pending
    <2>2. rows # {}
      <3>1. SUFFICES ASSUME rows = {} PROVE FALSE
        OBVIOUS
      <3>2. Kind(rows, "refused") = {}
        BY <3>1 DEF Kind
      <3>3. Cardinality(Kind(rows, "refused")) = 0
        BY <3>2, FS_EmptySet
      <3>4. ManyRefusals \in Nat \ {0}
        BY RecordAssumption
      <3> QED BY <2>1, <3>3, <3>4
    <2>3. PICK k \in 1 .. Len(list) : row = list[k] /\ row.kind = "override"
      BY <1>6 DEF Kind
    <2>4. row \notin rows
      BY <2>1, <2>3 DEF Kind
    <2>5. row.i = k /\ \A x \in rows : x.i < k
      BY <1>2, <1>5, <1>6, <2>3, <2>4
    <2>6. PICK S : S = {x.i : x \in rows}
      OBVIOUS
    <2>7. S \subseteq 1 .. Len(list) /\ S # {} /\ \A m \in S : m < k
      BY <1>2, <2>2, <2>5, <2>6
    <2>8. IsFiniteSet(S) /\ S \subseteq Int
      <3>1. IsFiniteSet(1 .. Len(list))
        BY <1>6, FS_Interval
      <3>2. IsFiniteSet(S)
        BY <2>7, <3>1, FS_Subset
      <3> QED BY <2>7, <3>2
    <2>9. Max(S) \in S
      BY <2>7, <2>8, Greatest
    <2> QED BY <2>5, <2>6, <2>7, <2>8, <2>9
  <1>9. ThirtyDays(h, refresh.now).earned /\ view.at > ThirtyDays(h, refresh.now).at =>
            CountsUntil(rows, ThirtyDays(h, refresh.now).at) = CountsUntil(ever, ThirtyDays(h, refresh.now).at)
    <2> SUFFICES ASSUME NEW mark, ThirtyDays(h, refresh.now).earned, mark = ThirtyDays(h, refresh.now).at, view.at > mark
                 PROVE  CountsUntil(rows, mark) = CountsUntil(ever, mark)
      OBVIOUS
    <2>1. mark \in Int
      <3>1. OpenedAtOf(rows) \in {0, 1}
        BY <1>2, OpenedAtFirst
      <3>2. mark = OpenedAtOf(rows) + (PlaqueDays - 1) * DayLen
        BY <1>1 DEF ThirtyDays, Pending, Earned
      <3>3. (PlaqueDays - 1) * DayLen \in Int
        BY RecordAssumption
      <3> QED BY <3>1, <3>2, <3>3
    <2>2. ASSUME NEW kind, kind # "decline"
          PROVE  Kind({row \in rows : row.ts <= mark}, kind) = Kind({row \in ever : row.ts <= mark}, kind)
      <3>1. Kind(rows, kind) = Kind(UpTo(list, n), kind)
        BY <1>2, <1>4, <1>5, <2>2, WholeKinds
      <3>2. rows \subseteq ever
        BY <1>2, <1>6
      <3>3. ASSUME NEW row \in ever, row.ts <= mark, row.kind = kind PROVE row \in rows
        <4>1. PICK k \in 1 .. Len(list) : row = list[k]
          BY <1>6
        <4>2. k <= n
          <5>1. SUFFICES ASSUME k > n PROVE FALSE
            BY <1>6
          <5>2. k \in n + 1 .. Len(list)
            BY <1>6, <5>1
          <5>3. list[k].ts >= view.at /\ list[k].ts \in Nat /\ view.at \in Nat
            BY <1>2, <1>4, <1>6, <5>2
          <5> QED BY <2>1, <3>3, <4>1, <5>3
        <4>3. row \in UpTo(list, n)
          BY <1>6, <4>1, <4>2 DEF UpTo
        <4> QED BY <3>1, <3>3, <4>3 DEF Kind
      <3> QED BY <3>2, <3>3 DEF Kind
    <2>3. /\ Kind({row \in rows : row.ts <= mark}, "paid") = Kind({row \in ever : row.ts <= mark}, "paid")
          /\ Kind({row \in rows : row.ts <= mark}, "refused") = Kind({row \in ever : row.ts <= mark}, "refused")
          /\ Kind({row \in rows : row.ts <= mark}, "override") = Kind({row \in ever : row.ts <= mark}, "override")
      BY <2>2
    <2> QED BY <2>3 DEF CountsUntil
  <1>10. RuleEnded(h, refresh.now).earned /\ (h.status # "active" \/ refresh.now <= clock) =>
             \A m \in 1 .. 9 : Verdict(r, m, 1) # "ok"
    <2> SUFFICES ASSUME RuleEnded(h, refresh.now).earned, h.status # "active" \/ refresh.now <= clock,
                        NEW m \in 1 .. 9
                 PROVE  Verdict(r, m, 1) # "ok"
      OBVIOUS
    <2>1. PICK at \in Int : at = refresh.now
      BY <1>2
    <2>2. RuleEndedInsideCap(h, at)
      BY <2>1 DEF RuleEnded, Pending
    <2>3. h.status # "active" \/ at <= clock
      BY <2>1
    <2>4. h.expires = ExpiresAt(r) /\ (h.status # "active" => accounts[r].status # "active")
      BY <1>2 DEF IsFactsOf
    <2> QED BY <1>2, <2>2, <2>3, <2>4, FinishedIsOver
  <1> QED
    BY <1>1, <1>7, <1>8, <1>9, <1>10 DEF ShownPlaques

\* Whatever is on the agent screens is true of the rule it is about, for any agents, rules, rings
\* and days, clocks of the phone ahead or behind, and loads that overlap, fail and end in any order:
\* the plaques (plaques.ts), the weeks in review (weekReview.ts), and the card, the grade and the
\* reasons, which count alike (trackRecord.ts, grade.ts), as long as the rows they need were read
\* (useAgentHistories).
THEOREM RecordsAreTrueAlways == RecordsSpec => []RecordsAreTrue
  <1>1. RecordsInv /\ TruthInv => RecordsAreTrue
    BY PlaquesHold, WeeksCount, CardsCount DEF RecordsAreTrue
  <1> QED
    BY <1>1, TruthInvariant, PTL

=============================================================================
