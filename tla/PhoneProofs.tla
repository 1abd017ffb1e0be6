---------------------------- MODULE PhoneProofs ----------------------------
(***************************************************************************)
(* Theorems about the flows of the phone that sign, for any number of      *)
(* rules, taps, refreshes, crashes, keys and any story, and for a vault of *)
(* any capacity, any destinations, presses, calls and identifiers.         *)
(*                                                                         *)
(* The owner's rules: the inductive invariant has a part for the types,    *)
(* one for what a tap has fixed, one for the agent keys, one for the money *)
(* and one for the hold on new taps. What each kind of step changes is     *)
(* said once; a part that does not depend on it follows from its frame.    *)
(*                                                                         *)
(* The Hold screens: the invariant has a part for the types, one for the   *)
(* identifiers the phone has read (all of them given out already), one     *)
(* that ties each transaction to its press, one for what landed, one for   *)
(* what was reported and one for the draft of a vault. The vault moves on  *)
(* under the screens, and what is known of it is kept by every move.       *)
(***************************************************************************)
EXTENDS OwnerApp, HoldPhone, CommonProofs

-----------------------------------------------------------------------------
(* The parts of the invariant of the owner's rules                         *)

\* A tap whose transaction has not been sent.
Front(t) == task[t].at \in {"gate", "call", "key", "remember", "build", "sign"}

\* The types of the rules, the taps, the secure store, the hooks and the refreshes.
RuleRecord ==
    [kind : {"dedicated", "associated", "trade"},
     status : {"none", "active", "exhausted", "revoked", "closed"},
     expired : BOOLEAN, left : Nat, acct : Nat, agent : Nat,
     refused : BOOLEAN, granted : BOOLEAN, settled : BOOLEAN]

Steps == {"idle", "gate", "call", "key", "remember", "build", "sign", "sent", "watch", "back", "done"}

TaskRecord ==
    [at : Steps,
     op : {"open", "revoke", "close", "grant"}, rule : Rules \union {None}, key : Nat,
     revoke : BOOLEAN, sweep : BOOLEAN, amount : Nat]

StoreRecord == [session : {"none", "token", "bare"}, secret : Nat, agents : SUBSET Nat]

UiRecord ==
    [connected : BOOLEAN, list : [Rules -> {"absent", "active", "ended", "revoked"}],
     held : BOOLEAN, epoch : Nat]

ReadRecord == [busy : BOOLEAN, epoch : Nat, after : SUBSET Tasks]

\* Every variable has its type.
OwnerTyped ==
    /\ rule \in [Rules -> RuleRecord] /\ purse \in Nat /\ paid \in Nat
    /\ store \in StoreRecord /\ ui \in UiRecord
    /\ reads \in [Reads -> ReadRecord] /\ task \in [Tasks -> TaskRecord]
    /\ tx \in [Tasks -> {"none", "flying", "landed", "failed", "dropped"}]
    /\ unheard \subseteq Tasks

\* Nothing is sent before it is signed, one tap at a time is worked on, and a close that
\* was built takes exactly a rule's own account.
TapsAreFixed ==
    /\ \A t \in Tasks :
          /\ task[t].at = "idle" \/ Front(t) => tx[t] = "none"
          /\ task[t].at # "idle" => task[t].rule \in Rules
          /\ task[t].at # "idle" /\ task[t].op = "open" => rule[task[t].rule].kind # "associated"
          /\ task[t].op = "close" /\ (task[t].at = "sign" \/ tx[t] # "none") =>
                /\ task[t].sweep <=> rule[task[t].rule].kind # "associated"
                /\ task[t].sweep \/ task[t].amount = 0
    /\ \A t, u \in Tasks : Front(t) /\ Front(u) => t = u

\* The keys that were made on the phone.
KeysMade == store.agents \union {store.secret}

\* The keys made are numbered from one up to the current one, and every key a rule or a tap
\* knows is one of them; the current one is in the map unless a tap is about to write it.
KeysInv ==
    /\ store.secret # None /\ KeysMade = 1 .. store.secret
    /\ \A r \in Rules : rule[r].agent \in {None, AgentOwn} \union KeysMade
    /\ \A t \in Tasks : task[t].key \in {None, AgentOwn} \union KeysMade
    /\ \A t \in Tasks : task[t].at = "remember" => task[t].key = store.secret
    /\ store.secret \in store.agents \/ \E t \in Tasks : task[t].at = "remember"

\* What each rule's own account holds.
Accounts == [r \in Rules |-> rule[r].acct]

\* A rule that is not open, or that draws on the owner's account, holds nothing itself, and
\* what is in the accounts and paid out is what there was.
MoneyInv ==
    /\ \A r \in Rules : rule[r].status \in {"none", "closed"} \/ rule[r].kind = "associated" => rule[r].acct = 0
    /\ purse + paid + Total(Accounts, Rules)
           = CAP + CAP * Cardinality({r \in Standing : rule[r].kind # "associated"})

\* While a transaction is unheard new taps are held, and a refresh that may lift the hold
\* started after it.
HeldInv ==
    /\ unheard # {} => ui.held
    /\ \A s \in Reads : reads[s].busy =>
          /\ reads[s].epoch <= ui.epoch
          /\ reads[s].epoch = ui.epoch => unheard \subseteq reads[s].after

\* The inductive invariant.
OwnerInv == OwnerTyped /\ TapsAreFixed /\ KeysInv /\ MoneyInv /\ HeldInv

-----------------------------------------------------------------------------
(* What each kind of step changes                                          *)

\* A step of tap t that makes no key and writes none.
KeysAlone(t) ==
    /\ task'[t].key = task[t].key
    /\ task'[t].at = "remember" <=> task[t].at = "remember"
    /\ store'.agents = store.agents /\ store'.secret = store.secret

\* What a step of tap t leaves as it was.
TapEffect(t) ==
    /\ rule' = rule /\ purse' = purse /\ paid' = paid /\ reads' = reads
    /\ task' \in [Tasks -> TaskRecord] /\ store' \in StoreRecord
    /\ \A u \in Tasks \ {t} : task'[u] = task[u] /\ tx'[u] = tx[u]
    /\ task'[t].op = task[t].op /\ task'[t].rule = task[t].rule
    /\ task[t].at # "idle" /\ task'[t].at # "idle" /\ (Front(t)' => Front(t))
    /\ task[t].at # "build" => task'[t].sweep = task[t].sweep /\ task'[t].amount = task[t].amount
    /\ task'[t].at = "sign" => task[t].at \in {"build", "sign"}
    /\ task[t].at = "build" /\ task'[t].at = "sign" /\ task[t].op = "close" =>
          /\ task'[t].sweep <=> rule[task[t].rule].kind # "associated"
          /\ task'[t].sweep \/ task'[t].amount = 0
    /\ tx' \in [Tasks -> {"none", "flying", "landed", "failed", "dropped"}]
    /\ tx'[t] # tx[t] => task[t].at = "sign" /\ ~Front(t)'
    /\ KeysAlone(t) \/ GivenKey(t) \/ WriteSecret(t) \/ WriteAgents(t)
    /\ (ui' = ui /\ unheard' = unheard) \/ Pending(t)

\* Keys are numbers.
LEMMA KeysAreNumbers == Keys \subseteq Nat \ {0}
  BY OwnerAppAssumption, FS_CardinalityType

\* One entry of a table changes.
LEMMA TapChanged ==
    ASSUME NEW R, NEW f \in [Tasks -> R], NEW t \in Tasks, NEW x \in R, NEW g, g = [f EXCEPT ![t] = x]
    PROVE  g \in [Tasks -> R] /\ g[t] = x /\ \A u \in Tasks \ {t} : g[u] = f[u]
  OBVIOUS

\* A tap that goes on keeps its fields.
LEMMA RecordAt ==
    ASSUME NEW x \in TaskRecord, NEW a \in Steps, NEW y, y = [x EXCEPT !.at = a]
    PROVE  /\ y \in TaskRecord
           /\ y.at = a /\ y.op = x.op /\ y.rule = x.rule /\ y.key = x.key
           /\ y.sweep = x.sweep /\ y.amount = x.amount
  BY DEF TaskRecord

\* `To` moves one tap and nothing else of it.
LEMMA TapGoes ==
    ASSUME OwnerTyped, NEW t \in Tasks, NEW a \in Steps, To(t, a)
    PROVE  /\ task' \in [Tasks -> TaskRecord] /\ \A u \in Tasks \ {t} : task'[u] = task[u]
           /\ task'[t].at = a /\ task'[t].op = task[t].op /\ task'[t].rule = task[t].rule
           /\ task'[t].key = task[t].key /\ task'[t].sweep = task[t].sweep
           /\ task'[t].amount = task[t].amount
  <1> DEFINE y == [task[t] EXCEPT !.at = a]
  <1>1. task \in [Tasks -> TaskRecord]
    BY DEF OwnerTyped
  <1>2. task' = [task EXCEPT ![t] = y]
    BY <1>1 DEF To
  <1>3. /\ y \in TaskRecord /\ y.at = a /\ y.op = task[t].op /\ y.rule = task[t].rule
        /\ y.key = task[t].key /\ y.sweep = task[t].sweep /\ y.amount = task[t].amount
    BY <1>1, RecordAt
  <1> HIDE DEF y
  <1> QED
    BY <1>1, <1>2, <1>3, TapChanged

\* Every step of a tap, from the gate to the answer.
LEMMA TapEffects ==
    ASSUME OwnerTyped, TapsAreFixed, NEW t \in Tasks, TaskStep(t) PROVE TapEffect(t)
  <1> USE DEF TapEffect, KeysAlone, Front, ownerChain, End
  <1>0. /\ task \in [Tasks -> TaskRecord] /\ store \in StoreRecord
        /\ tx \in [Tasks -> {"none", "flying", "landed", "failed", "dropped"}]
        /\ task[t] \in TaskRecord
    BY DEF OwnerTyped
  <1>1. CASE Gate(t)
    BY <1>1, <1>0, TapGoes DEF Gate, Steps
  <1>2. CASE CallOpen(t)
    BY <1>2, <1>0, TapGoes DEF CallOpen, Steps
  <1>3. CASE CallRevoke(t)
    BY <1>3, <1>0, TapGoes DEF CallRevoke, Steps
  <1>4. CASE CallClose(t)
    BY <1>4, <1>0, TapGoes DEF CallClose, Steps
  <1>5. CASE CallGrant(t)
    BY <1>5, <1>0, TapGoes DEF CallGrant, Steps
  <1>6. CASE GivenKey(t)
    <2>0. PICK y : y = [task[t] EXCEPT !.at = "build", !.key = AgentOwn]
      OBVIOUS
    <2>1. task' = [task EXCEPT ![t] = y]
      BY <1>6, <1>0, <2>0 DEF GivenKey
    <2>2. /\ y \in TaskRecord /\ y.at = "build" /\ y.op = task[t].op /\ y.rule = task[t].rule
          /\ y.key = AgentOwn /\ y.sweep = task[t].sweep /\ y.amount = task[t].amount
      <3>1. "build" \in Steps /\ AgentOwn \in Nat
        BY OwnerAppAssumption DEF Steps
      <3> QED
        BY <1>0, <2>0, <3>1 DEF TaskRecord
    <2>3. task' \in [Tasks -> TaskRecord] /\ task'[t] = y /\ \A u \in Tasks \ {t} : task'[u] = task[u]
      BY <1>0, <2>1, <2>2, TapChanged
    <2> QED
      BY <1>6, <1>0, <2>2, <2>3 DEF GivenKey
  <1>7. CASE WriteSecret(t)
    <2>k. PICK k : k = NextKey(store)
      OBVIOUS
    <2>y. PICK y : y = [task[t] EXCEPT !.at = "remember", !.key = k]
      OBVIOUS
    <2>n. k \in Nat
      BY <1>7, <2>k, KeysAreNumbers DEF WriteSecret
    <2>1. task' = [task EXCEPT ![t] = y] /\ store' = [store EXCEPT !.secret = k] /\ k \in Nat
      BY <1>7, <1>0, <2>k, <2>y, <2>n DEF WriteSecret
    <2>2. /\ y \in TaskRecord /\ y.at = "remember" /\ y.op = task[t].op /\ y.rule = task[t].rule
          /\ y.key = k /\ y.sweep = task[t].sweep /\ y.amount = task[t].amount
      <3>1. "remember" \in Steps
        BY DEF Steps
      <3> QED
        BY <1>0, <2>1, <2>y, <3>1 DEF TaskRecord
    <2>3. store' \in StoreRecord
      BY <1>0, <2>1 DEF StoreRecord
    <2>4. task' \in [Tasks -> TaskRecord] /\ task'[t] = y /\ \A u \in Tasks \ {t} : task'[u] = task[u]
      BY <1>0, <2>1, <2>2, TapChanged
    <2> QED
      BY <1>7, <1>0, <2>2, <2>3, <2>4 DEF WriteSecret
  <1>8. CASE WriteAgents(t)
    <2>1. store' \in StoreRecord
      BY <1>8, <1>0 DEF WriteAgents, Remember, StoreRecord, TaskRecord
    <2> QED
      BY <1>8, <1>0, <2>1, TapGoes DEF WriteAgents, Steps
  <1>9. CASE Build(t)
    <2>1. task[t].at = "build" /\ UNCHANGED <<rule, purse, paid, store, ui, reads, tx, crashes, unheard>>
      BY <1>9 DEF Build
    <2>2. CASE To(t, "sign") /\ task[t].op # "close"
      BY <1>0, <2>1, <2>2, TapGoes DEF Steps
    <2>3. CASE \E revoke \in BOOLEAN : Close(t, revoke)
      <3> DEFINE amount == IF Sweeps(task[t].rule) THEN rule[task[t].rule].acct ELSE 0
      <3>1. PICK revoke \in BOOLEAN :
                 task' = [task EXCEPT ![t].at = "sign", ![t].revoke = revoke,
                                      ![t].sweep = Sweeps(task[t].rule), ![t].amount = amount]
        BY <2>3 DEF Close
      <3>2. task[t].rule \in Rules
        BY <2>1 DEF TapsAreFixed
      <3>3. /\ amount \in Nat /\ Sweeps(task[t].rule) \in BOOLEAN /\ (Sweeps(task[t].rule) \/ amount = 0)
            /\ Sweeps(task[t].rule) <=> rule[task[t].rule].kind # "associated"
        BY <3>2 DEF OwnerTyped, RuleRecord, Sweeps
      <3> DEFINE sweep == Sweeps(task[t].rule)
      <3>y. PICK y : y = [task[t] EXCEPT !.at = "sign", !.revoke = revoke, !.sweep = sweep, !.amount = amount]
        OBVIOUS
      <3>4. task' = [task EXCEPT ![t] = y]
        BY <1>0, <3>1, <3>y
      <3> HIDE DEF amount, sweep
      <3>5. /\ y \in TaskRecord /\ y.at = "sign" /\ y.op = task[t].op /\ y.rule = task[t].rule
            /\ y.key = task[t].key /\ y.sweep = sweep /\ y.amount = amount
        <4>1. sweep \in BOOLEAN
          BY <3>3 DEF sweep
        <4>2. amount \in Nat
          BY <3>3
        <4> QED
          BY <1>0, <4>1, <4>2, <3>y DEF TaskRecord, Steps
      <3>6. task' \in [Tasks -> TaskRecord] /\ task'[t] = y /\ \A u \in Tasks \ {t} : task'[u] = task[u]
        BY <1>0, <3>4, <3>5, TapChanged
      <3> QED
        BY <1>0, <2>1, <3>3, <3>5, <3>6 DEF sweep
    <2> QED
      BY <1>9, <2>2, <2>3 DEF Build, BuildOpen, BuildRevoke, BuildGrant, BuildOpenTrade,
         BuildRevokeTrade, BuildGrantTrade, BuildClose, BuildCloseTrade
  <1>10. CASE GiveUp(t)
    BY <1>10, <1>0, TapGoes DEF GiveUp, Steps
  <1>11. CASE StaleToken(t)
    BY <1>11, <1>0 DEF StaleToken, StoreRecord
  <1>12. CASE Sign(t)
    BY <1>12, <1>0, TapGoes DEF Sign, Steps, StoreRecord
  <1>13. CASE SessionCloses(t)
    BY <1>13, <1>0, TapGoes DEF SessionCloses, Steps
  <1>14. CASE Decline(t)
    BY <1>14, <1>0, TapGoes DEF Decline, Steps
  <1>15. CASE WalletConfirms(t)
    BY <1>15, <1>0, TapGoes DEF WalletConfirms, Steps
  <1>16. CASE WatchConfirms(t)
    BY <1>16, <1>0, TapGoes DEF WatchConfirms, Steps
  <1>17. CASE Refused(t)
    BY <1>17, <1>0, TapGoes DEF Refused, Steps
  <1>18. CASE Pending(t)
    BY <1>18, <1>0, TapGoes DEF Pending, Steps
  <1>19. CASE ReadBack(t)
    BY <1>19, <1>0, TapGoes DEF ReadBack, Steps
  <1> QED
    BY <1>1, <1>2, <1>3, <1>4, <1>5, <1>6, <1>7, <1>8, <1>9, <1>10, <1>11, <1>12, <1>13, <1>14, <1>15, <1>16, <1>17, <1>18, <1>19 DEF TaskStep, Heard

\* What the agent and the clock do to a rule.
LEMMA ChainEffects ==
    ASSUME OwnerTyped, NEW r \in Busy, Charge(r) \/ Refuse(r) \/ Retry(r) \/ Expires(r)
    PROVE  /\ r \in Rules /\ rule' \in [Rules -> RuleRecord] /\ purse' \in Nat /\ paid' \in Nat
           /\ UNCHANGED <<store, ui, reads, task, tx, unheard>>
           /\ \A q \in Rules \ {r} : rule'[q] = rule[q]
           /\ rule'[r].kind = rule[r].kind /\ rule'[r].agent = rule[r].agent
           /\ purse' + paid' + rule'[r].acct = purse + paid + rule[r].acct
           /\ rule[r].acct # rule'[r].acct => rule[r].kind # "associated"
           /\ rule'[r].status \in {"none", "closed"} =>
                 rule'[r].status = rule[r].status /\ rule'[r].acct = rule[r].acct
  <1>1. r \in Rules /\ rule \in [Rules -> RuleRecord] /\ rule[r] \in RuleRecord
    BY OwnerAppAssumption DEF OwnerTyped
  <1>2. ASSUME NEW n \in Nat, Draw(r, n), UNCHANGED <<store, ui, reads, task, tx, unheard>>
        PROVE  /\ rule' \in [Rules -> RuleRecord] /\ purse' \in Nat /\ paid' \in Nat
               /\ \A q \in Rules \ {r} : rule'[q] = rule[q]
               /\ rule'[r].kind = rule[r].kind /\ rule'[r].agent = rule[r].agent
               /\ purse' + paid' + rule'[r].acct = purse + paid + rule[r].acct
               /\ rule[r].acct # rule'[r].acct => rule[r].kind # "associated"
               /\ rule'[r].status \notin {"none", "closed"}
    <2>1. PICK y : y = [rule[r] EXCEPT !.left = @ - n,
                             !.status = IF rule[r].left = n THEN "exhausted" ELSE @,
                             !.acct = IF rule[r].kind # "associated" THEN @ - n ELSE @,
                             !.settled = rule[r].refused, !.granted = FALSE]
      OBVIOUS
    <2>2. rule' = [rule EXCEPT ![r] = y]
      BY <1>1, <1>2, <2>1 DEF Draw
    <2>3. /\ rule[r].left >= n /\ rule[r].status = "active"
          /\ rule[r].kind = "associated" => purse >= n
          /\ rule[r].kind # "associated" => rule[r].acct >= n
      BY <1>2 DEF Draw, IsActive, Funds
    <2>4. /\ y \in RuleRecord /\ y.kind = rule[r].kind /\ y.agent = rule[r].agent
          /\ y.acct = (IF rule[r].kind # "associated" THEN rule[r].acct - n ELSE rule[r].acct)
          /\ y.status \in {"active", "exhausted"}
      <3>1. PICK l, a, st, g : /\ l = rule[r].left - n /\ g = rule[r].refused
                               /\ a = (IF rule[r].kind # "associated" THEN rule[r].acct - n ELSE rule[r].acct)
                               /\ st = (IF rule[r].left = n THEN "exhausted" ELSE rule[r].status)
        OBVIOUS
      <3>2. l \in Nat /\ a \in Nat /\ st \in {"active", "exhausted"} /\ g \in BOOLEAN
        BY <1>1, <2>3, <3>1 DEF RuleRecord
      <3>3. y = [rule[r] EXCEPT !.left = l, !.status = st, !.acct = a, !.settled = g, !.granted = FALSE]
        BY <1>1, <2>1, <3>1 DEF RuleRecord
      <3>4. /\ y \in RuleRecord /\ y.kind = rule[r].kind /\ y.agent = rule[r].agent
            /\ y.acct = a /\ y.status = st
        BY <1>1, <3>2, <3>3 DEF RuleRecord
      <3> QED
        BY <3>1, <3>2, <3>4
    <2>5. /\ paid' = paid + n /\ paid \in Nat /\ purse \in Nat /\ rule[r].acct \in Nat
          /\ purse' = IF rule[r].kind # "associated" THEN purse ELSE purse - n
      BY <1>1, <1>2 DEF Draw, OwnerTyped, RuleRecord
    <2>6. rule' \in [Rules -> RuleRecord] /\ rule'[r] = y /\ \A q \in Rules \ {r} : rule'[q] = rule[q]
      BY <1>1, <2>2, <2>4
    <2> QED
      BY <2>3, <2>4, <2>5, <2>6
  <1>3. CASE Charge(r)
    BY <1>1, <1>2, <1>3 DEF Charge
  <1>4. CASE Retry(r)
    <2>1. CAP \in Nat
      BY OwnerAppAssumption
    <2> QED
      BY <1>1, <1>2, <1>4, <2>1 DEF Retry
  <1>5. CASE Refuse(r)
    <2>1. PICK y : y = [rule[r] EXCEPT !.refused = TRUE]
      OBVIOUS
    <2>2. rule' = [rule EXCEPT ![r] = y]
      BY <1>1, <1>5, <2>1 DEF Refuse
    <2>3. /\ y \in RuleRecord /\ y.kind = rule[r].kind /\ y.agent = rule[r].agent
          /\ y.acct = rule[r].acct /\ y.status = rule[r].status
      BY <1>1, <2>1 DEF RuleRecord
    <2>4. rule' \in [Rules -> RuleRecord] /\ rule'[r] = y /\ \A q \in Rules \ {r} : rule'[q] = rule[q]
      BY <1>1, <2>2, <2>3
    <2> QED
      BY <1>1, <1>5, <2>3, <2>4 DEF Refuse, OwnerTyped
  <1>6. CASE Expires(r)
    <2>1. PICK y : y = [rule[r] EXCEPT !.expired = TRUE]
      OBVIOUS
    <2>2. rule' = [rule EXCEPT ![r] = y]
      BY <1>1, <1>6, <2>1 DEF Expires
    <2>3. /\ y \in RuleRecord /\ y.kind = rule[r].kind /\ y.agent = rule[r].agent
          /\ y.acct = rule[r].acct /\ y.status = rule[r].status
      BY <1>1, <2>1 DEF RuleRecord
    <2>4. rule' \in [Rules -> RuleRecord] /\ rule'[r] = y /\ \A q \in Rules \ {r} : rule'[q] = rule[q]
      BY <1>1, <2>2, <2>3
    <2> QED
      BY <1>1, <1>6, <2>3, <2>4 DEF Expires, OwnerTyped
  <1> QED
    BY <1>3, <1>4, <1>5, <1>6

\* What a transaction that lands does to its rule.
LEMMA LandEffects ==
    ASSUME OwnerTyped, TapsAreFixed, MoneyInv, NEW t \in Tasks, Land(t),
           NEW r, r = task[t].rule
    PROVE  /\ r \in Rules /\ rule' \in [Rules -> RuleRecord] /\ purse' \in Nat
           /\ UNCHANGED <<paid, store, ui, reads, task, unheard>>
           /\ tx' \in [Tasks -> {"none", "flying", "landed", "failed", "dropped"}]
           /\ \A u \in Tasks : tx[u] = "none" <=> tx'[u] = "none"
           /\ \A q \in Rules \ {r} : rule'[q] = rule[q]
           /\ rule'[r].kind = rule[r].kind /\ rule'[r].agent \in {rule[r].agent, task[t].key}
           /\ purse' + rule'[r].acct = purse + rule[r].acct
           /\ rule'[r].status \in {"none", "closed"} \/ rule'[r].kind = "associated" => rule'[r].acct = 0
  <1>1. /\ task[t].at # "idle" /\ r \in Rules /\ rule \in [Rules -> RuleRecord] /\ rule[r] \in RuleRecord
        /\ task[t] \in TaskRecord /\ tx[t] = "flying" /\ Holds(t) /\ Applied(t)
        /\ CAP \in Nat /\ purse \in Nat
    BY OwnerAppAssumption DEF OwnerTyped, TapsAreFixed, Land
  <1>2. /\ rule[r].status \in {"none", "closed"} \/ rule[r].kind = "associated" => rule[r].acct = 0
        /\ rule[r].acct \in Nat /\ task[t].amount \in Nat
    BY <1>1 DEF MoneyInv, RuleRecord, TaskRecord
  <1>3. ASSUME NEW y \in RuleRecord, rule' = [rule EXCEPT ![r] = y]
        PROVE  /\ rule' \in [Rules -> RuleRecord] /\ rule'[r] = y
               /\ \A q \in Rules \ {r} : rule'[q] = rule[q]
    BY <1>1, <1>3
  <1>4. /\ UNCHANGED <<paid, store, ui, reads, task, unheard>>
        /\ tx' \in [Tasks -> {"none", "flying", "landed", "failed", "dropped"}]
        /\ \A u \in Tasks : tx[u] = "none" <=> tx'[u] = "none"
    BY DEF Land, OwnerTyped
  <1>5. CASE task[t].op = "open"
    <2>1. PICK y : y = [rule[r] EXCEPT !.status = "active", !.left = CAP, !.acct = CAP,
                                       !.agent = task[t].key]
      OBVIOUS
    <2>2. /\ rule' = [rule EXCEPT ![r] = y] /\ purse' = purse - CAP
          /\ purse >= CAP /\ rule[r].status = "none"
      BY <1>1, <1>5, <2>1 DEF Applied, Holds
    <2>3. /\ y \in RuleRecord /\ y.kind = rule[r].kind /\ y.agent = task[t].key
          /\ y.acct = CAP /\ y.status = "active"
      BY <1>1, <2>1 DEF RuleRecord, TaskRecord
    <2>4. rule[r].kind # "associated"
      BY <1>1, <1>5 DEF TapsAreFixed
    <2> QED
      BY <1>1, <1>2, <1>3, <1>4, <2>2, <2>3, <2>4
  <1>6. CASE task[t].op = "revoke"
    <2>1. PICK y : y = [rule[r] EXCEPT !.status = "revoked"]
      OBVIOUS
    <2>2. rule' = [rule EXCEPT ![r] = y] /\ purse' = purse
      BY <1>1, <1>6, <2>1 DEF Applied
    <2>3. /\ y \in RuleRecord /\ y.kind = rule[r].kind /\ y.agent = rule[r].agent
          /\ y.acct = rule[r].acct /\ y.status = "revoked"
      BY <1>1, <2>1 DEF RuleRecord
    <2> QED
      BY <1>1, <1>2, <1>3, <1>4, <2>2, <2>3
  <1>7. CASE task[t].op = "grant"
    <2>1. PICK y : y = [rule[r] EXCEPT !.granted = TRUE]
      OBVIOUS
    <2>2. rule' = [rule EXCEPT ![r] = y] /\ purse' = purse
      BY <1>1, <1>7, <2>1 DEF Applied
    <2>3. /\ y \in RuleRecord /\ y.kind = rule[r].kind /\ y.agent = rule[r].agent
          /\ y.acct = rule[r].acct /\ y.status = rule[r].status
      BY <1>1, <2>1 DEF RuleRecord
    <2> QED
      BY <1>1, <1>2, <1>3, <1>4, <2>2, <2>3
  <1>8. CASE task[t].op = "close"
    <2>1. PICK y : y = [rule[r] EXCEPT !.status = "closed", !.acct = @ - task[t].amount]
      OBVIOUS
    <2>2. /\ rule' = [rule EXCEPT ![r] = y] /\ purse' = purse + task[t].amount
          /\ task[t].sweep => rule[r].acct = task[t].amount
      BY <1>1, <1>8, <2>1 DEF Applied, Holds
    <2>3. /\ task[t].sweep <=> rule[r].kind # "associated"
          /\ task[t].sweep \/ task[t].amount = 0
      BY <1>1, <1>8 DEF TapsAreFixed
    <2>4. rule[r].acct = task[t].amount
      BY <1>2, <2>2, <2>3
    <2>5. /\ y \in RuleRecord /\ y.kind = rule[r].kind /\ y.agent = rule[r].agent /\ y.acct = 0
      <3>1. y = [rule[r] EXCEPT !.status = "closed", !.acct = 0]
        <4>1. rule[r].acct - task[t].amount = 0
          BY <1>2, <2>4
        <4> QED
          BY <1>1, <2>1, <4>1 DEF RuleRecord
      <3> QED
        BY <1>1, <3>1 DEF RuleRecord
    <2> QED
      BY <1>1, <1>2, <1>3, <1>4, <2>2, <2>4, <2>5
  <1> QED
    BY <1>1, <1>5, <1>6, <1>7, <1>8 DEF TaskRecord

\* What a finger on a button does.
LEMMA TapBegins ==
    ASSUME OwnerTyped, NEW t \in Tasks, NEW r \in Rules, Tap(t, r)
    PROVE  /\ UNCHANGED <<rule, purse, paid, store, ui, reads, tx, unheard>>
           /\ task' \in [Tasks -> TaskRecord] /\ \A u \in Tasks \ {t} : task'[u] = task[u] /\ ~Front(u)
           /\ task[t].at = "idle" /\ task'[t].at \in {"gate", "call"}
           /\ task'[t].op = task[t].op /\ task'[t].rule = r /\ task'[t].key = task[t].key
           /\ task[t].op = "open" => rule[r].kind # "associated"
  <1>1. PICK y : y = [task[t] EXCEPT !.rule = r, !.at = FirstStep(task[t].op, r)]
    OBVIOUS
  <1>2. task[t] \in TaskRecord /\ task \in [Tasks -> TaskRecord] /\ FirstStep(task[t].op, r) \in {"gate", "call"}
    BY DEF OwnerTyped, FirstStep
  <1>3. task' = [task EXCEPT ![t] = y]
    BY <1>1, <1>2 DEF Tap
  <1>4. /\ y \in TaskRecord /\ y.at \in {"gate", "call"} /\ y.op = task[t].op /\ y.rule = r
        /\ y.key = task[t].key
    BY <1>1, <1>2 DEF TaskRecord, Steps
  <1>5. task' \in [Tasks -> TaskRecord] /\ task'[t] = y /\ \A u \in Tasks \ {t} : task'[u] = task[u]
    BY <1>2, <1>3, <1>4, TapChanged
  <1>6. task[t].at = "idle" /\ (task[t].op = "open" => rule[r].kind # "associated")
    BY DEF Tap, Offered
  <1>7. \A u \in Tasks : ~Front(u)
    BY DEF Tap, Front
  <1>8. UNCHANGED <<rule, purse, paid, store, ui, reads, tx, unheard>>
    BY DEF Tap, ownerChain
  <1> QED
    BY <1>4, <1>5, <1>6, <1>7, <1>8

\* What a crash leaves of the taps and the store.
LEMMA CrashEffects ==
    ASSUME OwnerTyped, store.secret # None, Crash
    PROVE  /\ UNCHANGED <<rule, purse, paid, tx>> /\ unheard' = {}
           /\ ui' \in UiRecord /\ reads' \in [Reads -> ReadRecord] /\ \A s \in Reads : ~reads'[s].busy
           /\ task' \in [Tasks -> TaskRecord]
           /\ \A t \in Tasks :
                 /\ task'[t].at = IF task[t].at = "idle" THEN "idle" ELSE "done"
                 /\ task'[t].op = task[t].op /\ task'[t].rule = task[t].rule
                 /\ task'[t].key = task[t].key /\ task'[t].sweep = task[t].sweep
                 /\ task'[t].amount = task[t].amount
           /\ store' = Remember(store, store.secret)
  <1>1. task \in [Tasks -> TaskRecord] /\ store \in StoreRecord
    BY DEF OwnerTyped
  <1>2. /\ UNCHANGED <<rule, purse, paid, tx>> /\ unheard' = {}
        /\ store' = Remember(store, store.secret)
    BY DEF Crash, ownerChain, LoadOrCreateAgent
  <1>3. ui' \in UiRecord
    BY DEF Crash, Restored, NoUi, UiRecord
  <1>4. reads' \in [Reads -> ReadRecord] /\ \A s \in Reads : ~reads'[s].busy
    BY DEF Crash, IdleRead, ReadRecord
  <1>5. ASSUME NEW t \in Tasks
        PROVE  /\ task'[t] \in TaskRecord
               /\ task'[t].at = IF task[t].at = "idle" THEN "idle" ELSE "done"
               /\ task'[t].op = task[t].op /\ task'[t].rule = task[t].rule
               /\ task'[t].key = task[t].key /\ task'[t].sweep = task[t].sweep
               /\ task'[t].amount = task[t].amount
    <2>1. task'[t] = IF task[t].at = "idle" THEN task[t] ELSE [task[t] EXCEPT !.at = "done"]
      BY DEF Crash
    <2>2. task[t] \in TaskRecord
      BY <1>1
    <2> QED
      BY <2>1, <2>2 DEF TaskRecord, Steps
  <1>6. task' \in [Tasks -> TaskRecord]
    <2>1. task' = [t \in Tasks |-> task'[t]]
      BY DEF Crash
    <2> QED
      BY <1>5, <2>1
  <1> QED
    BY <1>2, <1>3, <1>4, <1>5, <1>6

\* What connecting does, with a key already made.
LEMMA ConnectEffects ==
    ASSUME OwnerTyped, store.secret # None, Connect
    PROVE  /\ UNCHANGED <<rule, purse, paid, reads, task, tx, unheard>>
           /\ ui' \in UiRecord /\ ui'.held = ui.held /\ ui'.epoch = ui.epoch
           /\ store' \in StoreRecord /\ store'.secret = store.secret
           /\ store'.agents = store.agents \union {store.secret}
  <1>1. store \in StoreRecord /\ ui \in UiRecord
    BY DEF OwnerTyped
  <1>2. PICK st : st = [store EXCEPT !.session = "token"]
    OBVIOUS
  <1>3. st \in StoreRecord /\ st.secret = store.secret /\ st.agents = store.agents
    BY <1>1, <1>2 DEF StoreRecord
  <1>4. store' = Remember(st, st.secret)
    BY <1>2, <1>3 DEF Connect, LoadOrCreateAgent
  <1>5. /\ store' \in StoreRecord /\ store'.secret = store.secret
        /\ store'.agents = store.agents \union {store.secret}
    BY <1>3, <1>4 DEF Remember, StoreRecord
  <1>6. ui' = [ui EXCEPT !.connected = TRUE] /\ UNCHANGED <<rule, purse, paid, reads, task, tx, unheard>>
    BY DEF Connect, ownerChain
  <1>7. ui' \in UiRecord /\ ui'.held = ui.held /\ ui'.epoch = ui.epoch
    BY <1>1, <1>6 DEF UiRecord
  <1> QED
    BY <1>5, <1>6, <1>7

\* Disconnecting clears the list and the session.
LEMMA DisconnectEffects ==
    ASSUME OwnerTyped, Disconnect
    PROVE  /\ UNCHANGED <<rule, purse, paid, reads, task, tx, unheard>>
           /\ ui' \in UiRecord /\ ui'.held = ui.held /\ ui'.epoch = ui.epoch
           /\ store' \in StoreRecord /\ store'.secret = store.secret /\ store'.agents = store.agents
  <1>1. store \in StoreRecord /\ ui \in UiRecord
    BY DEF OwnerTyped
  <1>2. /\ store' = [store EXCEPT !.session = "none"]
        /\ ui' = [ui EXCEPT !.connected = FALSE, !.list = NoUi.list]
        /\ UNCHANGED <<rule, purse, paid, reads, task, tx, unheard>>
    BY DEF Disconnect, ownerChain
  <1>3. NoUi.list \in [Rules -> {"absent", "active", "ended", "revoked"}]
    BY DEF NoUi
  <1> QED
    BY <1>1, <1>2, <1>3 DEF StoreRecord, UiRecord

\* Listing the rules.
LEMMA ReadEffects ==
    ASSUME OwnerTyped, NEW s \in Reads, Refresh(s) \/ Listed(s) \/ ListFails(s)
    PROVE  /\ UNCHANGED <<rule, purse, paid, store, task, tx>>
           /\ reads' \in [Reads -> ReadRecord] /\ \A q \in Reads \ {s} : reads'[q] = reads[q]
           /\ reads'[s].busy => reads'[s].epoch = ui.epoch /\ reads'[s].after = unheard /\ unheard' = unheard
           /\ ui' \in UiRecord /\ ui'.epoch = ui.epoch
           /\ unheard' \subseteq unheard
           /\ ui'.held = ui.held \/ (reads[s].busy /\ reads[s].epoch = ui.epoch /\ unheard' = unheard \ reads[s].after)
  <1>1. reads \in [Reads -> ReadRecord] /\ ui \in UiRecord /\ unheard \subseteq Tasks
    BY DEF OwnerTyped
  <1>2. CASE Refresh(s)
    <2>1. NewRead \in ReadRecord /\ NewRead.epoch = ui.epoch /\ NewRead.after = unheard
      BY <1>1 DEF NewRead, ReadRecord, UiRecord
    <2> QED
      BY <1>1, <1>2, <2>1 DEF Refresh, ownerChain
  <1>3. IdleRead \in ReadRecord /\ ~IdleRead.busy
    BY DEF IdleRead, ReadRecord
  <1>4. CASE ListFails(s)
    BY <1>1, <1>3, <1>4 DEF ListFails, ownerChain
  <1>5. CASE Listed(s)
    <2>1. PICK l, h : l = [r \in Rules |-> Seen(r)] /\ h = (ui.held /\ ~Releases(s))
      OBVIOUS
    <2>2. l \in [Rules -> {"absent", "active", "ended", "revoked"}] /\ h \in BOOLEAN
      BY <2>1 DEF Seen
    <2>3. ui' = [ui EXCEPT !.list = l, !.held = h]
      BY <1>1, <1>5, <2>1 DEF Listed, UiRecord
    <2>4. ui' \in UiRecord /\ ui'.epoch = ui.epoch /\ ui'.held = h
      BY <1>1, <2>2, <2>3 DEF UiRecord
    <2>5. h = ui.held \/ reads[s].epoch = ui.epoch
      BY <1>1, <2>1 DEF Releases, UiRecord
    <2>6. /\ reads' = [reads EXCEPT ![s] = IdleRead] /\ reads[s].busy
          /\ unheard' = unheard \ reads[s].after /\ UNCHANGED <<rule, purse, paid, store, task, tx>>
      BY <1>5 DEF Listed, ownerChain
    <2>7. reads' \in [Reads -> ReadRecord] /\ reads'[s] = IdleRead /\ \A q \in Reads \ {s} : reads'[q] = reads[q]
      BY <1>1, <1>3, <2>6
    <2> QED
      BY <1>3, <2>4, <2>5, <2>6, <2>7
  <1> QED
    BY <1>2, <1>4, <1>5

\* A tap that was not confirmed in time puts the hold on.
LEMMA PendingEffects ==
    ASSUME OwnerTyped, NEW t \in Tasks, Pending(t)
    PROVE  /\ ui' \in UiRecord /\ ui'.held = TRUE /\ ui'.epoch = ui.epoch + 1
           /\ unheard' = unheard \union {t} /\ reads' = reads
  <1>0. PICK n : n = ui.epoch + 1
    OBVIOUS
  <1>1. ui \in UiRecord /\ ui' = [ui EXCEPT !.held = TRUE, !.epoch = n] /\ n \in Nat
    BY <1>0 DEF OwnerTyped, Pending, UiRecord
  <1>2. unheard' = unheard \union {t} /\ reads' = reads
    BY DEF Pending
  <1> QED
    BY <1>0, <1>1, <1>2 DEF UiRecord

-----------------------------------------------------------------------------
(* The invariant                                                           *)

\* Every step keeps the types.
LEMMA TypedStep ==
    ASSUME OwnerInv, OwnerAppNext PROVE OwnerTyped'
  <1>0. OwnerTyped /\ TapsAreFixed /\ MoneyInv /\ store.secret # None
    BY DEF OwnerInv, KeysInv
  <1>1. ASSUME NEW r \in Busy, Charge(r) \/ Refuse(r) \/ Retry(r) \/ Expires(r) PROVE OwnerTyped'
    BY <1>0, <1>1, ChainEffects DEF OwnerTyped
  <1>2. ASSUME NEW s \in Reads, Refresh(s) \/ Listed(s) \/ ListFails(s) PROVE OwnerTyped'
    BY <1>0, <1>2, ReadEffects DEF OwnerTyped
  <1>3. CASE Connect
    BY <1>0, <1>3, ConnectEffects DEF OwnerTyped
  <1>4. CASE Disconnect
    BY <1>0, <1>4, DisconnectEffects DEF OwnerTyped
  <1>5. CASE Crash
    <2>1. store' \in StoreRecord
      BY <1>0, <1>5, CrashEffects DEF OwnerTyped, Remember, StoreRecord
    <2> QED
      BY <1>0, <1>5, <2>1, CrashEffects DEF OwnerTyped
  <1>6. ASSUME NEW t \in Tasks, TaskStep(t) PROVE OwnerTyped'
    <2>1. TapEffect(t)
      BY <1>0, <1>6, TapEffects
    <2>2. ui' \in UiRecord /\ unheard' \subseteq Tasks
      BY <1>0, <2>1, PendingEffects DEF TapEffect, OwnerTyped
    <2> QED
      BY <1>0, <2>1, <2>2 DEF TapEffect, OwnerTyped
  <1>7. ASSUME NEW t \in Tasks, Land(t) PROVE OwnerTyped'
    BY <1>0, <1>7, LandEffects DEF OwnerTyped
  <1>8. ASSUME NEW t \in Tasks, Bounce(t) \/ Drop(t) PROVE OwnerTyped'
    BY <1>0, <1>8 DEF OwnerTyped, Bounce, Drop, ownerChain
  <1>9. ASSUME NEW t \in Tasks, NEW r \in Rules, Tap(t, r) PROVE OwnerTyped'
    BY <1>0, <1>9, TapBegins DEF OwnerTyped
  <1> QED
    BY <1>1, <1>2, <1>3, <1>4, <1>5, <1>6, <1>7, <1>8, <1>9 DEF OwnerAppNext

\* Only the kind of a rule matters to what is fixed of a tap.
LEMMA FixedFrame ==
    ASSUME OwnerTyped, TapsAreFixed, \A r \in Rules : rule'[r].kind = rule[r].kind,
           task' = task, \A t \in Tasks : tx[t] = "none" <=> tx'[t] = "none"
    PROVE  TapsAreFixed'
  BY DEF TapsAreFixed, Front

\* Every step keeps what a tap has fixed.
LEMMA FixedStep ==
    ASSUME OwnerInv, OwnerAppNext PROVE TapsAreFixed'
  <1>0. OwnerTyped /\ TapsAreFixed /\ MoneyInv /\ store.secret # None
    BY DEF OwnerInv, KeysInv
  <1>1. ASSUME NEW r \in Busy, Charge(r) \/ Refuse(r) \/ Retry(r) \/ Expires(r) PROVE TapsAreFixed'
    BY <1>0, <1>1, ChainEffects, FixedFrame
  <1>2. ASSUME NEW s \in Reads, Refresh(s) \/ Listed(s) \/ ListFails(s) PROVE TapsAreFixed'
    BY <1>0, <1>2, ReadEffects, FixedFrame
  <1>3. CASE Connect \/ Disconnect
    BY <1>0, <1>3, ConnectEffects, DisconnectEffects, FixedFrame
  <1>5. CASE Crash
    BY <1>0, <1>5, CrashEffects DEF TapsAreFixed, Front
  <1>6. ASSUME NEW t \in Tasks, TaskStep(t) PROVE TapsAreFixed'
    <2>1. TapEffect(t)
      BY <1>0, <1>6, TapEffects
    <2>2. \A u, v \in Tasks : Front(u)' /\ Front(v)' => u = v
      BY <1>0, <2>1 DEF TapEffect, TapsAreFixed, Front
    <2>3. ASSUME NEW u \in Tasks
          PROVE  /\ task'[u].at = "idle" \/ Front(u)' => tx'[u] = "none"
                 /\ task'[u].at # "idle" => task'[u].rule \in Rules
                 /\ task'[u].at # "idle" /\ task'[u].op = "open" => rule'[task'[u].rule].kind # "associated"
                 /\ task'[u].op = "close" /\ (task'[u].at = "sign" \/ tx'[u] # "none") =>
                       /\ task'[u].sweep <=> rule'[task'[u].rule].kind # "associated"
                       /\ task'[u].sweep \/ task'[u].amount = 0
      <3>1. CASE u # t
        BY <1>0, <2>1, <3>1 DEF TapEffect, TapsAreFixed, Front
      <3>2. CASE u = t
        BY <1>0, <2>1, <3>2 DEF TapEffect, TapsAreFixed, Front
      <3> QED
        BY <3>1, <3>2
    <2> QED
      BY <2>2, <2>3 DEF TapsAreFixed
  <1>7. ASSUME NEW t \in Tasks, Land(t) PROVE TapsAreFixed'
    BY <1>0, <1>7, LandEffects, FixedFrame
  <1>8. ASSUME NEW t \in Tasks, Bounce(t) \/ Drop(t) PROVE TapsAreFixed'
    <2>1. \A u \in Tasks : tx[u] = "none" <=> tx'[u] = "none"
      BY <1>0, <1>8 DEF OwnerTyped, Bounce, Drop
    <2>2. task' = task /\ rule' = rule
      BY <1>8 DEF Bounce, Drop, ownerChain
    <2> QED
      BY <1>0, <2>1, <2>2, FixedFrame
  <1>9. ASSUME NEW t \in Tasks, NEW r \in Rules, Tap(t, r) PROVE TapsAreFixed'
    BY <1>0, <1>9, TapBegins DEF TapsAreFixed, Front
  <1> QED
    BY <1>1, <1>2, <1>3, <1>5, <1>6, <1>7, <1>8, <1>9 DEF OwnerAppNext

\* The hold depends on the hooks, the refreshes and the unheard transactions only.
LEMMA HeldFrame ==
    ASSUME HeldInv, ui'.held = ui.held, ui'.epoch = ui.epoch, reads' = reads, unheard' = unheard
    PROVE  HeldInv'
  BY DEF HeldInv

\* A transaction that is not heard of puts the hold on, and only a refresh that started after
\* it lifts it.
LEMMA HeldStep ==
    ASSUME OwnerInv, OwnerAppNext PROVE HeldInv'
  <1>0. OwnerTyped /\ TapsAreFixed /\ MoneyInv /\ HeldInv /\ store.secret # None
    BY DEF OwnerInv, KeysInv
  <1>1. ASSUME NEW r \in Busy, Charge(r) \/ Refuse(r) \/ Retry(r) \/ Expires(r) PROVE HeldInv'
    BY <1>0, <1>1, ChainEffects, HeldFrame
  <1>2. ASSUME NEW s \in Reads, Refresh(s) \/ Listed(s) \/ ListFails(s) PROVE HeldInv'
    <2>1. ui.epoch \in Nat
      BY <1>0 DEF OwnerTyped, UiRecord
    <2>2. /\ reads' \in [Reads -> ReadRecord] /\ \A q \in Reads \ {s} : reads'[q] = reads[q]
          /\ reads'[s].busy => reads'[s].epoch = ui.epoch /\ reads'[s].after = unheard /\ unheard' = unheard
          /\ ui'.epoch = ui.epoch /\ unheard' \subseteq unheard
          /\ ui'.held = ui.held \/ (reads[s].busy /\ reads[s].epoch = ui.epoch /\ unheard' = unheard \ reads[s].after)
      BY <1>0, <1>2, ReadEffects
    <2>3. unheard' # {} => ui'.held
      BY <1>0, <2>2 DEF HeldInv
    <2>4. ASSUME NEW q \in Reads, reads'[q].busy
          PROVE  reads'[q].epoch <= ui'.epoch /\ (reads'[q].epoch = ui'.epoch => unheard' \subseteq reads'[q].after)
      BY <1>0, <2>1, <2>2, <2>4 DEF HeldInv
    <2> QED
      BY <2>3, <2>4 DEF HeldInv
  <1>3. CASE Connect \/ Disconnect
    BY <1>0, <1>3, ConnectEffects, DisconnectEffects, HeldFrame
  <1>5. CASE Crash
    BY <1>0, <1>5, CrashEffects DEF HeldInv
  <1>6. ASSUME NEW t \in Tasks, TaskStep(t) PROVE HeldInv'
    <2>1. TapEffect(t)
      BY <1>0, <1>6, TapEffects
    <2>2. CASE Pending(t)
      <3>1. ui.epoch \in Nat /\ \A s \in Reads : reads[s].epoch \in Nat
        BY <1>0 DEF OwnerTyped, UiRecord, ReadRecord
      <3> QED
        <4>1. ui'.held = TRUE /\ ui'.epoch = ui.epoch + 1 /\ reads' = reads
          BY <1>0, <2>2, PendingEffects
        <4>2. \A s \in Reads : reads[s].busy => reads[s].epoch <= ui.epoch
          BY <1>0 DEF HeldInv
        <4> QED
          BY <3>1, <4>1, <4>2 DEF HeldInv
    <2>3. CASE ui' = ui /\ unheard' = unheard
      BY <1>0, <2>1, <2>3, HeldFrame DEF TapEffect
    <2> QED
      BY <2>1, <2>2, <2>3 DEF TapEffect
  <1>7. ASSUME NEW t \in Tasks, Land(t) PROVE HeldInv'
    BY <1>0, <1>7, HeldFrame DEF Land
  <1>8. ASSUME NEW t \in Tasks, Bounce(t) \/ Drop(t) PROVE HeldInv'
    BY <1>0, <1>8, HeldFrame DEF Bounce, Drop
  <1>9. ASSUME NEW t \in Tasks, NEW r \in Rules, Tap(t, r) PROVE HeldInv'
    BY <1>0, <1>9, TapBegins, HeldFrame
  <1> QED
    BY <1>1, <1>2, <1>3, <1>5, <1>6, <1>7, <1>8, <1>9 DEF OwnerAppNext

\* The keys depend on the store and on the keys of the rules and the taps only.
LEMMA KeysFrame ==
    ASSUME KeysInv, \A r \in Rules : rule'[r].agent = rule[r].agent, store' = store,
           \A t \in Tasks : task'[t].key = task[t].key /\ (task'[t].at = "remember" <=> task[t].at = "remember")
    PROVE  KeysInv'
  BY DEF KeysInv, KeysMade

\* The current key goes into the map.
LEMMA KeysRemembered ==
    ASSUME KeysInv, \A r \in Rules : rule'[r].agent = rule[r].agent,
           store'.secret = store.secret, store'.agents = store.agents \union {store.secret},
           \A t \in Tasks : task'[t].key = task[t].key /\ (task'[t].at = "remember" => task[t].at = "remember")
    PROVE  KeysInv'
  BY DEF KeysInv, KeysMade

\* The next key follows the current one.
LEMMA NextKeyFollows ==
    ASSUME OwnerTyped, KeysInv PROVE NextKey(store) = store.secret + 1
  <1>1. store.secret \in Nat \ {0}
    BY DEF OwnerTyped, StoreRecord, KeysInv, None
  <1>2. {store.secret} \union store.agents = 1 .. store.secret
    BY DEF KeysInv, KeysMade
  <1>3. Max(1 .. store.secret) = store.secret
    <2> DEFINE S == 1 .. store.secret
    <2>1. IsFiniteSet(S) /\ S # {} /\ S \subseteq Int
      <3>1. 1 \in Int /\ store.secret \in Int /\ store.secret \in 1 .. store.secret
        BY <1>1
      <3>2. IsFiniteSet(1 .. store.secret)
        BY <3>1, FS_Interval
      <3> QED
        BY <3>1, <3>2
    <2>2. Max(S) \in S /\ \A y \in S : y <= Max(S)
      <3> HIDE DEF S
      <3> QED BY <2>1, Greatest
    <2> QED
      BY <1>1, <2>2
  <1> QED
    BY <1>2, <1>3 DEF NextKey

\* A key is made by WriteSecret, and is in the map before its rule is signed; a crash between
\* the two writes leaves it the current one.
LEMMA KeysStep ==
    ASSUME OwnerInv, OwnerAppNext PROVE KeysInv'
  <1>0. OwnerTyped /\ TapsAreFixed /\ MoneyInv /\ KeysInv /\ store.secret # None
    BY DEF OwnerInv, KeysInv
  <1>1. ASSUME NEW r \in Busy, Charge(r) \/ Refuse(r) \/ Retry(r) \/ Expires(r) PROVE KeysInv'
    BY <1>0, <1>1, ChainEffects, KeysFrame
  <1>2. ASSUME NEW s \in Reads, Refresh(s) \/ Listed(s) \/ ListFails(s) PROVE KeysInv'
    BY <1>0, <1>2, ReadEffects, KeysFrame
  <1>3. CASE Connect
    BY <1>0, <1>3, ConnectEffects, KeysRemembered
  <1>4. CASE Disconnect
    BY <1>0, <1>4, DisconnectEffects DEF KeysInv, KeysMade
  <1>5. CASE Crash
    <2>1. store'.secret = store.secret /\ store'.agents = store.agents \union {store.secret}
      BY <1>0, <1>5, CrashEffects DEF OwnerTyped, Remember, StoreRecord
    <2> QED
      BY <1>0, <1>5, <2>1, CrashEffects, KeysRemembered
  <1>6. ASSUME NEW t \in Tasks, TaskStep(t) PROVE KeysInv'
    <2>1. TapEffect(t)
      BY <1>0, <1>6, TapEffects
    <2>2. CASE KeysAlone(t)
      BY <1>0, <2>1, <2>2 DEF TapEffect, KeysAlone, KeysInv, KeysMade
    <2>3. CASE GivenKey(t)
      <3>1. task'[t].key = AgentOwn /\ task'[t].at = "build" /\ task[t].at = "key" /\ store' = store
        BY <1>0, <2>3 DEF GivenKey, OwnerTyped, TaskRecord
      <3> QED
        BY <1>0, <2>1, <3>1 DEF TapEffect, KeysInv, KeysMade
    <2>4. CASE WriteSecret(t)
      <3>1. store.secret \in Nat \ {0} /\ store.agents \subseteq Nat
        BY <1>0 DEF OwnerTyped, StoreRecord, None
      <3>2. PICK k : k = store.secret + 1
        OBVIOUS
      <3>3. /\ task[t].at = "key" /\ task'[t].key = k /\ task'[t].at = "remember"
            /\ store'.secret = k /\ store'.agents = store.agents
        BY <1>0, <2>4, <3>2, NextKeyFollows DEF WriteSecret, OwnerTyped, TaskRecord, StoreRecord
      <3>4. \A u \in Tasks : task[u].at # "remember"
        BY <1>0, <3>3 DEF TapsAreFixed, Front
      <3>5. KeysMade = 1 .. store.secret /\ store.secret \in store.agents /\ KeysMade = store.agents
        BY <1>0, <3>4 DEF KeysInv, KeysMade
      <3>6. KeysMade' = 1 .. k /\ KeysMade \subseteq KeysMade' /\ k # None
        BY <3>1, <3>2, <3>3, <3>5 DEF KeysMade, None
      <3>7. \A u \in Tasks \ {t} : task'[u] = task[u]
        BY <2>1 DEF TapEffect
      <3>8. \A u \in Tasks : task'[u].key \in {None, AgentOwn} \union KeysMade'
        BY <1>0, <3>3, <3>6, <3>7 DEF KeysInv, KeysMade
      <3>9. \A u \in Tasks : task'[u].at = "remember" => task'[u].key = store'.secret
        BY <3>3, <3>4, <3>7
      <3>10. \A r \in Rules : rule'[r].agent \in {None, AgentOwn} \union KeysMade'
        BY <1>0, <2>1, <3>6 DEF KeysInv, TapEffect
      <3> QED
        BY <3>3, <3>6, <3>8, <3>9, <3>10 DEF KeysInv
    <2>5. CASE WriteAgents(t)
      <3>1. /\ task[t].at = "remember" /\ task'[t].key = task[t].key /\ task'[t].at = "build"
            /\ store'.secret = store.secret /\ store'.agents = store.agents \union {task[t].key}
        BY <1>0, <2>5 DEF WriteAgents, Remember, To, OwnerTyped, TaskRecord, StoreRecord
      <3>2. task[t].key = store.secret
        BY <1>0, <3>1 DEF KeysInv
      <3>3. \A u \in Tasks : task'[u].key = task[u].key /\ (task'[u].at = "remember" => task[u].at = "remember")
        BY <2>1, <3>1 DEF TapEffect
      <3> QED
        BY <1>0, <2>1, <3>1, <3>2, <3>3, KeysRemembered DEF TapEffect
    <2> QED
      BY <2>1, <2>2, <2>3, <2>4, <2>5 DEF TapEffect
  <1>7. ASSUME NEW t \in Tasks, Land(t) PROVE KeysInv'
    <2>1. PICK r : r = task[t].rule
      OBVIOUS
    <2>2. /\ r \in Rules /\ store' = store /\ task' = task /\ \A q \in Rules \ {r} : rule'[q] = rule[q]
          /\ rule'[r].agent \in {rule[r].agent, task[t].key}
      BY <1>0, <1>7, <2>1, LandEffects
    <2> QED
      BY <1>0, <2>2 DEF KeysInv, KeysMade
  <1>8. ASSUME NEW t \in Tasks, Bounce(t) \/ Drop(t) PROVE KeysInv'
    BY <1>0, <1>8, KeysFrame DEF Bounce, Drop, ownerChain
  <1>9. ASSUME NEW t \in Tasks, NEW r \in Rules, Tap(t, r) PROVE KeysInv'
    <2>1. \A u \in Tasks : task'[u].key = task[u].key /\ (task'[u].at = "remember" <=> task[u].at = "remember")
      BY <1>0, <1>9, TapBegins
    <2> QED
      BY <1>0, <1>9, <2>1, TapBegins, KeysFrame
  <1> QED
    BY <1>1, <1>2, <1>3, <1>4, <1>5, <1>6, <1>7, <1>8, <1>9 DEF OwnerAppNext

\* The sum NothingStranded writes is the total of the accounts.
LEMMA AccountsAdded ==
    ASSUME OwnerTyped PROVE MapThenSumSet(LAMBDA r : rule[r].acct, Rules) = Total(Accounts, Rules)
  <1> DEFINE body(g) == [s \in SUBSET Rules |->
                            IF s = {} THEN 0 ELSE rule[Picked(s)].acct + g[s \ {Picked(s)}]]
  <1>1. ASSUME NEW g PROVE TotalsOver(Accounts, Rules, g) = body(g)
    BY PickedIn DEF TotalsOver, Accounts
  <1>2. Totals(Accounts, Rules) = CHOOSE g : g = body(g)
    BY <1>1 DEF Totals, Solves
  <1>3. Total(Accounts, Rules) = Totals(Accounts, Rules)[Rules]
    BY OwnerAppAssumption, TotalIsSolved
  <1> QED
    BY <1>2, <1>3 DEF MapThenSumSet, MapThenFoldSet, Picked

\* One rule's account changes, and the purse and the paid by as much.
LEMMA MoneyMoves ==
    ASSUME OwnerTyped, OwnerTyped', MoneyInv, NEW r \in Rules,
           \A q \in Rules \ {r} : rule'[q] = rule[q], rule'[r].kind = rule[r].kind,
           purse' + paid' + rule'[r].acct = purse + paid + rule[r].acct,
           rule'[r].status \in {"none", "closed"} \/ rule'[r].kind = "associated" => rule'[r].acct = 0
    PROVE  MoneyInv'
  <1>1. /\ IsFiniteSet(Rules) /\ purse \in Nat /\ paid \in Nat /\ purse' \in Nat /\ paid' \in Nat
        /\ \A q \in Rules : rule[q].acct \in Nat /\ rule'[q].acct \in Nat
    BY OwnerAppAssumption DEF OwnerTyped, RuleRecord
  <1>2. PICK f, g : f = Accounts /\ g = Accounts'
    OBVIOUS
  <1>3. \A q \in Rules : f[q] = rule[q].acct /\ g[q] = rule'[q].acct
    BY <1>2 DEF Accounts
  <1>4. /\ \A q \in Rules : f[q] \in Int /\ g[q] \in Int
        /\ \A q \in Rules : q # r => f[q] = g[q]
    BY <1>1, <1>3
  <1>5. Total(g, Rules) = Total(f, Rules) - f[r] + g[r] /\ Total(f, Rules) \in Int
    BY <1>1, <1>4, TotalChanged, TotalInt
  <1>6. {q \in Standing : rule'[q].kind # "associated"} = {q \in Standing : rule[q].kind # "associated"}
    BY OwnerAppAssumption
  <1>7. PICK n : n = CAP + CAP * Cardinality({q \in Standing : rule[q].kind # "associated"})
    OBVIOUS
  <1>8. purse + paid + Total(f, Rules) = n
    BY <1>2, <1>7 DEF MoneyInv
  <1>9. purse' + paid' + Total(g, Rules) = n
    BY <1>1, <1>3, <1>5, <1>8
  <1> QED
    BY <1>2, <1>6, <1>7, <1>9 DEF MoneyInv

\* The money depends on the purse, what was paid and the rules only.
LEMMA MoneyFrame ==
    ASSUME MoneyInv, rule' = rule, purse' = purse, paid' = paid PROVE MoneyInv'
  BY DEF MoneyInv, Accounts

\* Opening, paying and closing move money and lose none.
LEMMA MoneyStep ==
    ASSUME OwnerInv, OwnerAppNext PROVE MoneyInv'
  <1>0. OwnerTyped /\ TapsAreFixed /\ MoneyInv /\ KeysInv /\ store.secret # None /\ OwnerTyped'
    BY TypedStep DEF OwnerInv, KeysInv
  <1>1. ASSUME NEW r \in Busy, Charge(r) \/ Refuse(r) \/ Retry(r) \/ Expires(r) PROVE MoneyInv'
    <2>1. /\ r \in Rules /\ \A q \in Rules \ {r} : rule'[q] = rule[q]
          /\ rule'[r].kind = rule[r].kind
          /\ purse' + paid' + rule'[r].acct = purse + paid + rule[r].acct
          /\ rule[r].acct # rule'[r].acct => rule[r].kind # "associated"
          /\ rule'[r].status \in {"none", "closed"} =>
                 rule'[r].status = rule[r].status /\ rule'[r].acct = rule[r].acct
      BY <1>0, <1>1, ChainEffects
    <2>2. rule'[r].status \in {"none", "closed"} \/ rule'[r].kind = "associated" => rule'[r].acct = 0
      BY <1>0, <2>1 DEF MoneyInv
    <2> QED
      BY <1>0, <2>1, <2>2, MoneyMoves
  <1>2. ASSUME NEW s \in Reads, Refresh(s) \/ Listed(s) \/ ListFails(s) PROVE MoneyInv'
    BY <1>0, <1>2, ReadEffects, MoneyFrame
  <1>3. CASE Connect \/ Disconnect \/ Crash
    BY <1>0, <1>3, ConnectEffects, DisconnectEffects, CrashEffects, MoneyFrame
  <1>6. ASSUME NEW t \in Tasks, TaskStep(t) PROVE MoneyInv'
    BY <1>0, <1>6, TapEffects, MoneyFrame DEF TapEffect
  <1>7. ASSUME NEW t \in Tasks, Land(t) PROVE MoneyInv'
    <2>1. PICK r : r = task[t].rule
      OBVIOUS
    <2>2. /\ r \in Rules /\ paid' = paid /\ \A q \in Rules \ {r} : rule'[q] = rule[q]
          /\ rule'[r].kind = rule[r].kind /\ purse' + rule'[r].acct = purse + rule[r].acct
          /\ rule'[r].status \in {"none", "closed"} \/ rule'[r].kind = "associated" => rule'[r].acct = 0
      BY <1>0, <1>7, <2>1, LandEffects
    <2>3. /\ purse \in Nat /\ paid \in Nat /\ purse' \in Nat /\ paid' \in Nat
          /\ rule[r].acct \in Nat /\ rule'[r].acct \in Nat
      BY <1>0, <2>2 DEF OwnerTyped, RuleRecord
    <2>4. purse' + paid' + rule'[r].acct = purse + paid + rule[r].acct
      BY <2>2, <2>3
    <2> QED
      BY <1>0, <2>2, <2>4, MoneyMoves
  <1>8. ASSUME NEW t \in Tasks, Bounce(t) \/ Drop(t) PROVE MoneyInv'
    BY <1>0, <1>8, MoneyFrame DEF Bounce, Drop, ownerChain
  <1>9. ASSUME NEW t \in Tasks, NEW r \in Rules, Tap(t, r) PROVE MoneyInv'
    BY <1>0, <1>9, TapBegins, MoneyFrame
  <1> QED
    BY <1>1, <1>2, <1>3, <1>6, <1>7, <1>8, <1>9 DEF OwnerAppNext

\* Every initial state of every story satisfies the invariant.
LEMMA OwnerInitial ==
    ASSUME OwnerAppInit PROVE OwnerInv
  <1>1. PICK story \in Stories :
             /\ rule = [r \in Rules |-> Standard(r, story.kind[r])]
             /\ task = [t \in Tasks |-> [NoTask EXCEPT !.op = story.ops[t]]]
    BY DEF OwnerAppInit
  <1>2. /\ story.kind \in [Rules -> {"dedicated", "associated", "trade"}]
        /\ story.ops \in [Tasks -> {"open", "revoke", "close", "grant"}]
        /\ CAP \in Nat /\ AgentOwn \in Nat /\ Standing \subseteq Rules /\ IsFiniteSet(Rules)
    BY OwnerAppAssumption
  <1>3. ASSUME NEW r \in Rules
        PROVE  /\ rule[r] \in RuleRecord /\ rule[r].kind = story.kind[r]
               /\ rule[r].agent \in {None, AgentOwn}
               /\ rule[r].acct = IF r \in Standing /\ rule[r].kind # "associated" THEN CAP ELSE 0
               /\ rule[r].status \in {"none", "closed"} => r \notin Standing
    <2>1. rule[r] = Standard(r, story.kind[r])
      BY <1>1
    <2>k. PICK k, a : k = story.kind[r] /\ a = (IF story.kind[r] = "associated" THEN 0 ELSE CAP)
      OBVIOUS
    <2>a. k \in {"dedicated", "associated", "trade"} /\ a \in Nat
      BY <1>2, <2>k
    <2>2. CASE r \in Standing
      <3>1. rule[r] = [kind |-> k, status |-> "active", expired |-> FALSE, left |-> CAP, acct |-> a,
                       agent |-> AgentOwn, refused |-> FALSE, granted |-> FALSE, settled |-> FALSE]
        BY <2>1, <2>k, <2>2 DEF Standard, NoRule
      <3> QED
        BY <1>2, <2>k, <2>a, <2>2, <3>1 DEF RuleRecord
    <2>3. CASE r \notin Standing
      <3>1. rule[r] = [kind |-> k, status |-> "none", expired |-> FALSE, left |-> 0, acct |-> 0,
                       agent |-> None, refused |-> FALSE, granted |-> FALSE, settled |-> FALSE]
        BY <2>1, <2>k, <2>3 DEF Standard, NoRule
      <3> QED
        BY <2>k, <2>a, <2>3, <3>1 DEF RuleRecord, None
    <2> QED
      BY <2>2, <2>3
  <1>4. ASSUME NEW t \in Tasks
        PROVE  task[t] \in TaskRecord /\ task[t].at = "idle" /\ task[t].key = None
    BY <1>1, <1>2 DEF NoTask, TaskRecord, Steps, None
  <1>5. store \in StoreRecord /\ store.secret = 1 /\ store.agents = {1}
    <2>1. NextKey(NoStore) = 1
      <3>1. {NoStore.secret} \union NoStore.agents = {0}
        BY DEF NoStore, None
      <3>2. IsFiniteSet({0}) /\ {0} # {} /\ {0} \subseteq Int
        <4>1. IsFiniteSet({0})
          BY FS_Singleton, Zenon
        <4> QED
          BY <4>1
      <3>3. Max({0}) \in {0}
        BY <3>2, Greatest
      <3> QED
        BY <3>1, <3>3 DEF NextKey
    <2>2. store = Remember([NoStore EXCEPT !.secret = 1], 1)
      BY <2>1 DEF OwnerAppInit, LoadOrCreateAgent, NoStore
    <2>3. store = [session |-> "none", secret |-> 1, agents |-> {1}]
      BY <2>2 DEF Remember, NoStore
    <2> QED
      BY <2>3 DEF StoreRecord
  <1>6. /\ purse = CAP /\ paid = 0 /\ ui = NoUi /\ reads = [s \in Reads |-> IdleRead]
        /\ tx = [t \in Tasks |-> "none"] /\ unheard = {}
    BY DEF OwnerAppInit
  <1>7. OwnerTyped
    <2>1. rule \in [Rules -> RuleRecord]
      BY <1>1, <1>3
    <2>2. task \in [Tasks -> TaskRecord]
      BY <1>1, <1>4
    <2>3. ui \in UiRecord /\ reads \in [Reads -> ReadRecord]
      BY <1>6 DEF NoUi, UiRecord, IdleRead, ReadRecord
    <2> QED
      BY <1>2, <1>5, <1>6, <2>1, <2>2, <2>3 DEF OwnerTyped
  <1>8. TapsAreFixed
    BY <1>4, <1>6 DEF TapsAreFixed, Front
  <1>9. KeysInv
    <2>1. KeysMade = 1 .. 1
      BY <1>5 DEF KeysMade
    <2> QED
      BY <1>3, <1>4, <1>5, <2>1 DEF KeysInv, None
  <1>10. MoneyInv
    <2>1. PICK f, S : f = Accounts /\ S = {r \in Standing : rule[r].kind # "associated"}
      OBVIOUS
    <2>2. \A r \in Rules : f[r] = IF r \in S THEN CAP ELSE 0
      BY <1>3, <2>1 DEF Accounts
    <2>3. S \subseteq Rules /\ IsFiniteSet(S)
      BY <1>2, <2>1, FS_Subset
    <2>4. Total(f, S) = Total(f, Rules)
      BY <1>2, <2>2, <2>3, TotalZeros
    <2>5. Total(f, S) = CAP * Cardinality(S)
      BY <1>2, <2>2, <2>3, TotalConstant
    <2>6. purse + paid + Total(f, Rules) = CAP + CAP * Cardinality(S)
      <3>1. Total(f, Rules) \in Int
        BY <1>2, <2>2, TotalInt
      <3> QED
        BY <1>2, <1>6, <2>4, <2>5, <3>1
    <2>7. \A r \in Rules : rule[r].status \in {"none", "closed"} \/ rule[r].kind = "associated" => rule[r].acct = 0
      BY <1>3
    <2> QED
      BY <2>1, <2>6, <2>7 DEF MoneyInv
  <1>11. HeldInv
    BY <1>6 DEF HeldInv, IdleRead
  <1> QED
    BY <1>7, <1>8, <1>9, <1>10, <1>11 DEF OwnerInv

\* So does a step that changes nothing.
LEMMA OwnerStutters ==
    ASSUME OwnerInv, UNCHANGED ownerAppVars PROVE OwnerInv'
  BY DEF OwnerInv, ownerAppVars, OwnerTyped, TapsAreFixed, Front, KeysInv, KeysMade, MoneyInv, Accounts, HeldInv

\* OwnerInv is inductive, whatever the agents, the wallet, the network and the crashes do.
THEOREM OwnerInvariant == OwnerAppSpec => []OwnerInv
  <1>1. OwnerAppInit => OwnerInv
    BY OwnerInitial
  <1>2. OwnerInv /\ [OwnerAppNext]_ownerAppVars => OwnerInv'
    BY TypedStep, FixedStep, KeysStep, MoneyStep, HeldStep, OwnerStutters DEF OwnerInv
  <1> QED
    BY <1>1, <1>2, PTL DEF OwnerAppSpec

\* What the invariant says of the keys and of the money.
LEMMA InvLosesNothing == ASSUME OwnerInv PROVE NothingIsLost
  <1>1. OwnerTyped /\ KeysInv /\ MoneyInv
    BY DEF OwnerInv
  <1>2. store.secret \in Nat \ {0} /\ KeysMade = 1 .. store.secret
    BY <1>1 DEF OwnerTyped, StoreRecord, KeysInv, None
  <1>3. KeysAreKept
    <2>1. Cardinality(KeysMade \ {None}) = store.secret
      <3>1. KeysMade \ {None} = 1 .. store.secret
        BY <1>2 DEF None
      <3>2. 1 \in Int /\ store.secret \in Int /\ ~(1 > store.secret) /\ store.secret - 1 + 1 = store.secret
        BY <1>2
      <3>3. Cardinality(1 .. store.secret) = store.secret
        BY <3>2, FS_Interval
      <3> QED
        BY <3>1, <3>3
    <2>2. Max(KeysMade) = store.secret
      <3>1. 1 \in Int /\ store.secret \in Int /\ store.secret \in KeysMade /\ KeysMade \subseteq Int
        BY <1>2
      <3>2. IsFiniteSet(KeysMade)
        BY <1>2, <3>1, FS_Interval
      <3>3. Max(KeysMade) \in KeysMade /\ \A y \in KeysMade : y <= Max(KeysMade)
        BY <3>1, <3>2, Greatest
      <3> QED
        BY <1>2, <3>1, <3>3
    <2>3. None \notin Keys /\ AgentOwn \notin Keys
      BY OwnerAppAssumption, KeysAreNumbers DEF None
    <2>4. \A r \in Rules : rule[r].agent \in Keys => rule[r].agent \in KeysMade
      BY <1>1, <2>3 DEF KeysInv
    <2>5. \A t \in Tasks : task[t].key \in Keys => task[t].key \in KeysMade
      BY <1>1, <2>3 DEF KeysInv
    <2> QED
      BY <2>1, <2>2, <2>4, <2>5 DEF KeysAreKept, KeysMade
  <1>4. NothingStranded
    BY <1>1, AccountsAdded DEF MoneyInv, NothingStranded
  <1> QED
    BY <1>3, <1>4 DEF NothingIsLost

\* NothingIsLost: after any crash every key that a rule was opened for is still in the store
\* (persistAgent), a closed rule has left nothing in its account (closeMandate,
\* closeTradeRule), and the accounts, the purse and what was paid add up.
THEOREM LosesNothing == OwnerAppSpec => []NothingIsLost
  BY OwnerInvariant, InvLosesNothing, PTL

\* A tap goes past the gate of the hooks only when nothing is unheard.
LEMMA ResendsAfterHearing ==
    ASSUME OwnerInv, [OwnerAppNext]_ownerAppVars,
           NEW t \in Tasks, task[t].at = "call", task'[t].at \in {"key", "build"}
    PROVE  unheard = {}
  <1>1. OwnerTyped /\ TapsAreFixed /\ HeldInv /\ MoneyInv /\ store.secret # None
    BY DEF OwnerInv, KeysInv
  <1>2. SUFFICES ~ui.held
    BY <1>1 DEF HeldInv
  <1>3. task' # task
    OBVIOUS
  <1>4. ~Crash
    BY <1>1, CrashEffects
  <1>5. PICK u \in Tasks : TaskStep(u) \/ \E r \in Rules : Tap(u, r)
    BY <1>1, <1>3, <1>4, ChainEffects, ReadEffects, ConnectEffects, DisconnectEffects
       DEF OwnerAppNext, ownerAppVars, Land, Bounce, Drop
  <1>6. CASE \E r \in Rules : Tap(u, r)
    BY <1>1, <1>6, TapBegins
  <1>7. CASE TaskStep(u)
    <2>1. u = t
      BY <1>1, <1>7, TapEffects DEF TapEffect
    <2>2. CallOpen(t) \/ CallRevoke(t) \/ CallClose(t) \/ CallGrant(t) \/ GiveUp(t)
      BY <1>7, <2>1 DEF TaskStep, Heard, Gate, GivenKey, WriteSecret, WriteAgents, Build, StaleToken, Sign,
         SessionCloses, Decline, WalletConfirms, WatchConfirms, Refused, Pending, ReadBack
    <2>3. ~GiveUp(t)
      BY <1>1 DEF GiveUp, End, To, OwnerTyped, TaskRecord
    <2> QED
      BY <2>2, <2>3 DEF CallOpen, CallRevoke, CallClose, CallGrant
  <1> QED
    BY <1>5, <1>6, <1>7

\* NoBlindResend: while the fate of a transaction is not known no other is built
\* (submitHeldRef of useChain).
THEOREM NothingIsResentBlindly == OwnerAppSpec => NoBlindResend
  <1>1. OwnerInv /\ [OwnerAppNext]_ownerAppVars
           => (\A t \in Tasks : task[t].at = "call" /\ task'[t].at \in {"key", "build"} => unheard = {})
    BY ResendsAfterHearing
  <1> QED
    BY <1>1, OwnerInvariant, PTL DEF OwnerAppSpec, NoBlindResend

-----------------------------------------------------------------------------
(* The Hold screens: the parts of their invariant                          *)

\* What the rows, the forms, the calls and the transactions are made of.
Dests == HoldDests \union {"none"}

Texts == {"", "second", "other", "owner", "cold"}

Screens ==
    {"home", "send", "held", "alerts", "frozen", "skip", "thaw", "amount", "rules", "guardian",
     "live", "none"}

TxKinds == {"withdraw", "stop", "freeze", "recover", "skip", "thaw", "open"}

Kinds == TxKinds \union {"none", "finish"}

Outcomes == {"none", "at_once", "held", "refused"}

RowRecord == [id : Nat, dest : Dests]

VaultRecord ==
    [rows : [1 .. HoldSlots -> RowRecord], next : Nat, frozen : BOOLEAN, funded : BOOLEAN,
     guardian : BOOLEAN, armed : BOOLEAN, change : BOOLEAN, known : SUBSET Dests]

ScreenRecord ==
    [name : Screens, id : Nat, bundle : VaultRecord \union {NoBundle},
     status : {"loading", "ready", "error"}]

TermsRecord == [guardian : Texts, safe : Texts, rules : {"everyday", "strict"}, amount : Nat]

PressRecord ==
    [kind : Kinds, id : Nat, dest : Dests, before : SUBSET Nat, outcome : Outcomes,
     terms : Seq(TermsRecord), from : Screens, both : BOOLEAN]

LandedRecord == [ok : BOOLEAN, kind : TxKinds, held : BOOLEAN, id : Nat]

CallRecord ==
    [press : PressRecord, phase : {"none", "wallet", "sent", "reread"}, n : Nat,
     landed : SUBSET LandedRecord]

TxRecord ==
    [n : Nat, kind : TxKinds, id : Nat, dest : Dests, keys : SUBSET {"owner", "guardian"},
     terms : Seq(TermsRecord)]

DraftRecord ==
    [amount : Nat, rules : {"everyday", "strict"}, mode : {"phone", "seeker"}, guardian : Texts,
     safe : Texts, touched : BOOLEAN, phoneKey : Texts]

ReportRecord == [kind : Kinds, id : Nat, done : BOOLEAN]

PastRecord == [presses : Nat, newId : Nat, reported : SUBSET ReportRecord]

\* A press that makes a request for the other key is one that needs it.
Fits(p) == p \in PressRecord /\ (p.both => p.kind \in {"skip", "thaw"})

\* Every variable the properties depend on has its type.
VaultTyped == hvault \in VaultRecord /\ hscreen \in ScreenRecord

\* The forms.
FormsTyped ==
    /\ hdest \in Dests /\ hpreview \in [outcome : Outcomes, dest : Dests]
    /\ hresolve.dest \in Dests
    /\ draft \in DraftRecord /\ IsFiniteSet(hvaults)

\* The presses, the calls and the transactions.
SignsTyped ==
    /\ Fits(hpress)
    /\ hcall \in CallRecord /\ Fits(hcall.press)
    /\ hcall.phase = "sent" => hcall.press.kind \notin {"none", "skip"}
    /\ hflying \subseteq TxRecord /\ request \subseteq TxRecord
    /\ hpast \in PastRecord

\* All of them.
PhoneTyped == VaultTyped /\ FormsTyped /\ SignsTyped

\* Identifiers the vault has given out.
Below(v, ids) == \A id \in ids : id < v.next

\* An identifier that was given out and waits no more.
Gone(v, id) == id < v.next /\ id \notin RowIds(v)

\* Every identifier the phone has read is one the vault has given out.
IdsPart ==
    /\ Below(hvault, RowIds(hvault)) /\ Below(hvault, RowIds(hscreen.bundle))
    /\ Below(hvault, hpress.before) /\ Below(hvault, hcall.press.before)

\* One press at a time is worked on, every transaction has the number of its press, and the
\* one of the press being worked on asks for what its button said.
Matches(x, p) ==
    /\ p.kind = "finish" \/ x.kind = p.kind
    /\ p.kind = "stop" => x.id = p.id
    /\ p.kind = "open" => x.id = hpast.newId /\ x.terms = p.terms

\* The numbers of the presses and of their transactions.
NumberPart ==
    /\ hcall = NoCall \/ (hcall.phase # "none" /\ hcall.n = hpast.presses /\ hpress = NoPress)
    /\ \A x \in hflying \union request : x.n <= hpast.presses
    /\ hcall # NoCall => \A x \in request : x.n < hcall.n
    /\ hcall.phase = "wallet" => hcall.landed = {} /\ \A x \in hflying : x.n < hcall.n
    /\ hcall.phase = "reread" => hcall.press.kind = "withdraw"
    /\ hcall.phase = "sent" => \A x \in hflying : x.n = hcall.n => Matches(x, hcall.press)

\* What landed of the press being worked on did what its button said.
Opened(p) == \E v \in hvaults : v.id = hpast.newId /\ v.terms = p.terms[1]

\* What a transaction of a press did.
Did(r, p) ==
    /\ p.kind = "finish" \/ r.kind = p.kind
    /\ r.ok /\ r.kind = "stop" => Gone(hvault, r.id)
    /\ p.kind = "stop" => r.id = p.id
    /\ r.held => r.id \notin p.before
    /\ r.ok /\ p.kind = "open" => Opened(p)

LandedPart == \A r \in hcall.landed : Did(r, hcall.press)

\* Every report is true, and stays true: a row that is gone has an identifier the vault has
\* given out, so it does not come back.
ReportPart == \A r \in hpast.reported : r.done /\ (r.kind = "stop" => Gone(hvault, r.id))

\* While a press that opens a vault is held or worked on the guardian screen stays as it is,
\* and the draft is what was under the finger.
OnGuardian(p) == hscreen.name = "guardian" /\ Ready(hscreen) /\ p.terms = <<TermsOf(draft)>>

\* The draft, the finger and the call agree, and so does the live screen.
DraftPart ==
    /\ ~draft.touched /\ draft.safe # "" => draft.safe = GuardianText(draft)
    /\ hscreen.name \in {"amount", "rules"} \/ (hscreen.name = "guardian" /\ hscreen.status = "loading") =>
          draft.mode = "seeker"
    /\ hpress.kind = "open" => OnGuardian(hpress)
    /\ hcall.press.kind = "open" => OnGuardian(hcall.press)
    /\ hcall.press.kind = "open" /\ hcall.phase = "sent" => GuardianText(draft) # ""
    /\ hscreen.name = "live" => hpress = NoPress /\ hcall = NoCall /\ LiveIsOnChain

\* The inductive invariant.
HoldPhoneInv == PhoneTyped /\ IdsPart /\ NumberPart /\ LandedPart /\ ReportPart /\ DraftPart

-----------------------------------------------------------------------------
(* The Hold screens: what the operators on a vault return                  *)

\* The destinations of the vault are destinations.
LEMMA KnownIsADest == KnownDest \in Dests /\ "none" \in Dests /\ HoldDests \subseteq Dests
  BY HoldPhoneAssumption DEF Dests

\* Some slots have a first one.
LEMMA FirstSlot ==
    ASSUME NEW S \in SUBSET (1 .. HoldSlots), S # {}
    PROVE  (CHOOSE i \in S : \A j \in S : i <= j) \in S
  <1>1. IsFiniteSet(1 .. HoldSlots)
    BY FS_Interval, HoldPhoneAssumption
  <1>2. IsFiniteSet(S)
    BY <1>1, FS_Subset
  <1>4. S \subseteq Int
    BY HoldPhoneAssumption
  <1>3. Min(S) \in S
    BY <1>2, <1>4, LeastOfSet
  <1> QED
    BY <1>3 DEF Min

\* A slot without a withdrawal.
LEMMA EmptyRow == NoRow \in RowRecord /\ NoRow.id = 0
  BY KnownIsADest DEF NoRow, RowRecord

\* A row on display is a row, and its identifier is one the vault has or none.
LEMMA ShownRowTyped ==
    ASSUME NEW s \in ScreenRecord
    PROVE  ShownRow(s) \in RowRecord
  <1> DEFINE b == s.bundle
             X == WithId(s)
             S == Waiting(b)
  <1>1. b \in VaultRecord \/ b = NoBundle
    BY DEF ScreenRecord
  <1>2. CASE b = NoBundle
    <2>1. S = {} /\ X = {}
      BY <1>2 DEF Waiting, WithId, NoBundle
    <2> QED
      BY <2>1, EmptyRow, Zenon DEF ShownRow
  <1>3. CASE b \in VaultRecord
    <2>1. S \subseteq 1 .. HoldSlots /\ X \subseteq 1 .. HoldSlots
      BY <1>3 DEF Waiting, WithId, VaultRecord
    <2>2. \A i \in 1 .. HoldSlots : b.rows[i] \in RowRecord
      BY <1>3 DEF VaultRecord
    <2>3. X # {} => FirstRow(b, X) \in RowRecord
      BY <2>1, <2>2, FirstSlot DEF FirstRow
    <2>4. S # {} => FirstRow(b, S) \in RowRecord
      BY <2>1, <2>2, FirstSlot DEF FirstRow
    <2> HIDE DEF b, X, S
    <2>5. X = WithId(s) /\ S = Waiting(s.bundle) /\ b = s.bundle
      BY DEF b, X, S
    <2> QED
      BY <2>3, <2>4, <2>5, EmptyRow, Zenon DEF ShownRow
  <1> QED
    BY <1>1, <1>2, <1>3

\* The identifiers of a vault that waits for none, or was never read.
LEMMA NothingRead == RowIds(NoBundle) = {}
  BY DEF RowIds, NoBundle

\* What a call leaves of a vault: identifiers are given out in order, and a row is one that
\* was there or has the next of them.
Follows(v, w) ==
    /\ w \in VaultRecord
    /\ w.next >= v.next
    /\ \A id \in RowIds(w) : id \in RowIds(v) \/ (id = v.next /\ id < w.next)

\* A change of anything else leaves the rows.
LEMMA RowsKept ==
    ASSUME NEW v \in VaultRecord, NEW w \in VaultRecord, w.rows = v.rows, w.next = v.next
    PROVE  Follows(v, w)
  BY DEF Follows, RowIds, VaultRecord

\* A row that is taken out leaves the others.
LEMMA DroppedRows ==
    ASSUME NEW v \in VaultRecord, NEW id, id # 0
    PROVE  /\ Dropped(v, id) \in VaultRecord /\ Follows(v, Dropped(v, id))
           /\ id \notin RowIds(Dropped(v, id)) /\ Dropped(v, id).next = v.next
  <1> DEFINE f == [i \in DOMAIN v.rows |-> IF v.rows[i].id = id THEN NoRow ELSE v.rows[i]]
             w == Dropped(v, id)
  <1>1. w = [v EXCEPT !.rows = f]
    BY DEF Dropped
  <1>2. DOMAIN v.rows = 1 .. HoldSlots /\ \A i \in 1 .. HoldSlots : v.rows[i] \in RowRecord
    BY DEF VaultRecord
  <1>3. f \in [1 .. HoldSlots -> RowRecord]
    BY <1>2, EmptyRow
  <1>4. \A i \in 1 .. HoldSlots : f[i].id # id /\ (f[i].id # 0 => f[i].id = v.rows[i].id)
    BY <1>2, EmptyRow
  <1> HIDE DEF f, w
  <1>5. w \in VaultRecord /\ w.rows = f /\ w.next = v.next
    BY <1>1, <1>3 DEF VaultRecord
  <1>6. DOMAIN w.rows = 1 .. HoldSlots
    BY <1>3, <1>5
  <1>7. RowIds(w) \subseteq RowIds(v) /\ id \notin RowIds(w)
    BY <1>2, <1>4, <1>5, <1>6 DEF RowIds
  <1>8. v.next \in Nat
    BY DEF VaultRecord
  <1>9. Follows(v, w)
    BY <1>5, <1>7, <1>8 DEF Follows
  <1> QED
    BY <1>5, <1>7, <1>9 DEF w

\* A vault that is recovered has no rows.
LEMMA EmptiedRows ==
    ASSUME NEW v \in VaultRecord
    PROVE  Follows(v, Emptied(v))
  <1> DEFINE f == [i \in DOMAIN v.rows |-> NoRow]
             w == Emptied(v)
  <1>1. w = [v EXCEPT !.rows = f, !.funded = FALSE]
    BY DEF Emptied
  <1>2. DOMAIN v.rows = 1 .. HoldSlots
    BY DEF VaultRecord
  <1>3. f \in [1 .. HoldSlots -> RowRecord] /\ \A i \in 1 .. HoldSlots : f[i].id = 0
    BY <1>2, EmptyRow
  <1> HIDE DEF f, w
  <1>4. w \in VaultRecord /\ w.rows = f /\ w.next = v.next
    BY <1>1, <1>3 DEF VaultRecord
  <1>5. RowIds(w) = {}
    BY <1>3, <1>4 DEF RowIds
  <1>6. v.next \in Nat
    BY DEF VaultRecord
  <1>7. Follows(v, w)
    BY <1>4, <1>5, <1>6 DEF Follows
  <1> QED
    BY <1>7 DEF w

\* A withdrawal takes the next identifier, or leaves the vault as it was.
LEMMA AskedRows ==
    ASSUME NEW v \in VaultRecord, NEW dest \in Dests
    PROVE  Follows(v, Asked(v, dest))
  <1>1. CASE ~HoldsIt(v, dest)
    <2>1. Asked(v, dest) = v
      BY <1>1 DEF Asked
    <2> QED
      BY <2>1, RowsKept
  <1>2. CASE HoldsIt(v, dest)
    <2> DEFINE F == FreeSlots(v)
               slot == CHOOSE i \in F : \A j \in F : i <= j
               row == [id |-> v.next, dest |-> dest]
               f == [v.rows EXCEPT ![slot] = row]
               w == Asked(v, dest)
    <2>1. v.rows \in [1 .. HoldSlots -> RowRecord] /\ v.next \in Nat
      BY DEF VaultRecord
    <2>2. F \subseteq 1 .. HoldSlots /\ F # {}
      BY <1>2, <2>1 DEF FreeSlots, HoldsIt
    <2>3. slot \in 1 .. HoldSlots
      BY <2>2, FirstSlot
    <2>4. row \in RowRecord /\ row.id = v.next
      BY <2>1 DEF RowRecord
    <2>5. w = [v EXCEPT !.rows = f, !.next = v.next + 1]
      BY <1>2 DEF Asked
    <2> HIDE DEF F, slot, row, w
    <2>6. f \in [1 .. HoldSlots -> RowRecord] /\ f[slot] = row
          /\ \A i \in 1 .. HoldSlots : i # slot => f[i] = v.rows[i]
      BY <2>1, <2>3, <2>4
    <2> HIDE DEF f
    <2> DEFINE n == v.next + 1
    <2>n. n \in Nat /\ w = [v EXCEPT !.rows = f, !.next = n]
      BY <2>1, <2>5
    <2> HIDE DEF n
    <2>7. w \in VaultRecord /\ w.rows = f /\ w.next = n
      BY <2>n, <2>6 DEF VaultRecord
    <2>8. \A id \in RowIds(w) : id \in RowIds(v) \/ id = v.next
      BY <2>1, <2>4, <2>6, <2>7 DEF RowIds
    <2>9. n > v.next
      BY <2>1 DEF n
    <2>10. Follows(v, w)
      BY <2>1, <2>n, <2>7, <2>8, <2>9 DEF Follows
    <2> QED
      BY <2>10 DEF w
  <1> QED
    BY <1>1, <1>2

-----------------------------------------------------------------------------
(* The Hold screens: the vault under them                                  *)

\* One more field changes after the rows have.
LEMMA FlagsAfter ==
    ASSUME NEW v \in VaultRecord, NEW u, Follows(v, u), NEW w \in VaultRecord,
           w.rows = u.rows, w.next = u.next
    PROVE  Follows(v, w)
  BY DEF Follows, RowIds

\* What the program does for a transaction of the phone.
LEMMA CarriedRows ==
    ASSUME NEW v \in VaultRecord, NEW x \in TxRecord, x.kind # "open", Accepts(v, x)
    PROVE  Follows(v, Carried(v, x)) /\ (x.kind = "stop" => x.id \notin RowIds(Carried(v, x)))
  <1>1. x.dest \in Dests /\ x.kind \in TxKinds
    BY DEF TxRecord
  <1>2. CASE x.kind = "withdraw"
    <2>1. Carried(v, x) = Asked(v, x.dest)
      BY <1>2, Zenon DEF Carried
    <2> QED
      BY <1>1, <1>2, <2>1, AskedRows
  <1>3. CASE x.kind = "stop"
    <2>1. Carried(v, x) = Dropped(v, x.id)
      BY <1>3, Zenon DEF Carried
    <2>2. x.id \in RowIds(v)
      BY <1>3, Zenon DEF Accepts
    <2>3. x.id # 0
      BY <2>2 DEF RowIds
    <2> QED
      BY <1>3, <2>1, <2>3, DroppedRows
  <1>4. CASE x.kind = "freeze"
    <2>1. Carried(v, x) = [v EXCEPT !.frozen = TRUE]
      BY <1>4, Zenon DEF Carried
    <2>2. /\ [v EXCEPT !.frozen = TRUE] \in VaultRecord
          /\ [v EXCEPT !.frozen = TRUE].rows = v.rows /\ [v EXCEPT !.frozen = TRUE].next = v.next
      BY DEF VaultRecord
    <2> QED
      BY <1>4, <2>1, <2>2, RowsKept
  <1>5. CASE x.kind = "recover"
    <2>1. Carried(v, x) = Emptied(v)
      BY <1>5, Zenon DEF Carried
    <2> QED
      BY <1>5, <2>1, EmptiedRows
  <1>6. CASE x.kind = "skip"
    <2>1. Carried(v, x) = [Dropped(v, x.id) EXCEPT !.known = @ \union {x.dest}]
      BY <1>6, Zenon DEF Carried
    <2>2. x.id \in RowIds(v)
      BY <1>6, Zenon DEF Accepts
    <2>3. x.id # 0
      BY <2>2 DEF RowIds
    <2>4. PICK u \in VaultRecord : u = Dropped(v, x.id) /\ Follows(v, u)
      BY <2>3, DroppedRows
    <2>5. /\ [u EXCEPT !.known = @ \union {x.dest}] \in VaultRecord
          /\ [u EXCEPT !.known = @ \union {x.dest}].rows = u.rows
          /\ [u EXCEPT !.known = @ \union {x.dest}].next = u.next
      BY <1>1 DEF VaultRecord
    <2> QED
      BY <1>6, <2>1, <2>4, <2>5, FlagsAfter
  <1>7. CASE x.kind = "thaw"
    <2> DEFINE b == ~(v.guardian \/ v.armed)
               w == [v EXCEPT !.frozen = b, !.armed = b]
    <2>1. Carried(v, x) = w
      BY <1>7, Zenon DEF Carried
    <2>2. b \in BOOLEAN
      OBVIOUS
    <2> HIDE DEF b
    <2>3. w \in VaultRecord /\ w.rows = v.rows /\ w.next = v.next
      BY <2>2 DEF VaultRecord
    <2> QED
      BY <1>7, <2>1, <2>3, RowsKept
  <1> QED
    BY <1>1, <1>2, <1>3, <1>4, <1>5, <1>6, <1>7 DEF TxKinds

\* A call through the SDK.
LEMMA SdkFollows ==
    ASSUME VaultTyped, SdkNext
    PROVE  Follows(hvault, hvault') /\ VaultTyped'
  <1>1. hvault \in VaultRecord
    BY DEF VaultTyped
  <1>2. hscreen' = hscreen
    BY DEF SdkNext, SdkDeposit, SdkWithdraw, SdkExecute, SdkStop, SdkFreeze, SdkUnfreeze, SdkSkip,
           SdkRecover, SdkProposeChange, SdkApplyChange, SdkCancelChange, SdkInitVault, SdkCall
  <1>3. Follows(hvault, hvault')
    <2>1. CASE SdkDeposit
      <3>1. hvault' = [hvault EXCEPT !.funded = TRUE]
        BY <2>1 DEF SdkDeposit, SdkCall
      <3>2. hvault' \in VaultRecord /\ hvault'.rows = hvault.rows /\ hvault'.next = hvault.next
        BY <1>1, <3>1 DEF VaultRecord
      <3> QED
        BY <1>1, <3>2, RowsKept
    <2>2. CASE SdkWithdraw
      <3>1. PICK d \in HoldDests : hvault' = Asked(hvault, d)
        BY <2>2 DEF SdkWithdraw, SdkCall
      <3> QED
        BY <1>1, <3>1, KnownIsADest, AskedRows
    <2>3. CASE SdkExecute
      <3>1. PICK id \in RowIds(hvault), d \in HoldDests :
                hvault' = [Dropped(hvault, id) EXCEPT !.known = @ \union {d}]
        BY <2>3 DEF SdkExecute, SdkCall
      <3>2. id # 0
        BY DEF RowIds
      <3>3. PICK u \in VaultRecord : u = Dropped(hvault, id) /\ Follows(hvault, u)
        BY <1>1, <3>2, DroppedRows
      <3>4. hvault' = [u EXCEPT !.known = @ \union {d}]
        BY <3>1, <3>3
      <3>5. hvault' \in VaultRecord /\ hvault'.rows = u.rows /\ hvault'.next = u.next
        BY <3>4, KnownIsADest DEF VaultRecord
      <3> QED
        BY <1>1, <3>3, <3>5, FlagsAfter
    <2>4. CASE SdkStop
      <3>1. PICK id \in RowIds(hvault) : hvault' = Dropped(hvault, id)
        BY <2>4 DEF SdkStop, SdkCall
      <3>2. id # 0
        BY DEF RowIds
      <3> QED
        BY <1>1, <3>1, <3>2, DroppedRows
    <2>5. CASE SdkFreeze
      <3>1. hvault' = [hvault EXCEPT !.frozen = TRUE]
        BY <2>5 DEF SdkFreeze, SdkCall
      <3>2. hvault' \in VaultRecord /\ hvault'.rows = hvault.rows /\ hvault'.next = hvault.next
        BY <1>1, <3>1 DEF VaultRecord
      <3> QED
        BY <1>1, <3>2, RowsKept
    <2>6. CASE SdkUnfreeze
      <3> DEFINE t == Tx(0, "thaw", 0, "none", {"owner", "guardian"})
      <3>1. hvault.frozen /\ hvault' = Carried(hvault, t)
        BY <2>6 DEF SdkUnfreeze, SdkCall
      <3>2. t \in TxRecord
        BY KnownIsADest DEF Tx, TxRecord, TxKinds
      <3>3. t.kind = "thaw" /\ t.keys = {"owner", "guardian"}
        BY DEF Tx
      <3> HIDE DEF t
      <3>4. Accepts(hvault, t)
        BY <3>1, <3>3, Zenon DEF Accepts
      <3>5. t.kind # "open"
        BY <3>3
      <3> QED
        BY <1>1, <3>1, <3>2, <3>4, <3>5, CarriedRows
    <2>7. CASE SdkSkip
      <3>1. PICK id \in RowIds(hvault) : hvault' = Dropped(hvault, id)
        BY <2>7 DEF SdkSkip, SdkCall
      <3>2. id # 0
        BY DEF RowIds
      <3> QED
        BY <1>1, <3>1, <3>2, DroppedRows
    <2>8. CASE SdkRecover
      <3>1. hvault' = Emptied(hvault)
        BY <2>8 DEF SdkRecover, SdkCall
      <3> QED
        BY <1>1, <3>1, EmptiedRows
    <2>9. CASE SdkProposeChange \/ SdkApplyChange \/ SdkCancelChange
      <3>1. \/ hvault' = [hvault EXCEPT !.guardian = TRUE]
            \/ hvault' = [hvault EXCEPT !.change = TRUE]
            \/ hvault' = [hvault EXCEPT !.guardian = FALSE, !.change = FALSE]
            \/ hvault' = [hvault EXCEPT !.change = FALSE]
        BY <2>9 DEF SdkProposeChange, SdkApplyChange, SdkCancelChange, SdkCall
      <3>2. hvault' \in VaultRecord /\ hvault'.rows = hvault.rows /\ hvault'.next = hvault.next
        BY <1>1, <3>1 DEF VaultRecord
      <3> QED
        BY <1>1, <3>2, RowsKept
    <2>10. CASE SdkInitVault
      <3>1. hvault' = hvault
        BY <2>10 DEF SdkInitVault
      <3> QED
        BY <1>1, <3>1, RowsKept
    <2> QED
      BY <2>1, <2>2, <2>3, <2>4, <2>5, <2>6, <2>7, <2>8, <2>9, <2>10 DEF SdkNext
  <1> QED
    BY <1>2, <1>3 DEF VaultTyped, Follows

\* What is known of the vault after a transaction of the phone.
LEMMA LandsFollows ==
    ASSUME VaultTyped, hflying \subseteq TxRecord, NEW x \in hflying, Lands(x)
    PROVE  Follows(hvault, hvault') /\ VaultTyped'
  <1>1. hvault \in VaultRecord /\ hscreen' = hscreen
    BY DEF VaultTyped, Lands
  <1>2. CASE x.kind # "open" /\ Accepts(hvault, x)
    <2>1. hvault' = Carried(hvault, x)
      BY <1>2, Zenon DEF Lands
    <2> QED
      BY <1>1, <1>2, <2>1, CarriedRows DEF VaultTyped, Follows
  <1>3. CASE ~(x.kind # "open" /\ Accepts(hvault, x))
    <2>1. hvault' = hvault
      BY <1>3, Zenon DEF Lands
    <2> QED
      BY <1>1, <2>1, RowsKept DEF VaultTyped
  <1> QED
    BY <1>2, <1>3

-----------------------------------------------------------------------------
(* The Hold screens: what each kind of step changes                        *)

\* The screens that read the vault.
LoadNames == {"home", "send", "held", "alerts", "frozen", "skip", "thaw"}

\* Another screen that reads the vault is opened.
Navigates ==
    /\ hscreen.name \in LoadNames
    /\ \E n \in LoadNames, id \in Nat : Shows(HoldScreen(n, id))
    /\ UNCHANGED <<hvault, hcall, hflying, setupVars, hpast>>

\* A screen reads the vault, or forgets what it read.
ReadsVault ==
    /\ hscreen.name \in LoadNames
    /\ hscreen' \in ScreenRecord
    /\ hscreen'.name = hscreen.name /\ hscreen'.id = hscreen.id
    /\ hscreen'.bundle = hvault \/ hscreen'.bundle = NoBundle
    /\ hpress' = hpress \/ hpress' = NoPress
    /\ hresolve'.dest \in Dests
    /\ UNCHANGED <<hvault, hdest, hpreview, request, hcall, hflying, setupVars, hpast>>

\* The form of the send screen is filled in.
FillsIn ==
    /\ FormsTyped'
    /\ UNCHANGED <<hvault, hscreen, request, hpress, hcall, hflying, setupVars, hpast>>

\* The draft of a vault is worked on.
Drafts ==
    /\ Drafting \/ AccountsArrive
    /\ hscreen' \in ScreenRecord /\ draft' \in DraftRecord
    /\ hscreen'.bundle = hscreen.bundle \/ hscreen'.bundle = NoBundle
    /\ hscreen.name \in {"amount", "rules", "guardian"}
    /\ hscreen'.name \in {"amount", "rules", "guardian"}
    /\ UNCHANGED <<hvault, useVars, hpress, hcall, hflying, hvaults, hpurse, hpast>>

\* A call ends without anything sent or heard.
Fails ==
    /\ hcall' = NoCall
    /\ UNCHANGED <<hvault, hscreen, useVars, hpress, hflying, setupVars, hpast>>

\* What every record of nothing is.
LEMMA Nothing ==
    /\ NoPress \in PressRecord /\ Fits(NoPress) /\ NoPress.kind = "none" /\ NoPress.before = {}
    /\ NoCall \in CallRecord /\ Fits(NoCall.press) /\ NoCall.press = NoPress
    /\ NoCall.phase = "none" /\ NoCall.landed = {}
    /\ NoPreview \in [outcome : Outcomes, dest : Dests] /\ NoResolve.dest \in Dests
    /\ NoBundle.guardian = FALSE
  <1>1. NoPress \in PressRecord /\ NoPress.kind = "none" /\ NoPress.before = {} /\ NoPress.both = FALSE
    BY KnownIsADest DEF NoPress, PressRecord, Kinds, Screens, Outcomes
  <1>2. Fits(NoPress)
    BY <1>1 DEF Fits
  <1>3. NoCall.press = NoPress /\ NoCall.phase = "none" /\ NoCall.landed = {}
    BY DEF NoCall
  <1>4. NoCall \in CallRecord
    BY <1>1 DEF NoCall, CallRecord
  <1>5. NoPreview \in [outcome : Outcomes, dest : Dests] /\ NoResolve.dest \in Dests
    BY KnownIsADest DEF NoPreview, NoResolve, Outcomes
  <1>6. NoBundle.guardian = FALSE
    BY DEF NoBundle
  <1> QED
    BY <1>1, <1>2, <1>3, <1>4, <1>5, <1>6

\* A screen that has just been opened has read nothing.
LEMMA NewScreen ==
    ASSUME NEW n \in Screens, NEW id \in Nat
    PROVE  /\ HoldScreen(n, id) \in ScreenRecord
           /\ HoldScreen(n, id).name = n /\ HoldScreen(n, id).id = id
           /\ HoldScreen(n, id).bundle = NoBundle /\ HoldScreen(n, id).status = "loading"
  BY DEF HoldScreen, ScreenRecord

\* Leaving a screen keeps the types of the forms and of the finger.
LEMMA LeavesTyped ==
    ASSUME PhoneTyped, NEW s \in ScreenRecord, Shows(s)
    PROVE  /\ hscreen' = s /\ hpress' = NoPress /\ request' = {}
           /\ hdest' \in Dests /\ hpreview' \in [outcome : Outcomes, dest : Dests]
           /\ hresolve'.dest \in Dests
  BY Nothing, KnownIsADest DEF Shows

\* Going from a screen to another.
LEMMA NavigatesMeans ==
    ASSUME PhoneTyped, OpenFromHome \/ OpenNotice \/ OpenNext \/ GoBack
    PROVE  Navigates
  <1>1. hscreen \in ScreenRecord /\ hvault.next \in Nat
    BY DEF PhoneTyped, VaultTyped, VaultRecord
  <1>2. ShownRow(hscreen).id \in Nat
    BY <1>1, ShownRowTyped DEF RowRecord
  <1>3. CASE OpenFromHome
    <2>1. hscreen.name \in LoadNames /\ UNCHANGED <<hvault, hcall, hflying, setupVars, hpast>>
      BY <1>3 DEF OpenFromHome, LoadNames
    <2>2. PICK n \in HomeOffers(hscreen) : Shows(HoldScreen(n, 0))
      BY <1>3 DEF OpenFromHome
    <2>3. n \in LoadNames
      BY DEF HomeOffers, LoadNames
    <2> QED
      BY <2>1, <2>2, <2>3 DEF Navigates
  <1>4. CASE OpenNotice
    <2>1. hscreen.name \in LoadNames /\ UNCHANGED <<hvault, hcall, hflying, setupVars, hpast>>
      BY <1>4 DEF OpenNotice, LoadNames
    <2>2. PICK id \in 1 .. hvault.next - 1 : Shows(HoldScreen("held", id))
      BY <1>4 DEF OpenNotice
    <2>3. id \in Nat /\ "held" \in LoadNames
      BY <1>1 DEF LoadNames
    <2> QED
      BY <2>1, <2>2, <2>3 DEF Navigates
  <1>5. CASE OpenNext
    <2>1. hscreen.name \in LoadNames /\ UNCHANGED <<hvault, hcall, hflying, setupVars, hpast>>
      BY <1>5 DEF OpenNext, LoadNames
    <2>2. \/ \E n \in {"alerts", "skip"} : Shows(HoldScreen(n, ShownRow(hscreen).id))
          \/ Shows(HoldScreen("thaw", 0))
      BY <1>5 DEF OpenNext
    <2>3. {"alerts", "skip", "thaw"} \subseteq LoadNames
      BY DEF LoadNames
    <2> QED
      BY <1>2, <2>1, <2>2, <2>3 DEF Navigates
  <1>6. CASE GoBack
    <2>1. hscreen.name \in LoadNames /\ UNCHANGED <<hvault, hcall, hflying, setupVars, hpast>>
      BY <1>6 DEF GoBack, LoadNames
    <2>2. Shows(HoldScreen("home", 0)) /\ "home" \in LoadNames
      BY <1>6 DEF GoBack, LoadNames
    <2> QED
      BY <2>1, <2>2 DEF Navigates
  <1> QED
    BY <1>3, <1>4, <1>5, <1>6

\* Reading the vault, failing to, and pulling down.
LEMMA ReadsMeans ==
    ASSUME PhoneTyped, LoadVault \/ LoadFailed \/ Reload
    PROVE  ReadsVault
  <1>1. hscreen \in ScreenRecord /\ hvault \in VaultRecord /\ hdest \in Dests /\ hresolve.dest \in Dests
    BY DEF PhoneTyped, VaultTyped, FormsTyped
  <1>2. hscreen.name \in LoadNames
    BY DEF LoadVault, LoadFailed, Reload, Loads, LoadNames
  <1>3. \E b \in {hvault, NoBundle}, s \in {"loading", "ready", "error"} :
            hscreen' = [hscreen EXCEPT !.bundle = b, !.status = s]
    BY DEF LoadVault, LoadFailed, Reload
  <1>4. PICK b \in {hvault, NoBundle}, s \in {"loading", "ready", "error"} :
            hscreen' = [hscreen EXCEPT !.bundle = b, !.status = s]
    BY <1>3
  <1>5. /\ hscreen' \in ScreenRecord /\ hscreen'.name = hscreen.name /\ hscreen'.id = hscreen.id
        /\ hscreen'.bundle = b
    BY <1>1, <1>4 DEF ScreenRecord
  <1>6. hresolve'.dest \in Dests
    BY <1>1, Nothing DEF LoadVault, LoadFailed, Reload, Resolving, useVars
  <1>7. /\ hpress' = hpress \/ hpress' = NoPress
        /\ UNCHANGED <<hvault, hdest, hpreview, request, hcall, hflying, setupVars, hpast>>
    BY DEF LoadVault, LoadFailed, Reload, useVars
  <1> QED
    BY <1>2, <1>5, <1>6, <1>7 DEF ReadsVault

\* Typing a destination, and its preview.
LEMMA FillsInMeans ==
    ASSUME PhoneTyped, PreviewArrives \/ \E dest \in HoldDests : TypeDestination(dest)
    PROVE  FillsIn
  <1>1. /\ hdest \in Dests /\ hresolve.dest \in Dests /\ hpreview \in [outcome : Outcomes, dest : Dests]
        /\ draft \in DraftRecord /\ IsFiniteSet(hvaults)
    BY DEF PhoneTyped, FormsTyped
  <1>2. CASE PreviewArrives
    <2>1. Expected(hresolve.bundle, hresolve.dest) \in Outcomes
      BY Zenon DEF Expected, Outcomes
    <2>2. hpreview' \in [outcome : Outcomes, dest : Dests]
      BY <1>1, <1>2, <2>1, Nothing DEF PreviewArrives
    <2>3. hdest' = hdest /\ hresolve' = NoResolve /\ hvaults' = hvaults /\ draft' = draft
      BY <1>2 DEF PreviewArrives, setupVars
    <2>4. FormsTyped'
      BY <1>1, <2>2, <2>3, Nothing DEF FormsTyped
    <2> QED
      BY <1>2, <2>4 DEF PreviewArrives, FillsIn
  <1>3. ASSUME NEW dest \in HoldDests, TypeDestination(dest)
        PROVE  FillsIn
    <2>1. hdest' \in Dests /\ hresolve'.dest \in Dests
      BY <1>3, KnownIsADest, Nothing DEF TypeDestination, Resolving
    <2>2. hpreview' = hpreview /\ hvaults' = hvaults /\ draft' = draft
      BY <1>3 DEF TypeDestination, setupVars
    <2>3. FormsTyped'
      BY <1>1, <2>1, <2>2 DEF FormsTyped
    <2> QED
      BY <1>3, <2>3 DEF TypeDestination, FillsIn
  <1> QED
    BY <1>2, <1>3

\* What a change of the guardian makes of a draft.
LEMMA ChosenTyped ==
    ASSUME NEW d \in DraftRecord, NEW mode \in {"phone", "seeker"}, NEW address \in Texts
    PROVE  LET e == ChooseGuardian(d, mode, address) IN
           /\ e \in DraftRecord /\ e.mode = mode /\ e.guardian = address /\ e.touched = d.touched
           /\ e.safe = IF d.touched THEN d.safe ELSE address
           /\ e.phoneKey = d.phoneKey /\ e.amount = d.amount /\ e.rules = d.rules
  <1> DEFINE e == ChooseGuardian(d, mode, address)
             s == IF d.touched THEN d.safe ELSE address
  <1>1. s \in Texts /\ e = [d EXCEPT !.mode = mode, !.guardian = address, !.safe = s]
    BY DEF ChooseGuardian, DraftRecord
  <1>2. s = IF d.touched THEN d.safe ELSE address
    OBVIOUS
  <1> HIDE DEF s, e
  <1>3. /\ e \in DraftRecord /\ e.mode = mode /\ e.guardian = address /\ e.touched = d.touched
        /\ e.safe = s
        /\ e.phoneKey = d.phoneKey /\ e.amount = d.amount /\ e.rules = d.rules
    BY <1>1 DEF DraftRecord
  <1>4. e = ChooseGuardian(d, mode, address)
    BY DEF e
  <1> QED
    BY <1>2, <1>3, <1>4

\* Every field of the draft.
LEMMA DraftsMeans ==
    ASSUME PhoneTyped,
           EnterAmount \/ SetRules \/ OpenGuardianScreen \/ AccountsArrive \/ EditKeys
    PROVE  Drafts
  <1>1. hscreen \in ScreenRecord /\ draft \in DraftRecord
    BY DEF PhoneTyped, VaultTyped, FormsTyped
  <1>2. CASE EnterAmount
    <2>1. \/ hscreen' = hscreen /\ \E a \in {0, 1} : draft' = [draft EXCEPT !.amount = a]
          \/ hscreen' = HoldScreen("rules", 0) /\ draft' = draft
      BY <1>2 DEF EnterAmount
    <2>2. draft' \in DraftRecord
      BY <1>1, <2>1 DEF DraftRecord
    <2>3. "rules" \in Screens
      BY DEF Screens
    <2>4. /\ hscreen' \in ScreenRecord
          /\ hscreen'.bundle = hscreen.bundle \/ hscreen'.bundle = NoBundle
          /\ hscreen'.name = hscreen.name \/ hscreen'.name = "rules"
      BY <1>1, <2>1, <2>3, NewScreen
    <2>5. hscreen.name = "amount" /\ Drafting
      BY <1>2 DEF EnterAmount
    <2>6. UNCHANGED <<hvault, useVars, hpress, hcall, hflying, hvaults, hpurse, hpast>>
      BY <1>2 DEF EnterAmount
    <2> QED
      BY <2>2, <2>4, <2>5, <2>6 DEF Drafts
  <1>3. CASE SetRules
    <2>1. hscreen' = hscreen /\ \E r \in {"everyday", "strict"} : draft' = [draft EXCEPT !.rules = r]
      BY <1>3 DEF SetRules
    <2>2. draft' \in DraftRecord
      BY <1>1, <2>1 DEF DraftRecord
    <2>3. hscreen.name = "rules" /\ Drafting
      BY <1>3 DEF SetRules
    <2>4. UNCHANGED <<hvault, useVars, hpress, hcall, hflying, hvaults, hpurse, hpast>>
      BY <1>3 DEF SetRules
    <2> QED
      BY <1>1, <2>1, <2>2, <2>3, <2>4 DEF Drafts
  <1>4. CASE OpenGuardianScreen
    <2>1. hscreen' = HoldScreen("guardian", 0) /\ draft' = draft
      BY <1>4 DEF OpenGuardianScreen, setupVars
    <2>2. "guardian" \in Screens
      BY DEF Screens
    <2>3. hscreen' \in ScreenRecord /\ hscreen'.name = "guardian" /\ hscreen'.bundle = NoBundle
      BY <2>1, <2>2, NewScreen
    <2>4. hscreen.name = "rules" /\ Drafting
      BY <1>4 DEF OpenGuardianScreen
    <2>5. UNCHANGED <<hvault, useVars, hpress, hcall, hflying, hvaults, hpurse, hpast>>
      BY <1>4 DEF OpenGuardianScreen, setupVars
    <2> QED
      BY <1>1, <2>1, <2>3, <2>4, <2>5 DEF Drafts
  <1>5. CASE AccountsArrive
    <2>1. PICK key \in {"", "second"} : draft' = [draft EXCEPT !.phoneKey = key]
      BY <1>5 DEF AccountsArrive
    <2>2. draft' \in DraftRecord
      BY <1>1, <2>1 DEF DraftRecord, Texts
    <2>3. hscreen' = [hscreen EXCEPT !.status = "ready"] /\ hscreen.name = "guardian"
      BY <1>5 DEF AccountsArrive
    <2>4. hscreen' \in ScreenRecord /\ hscreen'.name = hscreen.name /\ hscreen'.bundle = hscreen.bundle
      BY <1>1, <2>3 DEF ScreenRecord
    <2>5. UNCHANGED <<hvault, useVars, hpress, hcall, hflying, hvaults, hpurse, hpast>>
      BY <1>5 DEF AccountsArrive
    <2> QED
      BY <1>5, <2>2, <2>3, <2>4, <2>5 DEF Drafts
  <1>6. CASE EditKeys
    <2>1. \/ \E mode \in {"phone", "seeker"} :
                draft' = ChooseGuardian(draft, mode, IF mode = "phone" THEN draft.phoneKey
                                                     ELSE draft.guardian)
          \/ \E address \in {"other", "owner"} : draft' = ChooseGuardian(draft, "seeker", address)
          \/ \E safe \in {"", "cold"} : draft' = [draft EXCEPT !.safe = safe, !.touched = TRUE]
      BY <1>6 DEF EditKeys
    <2>2. draft.phoneKey \in Texts /\ draft.guardian \in Texts
      BY <1>1 DEF DraftRecord
    <2>3. draft' \in DraftRecord
      <3>1. ASSUME NEW mode \in {"phone", "seeker"}
            PROVE  ChooseGuardian(draft, mode, IF mode = "phone" THEN draft.phoneKey
                                               ELSE draft.guardian) \in DraftRecord
        BY <1>1, <2>2, ChosenTyped
      <3>2. ASSUME NEW address \in {"other", "owner"}
            PROVE  ChooseGuardian(draft, "seeker", address) \in DraftRecord
        <4>1. address \in Texts /\ "seeker" \in {"phone", "seeker"}
          BY DEF Texts
        <4> QED
          BY <1>1, <4>1, ChosenTyped
      <3>3. ASSUME NEW safe \in {"", "cold"}
            PROVE  [draft EXCEPT !.safe = safe, !.touched = TRUE] \in DraftRecord
        BY <1>1 DEF DraftRecord, Texts
      <3> QED
        BY <2>1, <3>1, <3>2, <3>3
    <2>4. hscreen.name = "guardian" /\ Drafting /\ hscreen' = hscreen
      BY <1>6 DEF EditKeys
    <2>5. UNCHANGED <<hvault, useVars, hpress, hcall, hflying, hvaults, hpurse, hpast>>
      BY <1>6 DEF EditKeys
    <2> QED
      BY <1>1, <2>3, <2>4, <2>5 DEF Drafts
  <1> QED
    BY <1>2, <1>3, <1>4, <1>5, <1>6

\* A call that throws, a confirmation given up and a reading that fails.
LEMMA FailsMeans ==
    ASSUME CallThrows \/ ConfirmThrows \/ RereadFails
    PROVE  Fails
  BY DEF CallThrows, ConfirmThrows, RereadFails, Fails

\* The kinds of step of the Hold screens.
Deeds ==
    \/ Navigates \/ ReadsVault \/ FillsIn \/ Drafts
    \/ HoldBegins \/ HoldReleased \/ PressCompletes
    \/ OtherKeySigns \/ PasteRequest
    \/ Fails \/ SignPartial \/ WalletSends \/ Confirms \/ OpenConfirms \/ SendConfirms \/ Reread
    \/ \E x \in hflying : Lands(x) \/ HoldTxExpires(x)
    \/ SdkNext

\* Every step of the Hold screens is of one of these kinds.
LEMMA EveryStep ==
    ASSUME PhoneTyped, HoldPhoneNext
    PROVE  Deeds
  <1>1. CASE OpenFromHome \/ OpenNotice \/ OpenNext \/ GoBack
    BY <1>1, NavigatesMeans DEF Deeds
  <1>2. CASE LoadVault \/ LoadFailed \/ Reload
    BY <1>2, ReadsMeans DEF Deeds
  <1>3. CASE PreviewArrives \/ \E dest \in HoldDests : TypeDestination(dest)
    BY <1>3, FillsInMeans DEF Deeds
  <1>4. CASE EnterAmount \/ SetRules \/ OpenGuardianScreen \/ AccountsArrive \/ EditKeys
    BY <1>4, DraftsMeans DEF Deeds
  <1>5. CASE Answers
    BY <1>5, FailsMeans DEF Deeds, Answers
  <1>6. CASE \/ HoldBegins \/ HoldReleased \/ PressCompletes \/ OtherKeySigns \/ PasteRequest
             \/ (\E x \in hflying : Lands(x) \/ HoldTxExpires(x)) \/ SdkNext
    BY <1>6 DEF Deeds
  <1> QED
    BY <1>1, <1>2, <1>3, <1>4, <1>5, <1>6 DEF HoldPhoneNext

-----------------------------------------------------------------------------
(* The Hold screens: presses, calls and transactions have their types      *)

\* What a vault is opened with, as a text of the draft.
LEMMA TermsTyped ==
    ASSUME NEW d \in DraftRecord
    PROVE  TermsOf(d) \in TermsRecord /\ TermsOf(d).guardian = GuardianText(d) /\ GuardianText(d) \in Texts
  <1>1. GuardianText(d) \in Texts
    BY DEF GuardianText, DraftRecord
  <1>2. SafeShown(d) \in Texts
    BY <1>1 DEF SafeShown, DraftRecord
  <1>3. d.rules \in {"everyday", "strict"} /\ d.amount \in Nat
    BY DEF DraftRecord
  <1> QED
    BY <1>1, <1>2, <1>3 DEF TermsOf, TermsRecord

\* What a button offers, and where.
LEMMA OffersAreKinds ==
    ASSUME NEW s, NEW k \in HoldOffers(s)
    PROVE  k \in Kinds /\ (k = "open" => s.name = "guardian" /\ Ready(s)) /\ s.name # "live"
  <1>1. s.name = "held" => HoldOffers(s) = HeldOffers(s)
    BY Zenon DEF HoldOffers
  <1>2. s.name = "alerts" => HoldOffers(s) = PlanOffers(s)
    BY Zenon DEF HoldOffers
  <1>3. s.name = "frozen" => HoldOffers(s) = FrozenOffers(s)
    BY Zenon DEF HoldOffers
  <1>4. s.name \in {"skip", "thaw"} => HoldOffers(s) = SkipOffers(s)
    BY Zenon DEF HoldOffers
  <1>5. s.name = "send" => HoldOffers(s) = SendOffers(s)
    BY Zenon DEF HoldOffers
  <1>6. s.name = "guardian" => HoldOffers(s) = GuardianOffers(s)
    BY Zenon DEF HoldOffers
  <1>7. s.name \notin {"held", "alerts", "frozen", "skip", "thaw", "send", "guardian"} => HoldOffers(s) = {}
    BY Zenon DEF HoldOffers
  <1>8. s.name \in {"skip", "thaw"} => SkipOffers(s) \subseteq {"finish", "skip", "thaw"}
    BY DEF SkipOffers
  <1>9. /\ HeldOffers(s) \subseteq {"stop", "freeze"} /\ PlanOffers(s) \subseteq {"stop"}
        /\ FrozenOffers(s) \subseteq {"recover"} /\ SendOffers(s) \subseteq {"withdraw"}
        /\ GuardianOffers(s) \subseteq {"open"}
    BY DEF HeldOffers, PlanOffers, FrozenOffers, SendOffers, GuardianOffers
  <1>10. GuardianOffers(s) # {} => Ready(s)
    BY DEF GuardianOffers
  <1> QED
    BY <1>1, <1>2, <1>3, <1>4, <1>5, <1>6, <1>7, <1>8, <1>9, <1>10 DEF Kinds, TxKinds

\* Identifiers are numbers.
LEMMA RowIdsAreNumbers ==
    ASSUME NEW v \in VaultRecord \union {NoBundle}
    PROVE  RowIds(v) \subseteq Nat
  <1>1. CASE v = NoBundle
    BY <1>1, NothingRead
  <1>2. CASE v \in VaultRecord
    <2>1. \A i \in DOMAIN v.rows : v.rows[i].id \in Nat
      BY <1>2 DEF VaultRecord, RowRecord
    <2> QED
      BY <2>1 DEF RowIds
  <1> QED
    BY <1>1, <1>2

\* The closure under the finger.
LEMMA PressBegun ==
    ASSUME PhoneTyped, HoldBegins
    PROVE  /\ Fits(hpress') /\ hpress'.before = RowIds(hscreen.bundle)
           /\ hpress'.kind = "open" => OnGuardian(hpress')
           /\ hcall = NoCall /\ hscreen.name # "live"
           /\ UNCHANGED <<hvault, hscreen, useVars, hcall, hflying, setupVars, hpast>>
  <1>1. /\ hscreen \in ScreenRecord /\ draft \in DraftRecord /\ hdest \in Dests
        /\ hpreview \in [outcome : Outcomes, dest : Dests]
    BY DEF PhoneTyped, VaultTyped, FormsTyped
  <1>2. PICK kind \in HoldOffers(hscreen) :
        hpress' = [kind |-> kind, id |-> ShownRow(hscreen).id,
                   dest |-> IF kind = "withdraw" THEN hdest ELSE ShownRow(hscreen).dest,
                   before |-> RowIds(hscreen.bundle), outcome |-> hpreview.outcome,
                   terms |-> IF kind = "open" THEN <<TermsOf(draft)>> ELSE <<>>,
                   from |-> hscreen.name,
                   both |-> kind \in {"skip", "thaw"} /\ hscreen.bundle.guardian]
    BY DEF HoldBegins
  <1> DEFINE i == ShownRow(hscreen).id
             d == IF kind = "withdraw" THEN hdest ELSE ShownRow(hscreen).dest
             b == RowIds(hscreen.bundle)
             t == IF kind = "open" THEN <<TermsOf(draft)>> ELSE <<>>
             o == hpreview.outcome
             m == hscreen.name
             w == kind \in {"skip", "thaw"} /\ hscreen.bundle.guardian
  <1>3. i \in Nat /\ d \in Dests
    BY <1>1, ShownRowTyped DEF RowRecord
  <1>4. hscreen.bundle \in VaultRecord \union {NoBundle}
    BY <1>1 DEF ScreenRecord
  <1>5. b \in SUBSET Nat
    BY <1>4, RowIdsAreNumbers
  <1>6. t \in Seq(TermsRecord)
    BY <1>1, TermsTyped
  <1>7. o \in Outcomes /\ m \in Screens
    BY <1>1 DEF ScreenRecord
  <1>8. w \in BOOLEAN /\ (w => kind \in {"skip", "thaw"})
    BY <1>4, Nothing DEF VaultRecord
  <1>9. /\ kind \in Kinds /\ (kind = "open" => hscreen.name = "guardian" /\ Ready(hscreen))
        /\ hscreen.name # "live"
    BY OffersAreKinds
  <1>10. kind = "open" => t = <<TermsOf(draft)>>
    OBVIOUS
  <1>11. hpress' = [kind |-> kind, id |-> i, dest |-> d, before |-> b, outcome |-> o, terms |-> t,
                    from |-> m, both |-> w]
    BY <1>2
  <1>12. b = RowIds(hscreen.bundle)
    OBVIOUS
  <1> HIDE DEF i, d, b, t, o, m, w
  <1>13. hpress' \in PressRecord /\ hpress'.kind = kind /\ hpress'.before = b /\ hpress'.terms = t
         /\ hpress'.both = w
    BY <1>3, <1>5, <1>6, <1>7, <1>8, <1>9, <1>11 DEF PressRecord
  <1>14. Fits(hpress')
    BY <1>8, <1>13 DEF Fits
  <1>15. hpress'.kind = "open" => OnGuardian(hpress')
    BY <1>9, <1>10, <1>13 DEF OnGuardian
  <1> QED
    BY <1>9, <1>12, <1>13, <1>14, <1>15 DEF HoldBegins

\* A press is complete.
LEMMA CallBegun ==
    ASSUME PhoneTyped, PressCompletes
    PROVE  /\ hpress # NoPress /\ hpress' = NoPress
           /\ hcall' \in CallRecord /\ hcall'.press = hpress /\ hcall'.phase = "wallet"
           /\ hcall'.n = hpast.presses + 1 /\ hcall'.landed = {}
           /\ hpast' \in PastRecord /\ hpast'.presses = hpast.presses + 1
           /\ hpast'.reported = hpast.reported
           /\ UNCHANGED <<hvault, hscreen, useVars, hflying, setupVars>>
  <1>1. hpress \in PressRecord /\ hpast \in PastRecord /\ hpast.presses \in Nat /\ IsFiniteSet(hvaults)
    BY DEF PhoneTyped, SignsTyped, FormsTyped, Fits, PastRecord
  <1>2. NextVaultId \in Nat
    BY <1>1, FS_CardinalityType DEF NextVaultId
  <1>3. hcall' = [press |-> hpress, phase |-> "wallet", n |-> hpast.presses + 1, landed |-> {}]
    BY DEF PressCompletes
  <1>4. /\ hcall' \in CallRecord /\ hcall'.press = hpress /\ hcall'.phase = "wallet"
        /\ hcall'.n = hpast.presses + 1 /\ hcall'.landed = {}
    BY <1>1, <1>3 DEF CallRecord
  <1>5. PICK n \in Nat, v \in Nat : n = hpast.presses + 1 /\ v = NextVaultId
    BY <1>1, <1>2
  <1>6. hpast' = [hpast EXCEPT !.presses = n, !.newId = v]
    BY <1>5 DEF PressCompletes
  <1>7. hpast' \in PastRecord /\ hpast'.presses = n /\ hpast'.reported = hpast.reported
    BY <1>1, <1>6 DEF PastRecord
  <1> QED
    BY <1>4, <1>5, <1>7 DEF PressCompletes

\* A call goes on.
LEMMA CallGoes ==
    ASSUME NEW c \in CallRecord, NEW x \in {"none", "wallet", "sent", "reread"},
           NEW e, e = [c EXCEPT !.phase = x]
    PROVE  /\ e \in CallRecord /\ e.phase = x
           /\ e.press = c.press /\ e.n = c.n /\ e.landed = c.landed
  BY DEF CallRecord

\* A transaction made from a press asks for what its button said.
LEMMA MadeTyped ==
    ASSUME NEW c \in CallRecord, c.press.kind \in TxKinds
    PROVE  /\ Made(c) \in TxRecord /\ Made(c).n = c.n
           /\ Made(c).kind = c.press.kind /\ Made(c).id = c.press.id
  <1>1. c.n \in Nat /\ c.press \in PressRecord
    BY DEF CallRecord
  <1>2. c.press.id \in Nat /\ c.press.dest \in Dests
    BY <1>1 DEF PressRecord
  <1>3. <<>> \in Seq(TermsRecord)
    OBVIOUS
  <1> QED
    BY <1>1, <1>2, <1>3 DEF Made, Tx, TxRecord

\* Signing a transaction changes nothing else of it.
LEMMA SignedTyped ==
    ASSUME NEW x \in TxRecord, NEW k \in {"owner", "guardian"}, NEW n \in Nat,
           NEW s, s = [x EXCEPT !.n = n, !.keys = @ \union {k}]
    PROVE  s \in TxRecord /\ s.n = n /\ s.kind = x.kind /\ s.id = x.id /\ s.terms = x.terms
  BY DEF TxRecord

\* What the wallet sends.
LEMMA WalletSent ==
    ASSUME PhoneTyped, WalletSends
    PROVE  /\ hcall.phase = "wallet" /\ hcall' \in CallRecord /\ hcall'.phase = "sent"
           /\ hcall'.press = hcall.press /\ hcall'.n = hcall.n /\ hcall'.landed = hcall.landed
           /\ \E s \in TxRecord : hflying' = hflying \union {s} /\ s.n = hcall.n /\ Matches(s, hcall.press)
           /\ hcall.press.kind = "open" => hcall.press.terms[1].guardian # ""
           /\ hcall.press.kind \notin {"none", "skip"}
           /\ UNCHANGED <<hvault, hscreen, useVars, hpress, setupVars, hpast>>
  <1>1. /\ hcall \in CallRecord /\ request \subseteq TxRecord /\ hpast \in PastRecord
        /\ hcall.n \in Nat /\ hcall.press \in PressRecord
    BY DEF PhoneTyped, SignsTyped, CallRecord
  <1>2. hcall' = [hcall EXCEPT !.phase = "sent"] /\ hcall.phase = "wallet"
    BY DEF WalletSends
  <1>3. /\ hcall' \in CallRecord /\ hcall'.phase = "sent"
        /\ hcall'.press = hcall.press /\ hcall'.n = hcall.n /\ hcall'.landed = hcall.landed
    BY <1>1, <1>2, CallGoes
  <1>4. /\ \E s \in TxRecord : hflying' = hflying \union {s} /\ s.n = hcall.n /\ Matches(s, hcall.press)
        /\ hcall.press.kind = "open" => hcall.press.terms[1].guardian # ""
    <2>1. CASE /\ hcall.press.kind \in {"withdraw", "stop", "freeze", "recover", "thaw"}
               /\ hflying' = hflying \union {Made(hcall)}
      <3>1. hcall.press.kind \in TxKinds
        BY <2>1 DEF TxKinds
      <3> QED
        BY <1>1, <2>1, <3>1, MadeTyped DEF Matches
    <2>2. CASE /\ hcall.press.kind = "finish"
               /\ \E x \in request :
                    hflying' = hflying \union {[x EXCEPT !.n = hcall.n, !.keys = @ \union {"owner"}]}
      <3>1. PICK x \in request :
                    hflying' = hflying \union {[x EXCEPT !.n = hcall.n, !.keys = @ \union {"owner"}]}
        BY <2>2
      <3>2. PICK s : s = [x EXCEPT !.n = hcall.n, !.keys = @ \union {"owner"}]
        OBVIOUS
      <3>3. s \in TxRecord /\ s.n = hcall.n
        BY <1>1, <3>2 DEF TxRecord
      <3> QED
        BY <2>2, <3>1, <3>2, <3>3 DEF Matches
    <2>3. CASE /\ hcall.press.kind = "open" /\ MayOpenVault(hcall.press.terms[1])
               /\ hflying' = hflying \union
                   {[Tx(hcall.n, "open", hpast.newId, "none", {"owner"}) EXCEPT !.terms = hcall.press.terms]}
      <3>1. PICK s : s = [Tx(hcall.n, "open", hpast.newId, "none", {"owner"}) EXCEPT !.terms = hcall.press.terms]
        OBVIOUS
      <3>2. hpast.newId \in Nat /\ hcall.press.terms \in Seq(TermsRecord)
        BY <1>1 DEF PastRecord, PressRecord
      <3>3. s = [n |-> hcall.n, kind |-> "open", id |-> hpast.newId, dest |-> "none", keys |-> {"owner"},
                 terms |-> hcall.press.terms]
        BY <3>1 DEF Tx
      <3>4. /\ s \in TxRecord /\ s.n = hcall.n /\ s.kind = "open" /\ s.id = hpast.newId
            /\ s.terms = hcall.press.terms
        BY <1>1, <3>2, <3>3, KnownIsADest DEF TxRecord, TxKinds
      <3> QED
        BY <2>3, <3>1, <3>4 DEF Matches, MayOpenVault
    <2> QED
      BY <2>1, <2>2, <2>3 DEF WalletSends
  <1>5. hcall.press.kind \notin {"none", "skip"}
    BY DEF WalletSends
  <1> QED
    BY <1>2, <1>3, <1>4, <1>5 DEF WalletSends

-----------------------------------------------------------------------------
(* The Hold screens: what lands and what is said of it                     *)

\* The program carries a transaction out, or does not.
LEMMA AcceptsIsBoolean ==
    ASSUME NEW v \in VaultRecord, NEW x \in TxRecord, x.kind # "open"
    PROVE  Accepts(v, x) \in BOOLEAN
  <1>1. x.kind \in TxKinds /\ v.funded \in BOOLEAN
    BY DEF TxRecord, VaultRecord
  <1>2. CASE x.kind = "withdraw"
    <2>1. Accepts(v, x) = (v.next <= HoldIds)
      BY <1>2, Zenon DEF Accepts
    <2> QED
      BY <2>1
  <1>3. CASE x.kind = "stop"
    <2>1. Accepts(v, x) = (x.id \in RowIds(v))
      BY <1>3, Zenon DEF Accepts
    <2> QED
      BY <2>1
  <1>4. CASE x.kind = "freeze"
    <2>1. Accepts(v, x) = (~v.frozen)
      BY <1>4, Zenon DEF Accepts
    <2> QED
      BY <2>1
  <1>5. CASE x.kind = "recover"
    <2>1. Accepts(v, x) = v.funded
      BY <1>5, Zenon DEF Accepts
    <2> QED
      BY <1>1, <2>1
  <1>6. CASE x.kind = "skip"
    <2>1. Accepts(v, x) = (/\ x.id \in RowIds(v) /\ ~v.frozen /\ v.guardian /\ v.funded
                            /\ x.keys = {"owner", "guardian"})
      BY <1>6, Zenon DEF Accepts
    <2> QED
      BY <2>1
  <1>7. CASE x.kind = "thaw"
    <2>1. Accepts(v, x) = (v.frozen /\ (v.guardian => x.keys = {"owner", "guardian"}))
      BY <1>7, Zenon DEF Accepts
    <2> QED
      BY <2>1
  <1> QED
    BY <1>1, <1>2, <1>3, <1>4, <1>5, <1>6, <1>7 DEF TxKinds

\* What is heard of a transaction that landed is what it did.
HeardAs(r, x) ==
    /\ r.kind = x.kind
    /\ r.held => r.id = hvault.next
    /\ r.kind # "withdraw" => r.id = x.id
    /\ r.ok /\ r.kind = "stop" => Gone(hvault', r.id)
    /\ r.ok /\ r.kind = "open" => \E v \in hvaults' : v.id = x.id /\ v.terms = x.terms[1]

\* A transaction that lands: what it leaves, and what the press being worked on hears.
LEMMA LandsMeans ==
    ASSUME PhoneTyped, IdsPart, NEW x \in hflying, Lands(x)
    PROVE  /\ hflying' = hflying \ {x}
           /\ hvaults \subseteq hvaults' /\ IsFiniteSet(hvaults')
           /\ hcall' \in CallRecord
           /\ hcall'.press = hcall.press /\ hcall'.phase = hcall.phase /\ hcall'.n = hcall.n
           /\ \/ hcall' = hcall
              \/ /\ hcall.phase = "sent" /\ x.n = hcall.n
                 /\ \E r \in LandedRecord : hcall'.landed = {r} /\ HeardAs(r, x)
           /\ UNCHANGED <<hscreen, useVars, hpress, draft, hpast>>
  <1> DEFINE opens == x.kind = "open" /\ x.id \notin {v.id : v \in hvaults}
                        /\ x.terms[1].amount <= hpurse
             works == IF x.kind = "open" THEN opens ELSE Accepts(hvault, x)
             held == x.kind = "withdraw" /\ works /\ HoldsIt(hvault, x.dest)
             j == IF held THEN hvault.next ELSE x.id
             r == [ok |-> works, kind |-> x.kind, held |-> held, id |-> j]
  <1>1. /\ hvault \in VaultRecord /\ x \in TxRecord /\ hcall \in CallRecord /\ IsFiniteSet(hvaults)
        /\ hvault.next \in Nat /\ x.id \in Nat /\ x.kind \in TxKinds /\ hflying \subseteq TxRecord
    BY DEF PhoneTyped, VaultTyped, FormsTyped, SignsTyped, VaultRecord, TxRecord
  <1>2. opens \in BOOLEAN
    OBVIOUS
  <1>3. works \in BOOLEAN
    BY <1>1, <1>2, AcceptsIsBoolean
  <1>4. held \in BOOLEAN /\ (held => x.kind = "withdraw")
    OBVIOUS
  <1>5. j \in Nat /\ (held => j = hvault.next) /\ (x.kind # "withdraw" => j = x.id)
    BY <1>1
  <1>6. hcall' = IF hcall.phase = "sent" /\ x.n = hcall.n THEN [hcall EXCEPT !.landed = {r}] ELSE hcall
    BY DEF Lands
  <1>7. IF opens THEN hvaults' = hvaults \union {[id |-> x.id, terms |-> x.terms[1]]}
        ELSE hvaults' = hvaults
    BY DEF Lands
  <1>8. hvault' = IF works /\ x.kind # "open" THEN Carried(hvault, x) ELSE hvault
    BY DEF Lands
  <1>9. works /\ x.kind = "open" => opens
    OBVIOUS
  <1>10. works /\ x.kind # "open" => Accepts(hvault, x)
    OBVIOUS
  <1>11. Follows(hvault, hvault')
    BY <1>1, LandsFollows DEF PhoneTyped
  <1> HIDE DEF opens, works, held, j
  <1>12. /\ r \in LandedRecord /\ r.ok = works /\ r.kind = x.kind /\ r.held = held /\ r.id = j
    BY <1>1, <1>3, <1>4, <1>5 DEF LandedRecord
  <1>13. ASSUME works, x.kind = "stop"
         PROVE  Gone(hvault', x.id)
    <2>1. hvault' = Carried(hvault, x) /\ Accepts(hvault, x)
      BY <1>8, <1>10, <1>13
    <2>2. x.id \in RowIds(hvault)
      BY <1>13, <2>1, Zenon DEF Accepts
    <2>3. x.id < hvault.next /\ hvault'.next >= hvault.next /\ hvault'.next \in Nat
      BY <1>11, <2>2 DEF IdsPart, Below, Follows, VaultRecord
    <2>4. x.id < hvault'.next
      BY <1>1, <2>3
    <2>5. x.id \notin RowIds(hvault')
      BY <1>1, <1>13, <2>1, CarriedRows
    <2> QED
      BY <2>4, <2>5 DEF Gone
  <1>14. opens => \E v \in hvaults' : v.id = x.id /\ v.terms = x.terms[1]
    <2>1. SUFFICES ASSUME opens
                   PROVE  \E v \in hvaults' : v.id = x.id /\ v.terms = x.terms[1]
      OBVIOUS
    <2> DEFINE v == [id |-> x.id, terms |-> x.terms[1]]
    <2>2. v \in hvaults'
      BY <1>7, <2>1
    <2>3. v.id = x.id /\ v.terms = x.terms[1]
      OBVIOUS
    <2> HIDE DEF v
    <2> QED
      BY <2>2, <2>3
  <1> HIDE DEF r
  <1>15. HeardAs(r, x)
    <2>1. (r.ok => works) /\ (r.held => held) /\ r.kind = x.kind /\ r.id = j
      BY <1>12
    <2>2. r.held => r.id = hvault.next
      BY <1>5, <2>1
    <2>3. r.kind # "withdraw" => r.id = x.id
      BY <1>5, <2>1
    <2>4. r.ok /\ r.kind = "stop" => Gone(hvault', r.id)
      <3>1. SUFFICES ASSUME r.ok, r.kind = "stop"
                     PROVE  Gone(hvault', r.id)
        OBVIOUS
      <3>2. works /\ x.kind = "stop"
        BY <2>1, <3>1
      <3>3. r.id = x.id
        BY <2>1, <2>3, <3>1
      <3> QED
        BY <1>13, <3>2, <3>3
    <2>5. r.ok /\ r.kind = "open" => \E v \in hvaults' : v.id = x.id /\ v.terms = x.terms[1]
      BY <1>9, <1>14, <2>1
    <2> QED
      BY <2>1, <2>2, <2>3, <2>4, <2>5 DEF HeardAs
  <1>16. hvaults \subseteq hvaults' /\ IsFiniteSet(hvaults')
    BY <1>1, <1>2, <1>7, FS_AddElement
  <1>17. /\ hcall' \in CallRecord
         /\ hcall'.press = hcall.press /\ hcall'.phase = hcall.phase /\ hcall'.n = hcall.n
         /\ hcall' = hcall \/ (hcall.phase = "sent" /\ x.n = hcall.n /\ hcall'.landed = {r})
    <2>1. CASE ~(hcall.phase = "sent" /\ x.n = hcall.n)
      BY <1>1, <1>6, <2>1
    <2>2. CASE hcall.phase = "sent" /\ x.n = hcall.n
      <3>1. hcall' = [hcall EXCEPT !.landed = {r}]
        BY <1>6, <2>2
      <3>2. {r} \in SUBSET LandedRecord
        BY <1>12
      <3>3. /\ hcall' \in CallRecord /\ hcall'.landed = {r}
            /\ hcall'.press = hcall.press /\ hcall'.phase = hcall.phase /\ hcall'.n = hcall.n
        BY <1>1, <3>1, <3>2 DEF CallRecord
      <3> QED
        BY <2>2, <3>3
    <2> QED
      BY <2>1, <2>2
  <1> QED
    BY <1>12, <1>15, <1>16, <1>17 DEF Lands

\* Where a confirmed press leads.
LEMMA AfterTyped ==
    ASSUME NEW p \in PressRecord, p.kind \in {"stop", "freeze", "recover", "thaw", "finish"}
    PROVE  After(p) \in ScreenRecord /\ After(p).name \in LoadNames
  <1>1. p.id \in Nat
    BY DEF PressRecord
  <1>2. LoadNames \subseteq Screens
    BY DEF LoadNames, Screens
  <1>3. \E n \in LoadNames, id \in Nat : After(p) = HoldScreen(n, id)
    <2>1. p.kind = "stop" => After(p) = HoldScreen("held", p.id)
      BY Zenon DEF After
    <2>2. p.kind \in {"freeze", "thaw"} => After(p) = HoldScreen("frozen", 0)
      BY Zenon DEF After
    <2>3. p.kind = "recover" => After(p) = HoldScreen("home", 0)
      BY Zenon DEF After
    <2>4. p.kind = "finish" => After(p) = HoldScreen(IF p.from = "thaw" THEN "frozen" ELSE "home", 0)
      BY Zenon DEF After
    <2>5. {"held", "frozen", "home"} \subseteq LoadNames
      BY DEF LoadNames
    <2> QED
      BY <1>1, <2>1, <2>2, <2>3, <2>4, <2>5
  <1> QED
    BY <1>2, <1>3, NewScreen

-----------------------------------------------------------------------------
(* The Hold screens: every step keeps the types                            *)

\* Some rows read again are rows of the vault.
LEMMA FirstAdded ==
    ASSUME hvault \in VaultRecord, NEW ids, Added(ids) # {}
    PROVE  /\ FirstRow(hvault, Added(ids)).id \in RowIds(hvault) \ ids
           /\ FirstRow(hvault, Added(ids)).id \in Nat
  <1> DEFINE S == Added(ids)
             k == CHOOSE i \in S : \A j \in S : i <= j
  <1>1. S \subseteq 1 .. HoldSlots /\ DOMAIN hvault.rows = 1 .. HoldSlots
    BY DEF Added, Waiting, VaultRecord
  <1>2. k \in S
    BY <1>1, FirstSlot
  <1> HIDE DEF k
  <1>3. hvault.rows[k].id # 0 /\ hvault.rows[k].id \notin ids /\ k \in 1 .. HoldSlots
    BY <1>1, <1>2 DEF Added, Waiting
  <1>4. hvault.rows[k].id \in Nat
    BY <1>3 DEF VaultRecord, RowRecord
  <1>5. FirstRow(hvault, S) = hvault.rows[k]
    BY DEF FirstRow, k
  <1> QED
    BY <1>1, <1>3, <1>4, <1>5 DEF RowIds

\* Where a confirmed withdrawal leads is a screen that reads the vault.
LEMMA AfterSendTyped ==
    ASSUME hvault \in VaultRecord, NEW p
    PROVE  AfterSend(p) \in ScreenRecord /\ AfterSend(p).name \in LoadNames
           /\ AfterSend(p).bundle = NoBundle
  <1>1. {"held", "home"} \subseteq LoadNames /\ LoadNames \subseteq Screens
    BY DEF LoadNames, Screens
  <1>2. \E n \in {"held", "home"}, id \in Nat : AfterSend(p) = HoldScreen(n, id)
    BY FirstAdded DEF AfterSend
  <1> QED
    BY <1>1, <1>2, NewScreen

\* A report has its type, and it is true when what landed was what the button said.
LEMMA ReportTyped ==
    ASSUME PhoneTyped, Confirms
    PROVE  /\ hpast' \in PastRecord /\ hpast'.presses = hpast.presses /\ hpast'.newId = hpast.newId
           /\ \E r \in ReportRecord :
                /\ hpast'.reported = hpast.reported \union {r}
                /\ r.kind = hcall.press.kind /\ r.id = hcall.press.id
                /\ r.done <=> \E t \in hcall.landed : t.ok /\ hcall.press.kind \in {t.kind, "finish"}
  <1>1. hpast \in PastRecord /\ hcall.press \in PressRecord
    BY DEF PhoneTyped, SignsTyped, Fits
  <1>2. hcall.press.kind \in Kinds /\ hcall.press.id \in Nat
    BY <1>1 DEF PressRecord
  <1> DEFINE done == \E t \in hcall.landed : t.ok /\ hcall.press.kind \in {t.kind, "finish"}
             r == [kind |-> hcall.press.kind, id |-> hcall.press.id, done |-> done]
  <1>3. hpast' = [hpast EXCEPT !.reported = @ \union {r}]
    BY DEF Confirms, Reported
  <1>4. done \in BOOLEAN
    OBVIOUS
  <1>5. done <=> \E t \in hcall.landed : t.ok /\ hcall.press.kind \in {t.kind, "finish"}
    OBVIOUS
  <1> HIDE DEF done
  <1>6. r \in ReportRecord /\ r.kind = hcall.press.kind /\ r.id = hcall.press.id /\ r.done = done
    BY <1>2, <1>4 DEF ReportRecord
  <1> HIDE DEF r
  <1>7. /\ hpast' \in PastRecord /\ hpast'.presses = hpast.presses /\ hpast'.newId = hpast.newId
        /\ hpast'.reported = hpast.reported \union {r}
    BY <1>1, <1>3, <1>6 DEF PastRecord
  <1> QED
    BY <1>5, <1>6, <1>7

\* A vault that opens leaves a draft, and the live screen.
LEMMA OpenMeans ==
    ASSUME PhoneTyped, OpenConfirms
    PROVE  /\ draft' \in DraftRecord
           /\ draft' = IF draft.touched THEN draft
                       ELSE ChooseGuardian(draft, draft.mode, GuardianText(draft))
           /\ hscreen' \in ScreenRecord /\ hscreen'.name = "live" /\ hscreen'.id = hpast.newId
           /\ hscreen'.bundle = NoBundle
           /\ hcall.phase = "sent" /\ hcall.press.kind = "open"
           /\ \E r \in hcall.landed : r.ok
           /\ Shows(hscreen') /\ hcall' = NoCall
           /\ UNCHANGED <<hvault, hflying, hvaults, hpurse, hpast>>
  <1>1. draft \in DraftRecord /\ hpast.newId \in Nat
    BY DEF PhoneTyped, FormsTyped, SignsTyped, PastRecord
  <1>2. GuardianText(draft) \in Texts /\ draft.mode \in {"phone", "seeker"}
    BY <1>1, TermsTyped DEF DraftRecord
  <1>3. draft' = IF draft.touched THEN draft
                 ELSE ChooseGuardian(draft, draft.mode, GuardianText(draft))
    BY DEF OpenConfirms
  <1>4. draft' \in DraftRecord
    BY <1>1, <1>2, <1>3, ChosenTyped
  <1>5. PICK s : s = HoldScreen("live", hpast.newId)
    OBVIOUS
  <1>6. s \in ScreenRecord /\ s.name = "live" /\ s.id = hpast.newId /\ s.bundle = NoBundle
    BY <1>1, <1>5, NewScreen DEF Screens
  <1>7. hscreen' = [s EXCEPT !.status = "ready"] /\ Shows(hscreen')
    BY <1>5 DEF OpenConfirms, Shows
  <1>8. /\ hscreen' \in ScreenRecord /\ hscreen'.name = "live" /\ hscreen'.id = hpast.newId
        /\ hscreen'.bundle = NoBundle
    BY <1>6, <1>7 DEF ScreenRecord
  <1> QED
    BY <1>3, <1>4, <1>7, <1>8 DEF OpenConfirms, HeardOf

\* A request for the other key is made from a press.
LEMMA PartialMade ==
    ASSUME PhoneTyped, SignPartial
    PROVE  /\ hcall.phase = "wallet"
           /\ \E s \in TxRecord : request' = {s} /\ s.n = hcall.n
           /\ hcall' = NoCall
           /\ UNCHANGED <<hvault, hscreen, hdest, hpreview, hresolve, hpress, hflying, setupVars, hpast>>
  <1>1. hcall \in CallRecord /\ hcall.press.kind \in TxKinds
    BY DEF PhoneTyped, SignsTyped, Fits, SignPartial, TxKinds
  <1>2. Made(hcall) \in TxRecord /\ Made(hcall).n = hcall.n
    BY <1>1, MadeTyped
  <1> QED
    BY <1>2 DEF SignPartial

\* The other phone signs what it is given.
LEMMA OtherKeyMeans ==
    ASSUME PhoneTyped, OtherKeySigns
    PROVE  /\ \E x \in request, s \in TxRecord : hflying' = hflying \union {s} /\ s.n = x.n
           /\ UNCHANGED <<hvault, hscreen, useVars, hpress, hcall, setupVars, hpast>>
  <1>1. request \subseteq TxRecord
    BY DEF PhoneTyped, SignsTyped
  <1>2. PICK x \in request : hflying' = hflying \union {[x EXCEPT !.keys = @ \union {"guardian"}]}
    BY DEF OtherKeySigns
  <1>3. PICK s : s = [x EXCEPT !.keys = @ \union {"guardian"}]
    OBVIOUS
  <1>4. s \in TxRecord /\ s.n = x.n
    BY <1>1, <1>3 DEF TxRecord
  <1> QED
    BY <1>2, <1>3, <1>4 DEF OtherKeySigns

\* A request from the other phone has no press of this one.
LEMMA PasteMeans ==
    ASSUME PhoneTyped, PasteRequest
    PROVE  /\ hcall = NoCall
           /\ \E s \in TxRecord : request' = {s} /\ s.n = 0
           /\ UNCHANGED <<hvault, hscreen, hdest, hpreview, hresolve, hpress, hcall, hflying, setupVars,
                          hpast>>
  <1>1. hvault \in VaultRecord /\ hscreen.name \in {"skip", "thaw"}
    BY DEF PhoneTyped, VaultTyped, PasteRequest
  <1>2. RowIds(hvault) \subseteq Nat
    BY <1>1, RowIdsAreNumbers
  <1>3. PICK id \in Nat : request' = {Tx(0, hscreen.name, id, KnownDest, {"guardian"})}
    BY <1>2 DEF PasteRequest
  <1>4. PICK s : s = Tx(0, hscreen.name, id, KnownDest, {"guardian"})
    OBVIOUS
  <1>5. hscreen.name \in TxKinds
    BY <1>1 DEF TxKinds
  <1>6. s \in TxRecord /\ s.n = 0
    BY <1>4, <1>5, KnownIsADest DEF Tx, TxRecord
  <1> QED
    BY <1>3, <1>4, <1>6 DEF PasteRequest

\* Types are kept, action by action.
LEMMA HoldTypedStep ==
    ASSUME PhoneTyped, IdsPart, Deeds
    PROVE  PhoneTyped'
  <1>1. /\ hvault \in VaultRecord /\ hscreen \in ScreenRecord
        /\ hdest \in Dests /\ hpreview \in [outcome : Outcomes, dest : Dests] /\ hresolve.dest \in Dests
        /\ draft \in DraftRecord /\ IsFiniteSet(hvaults)
        /\ Fits(hpress) /\ hcall \in CallRecord /\ Fits(hcall.press)
        /\ hcall.phase = "sent" => hcall.press.kind \notin {"none", "skip"}
        /\ hflying \subseteq TxRecord /\ request \subseteq TxRecord /\ hpast \in PastRecord
    BY DEF PhoneTyped, VaultTyped, FormsTyped, SignsTyped
  <1> USE DEF PhoneTyped, VaultTyped, FormsTyped, SignsTyped, useVars, setupVars
  <1>2. CASE Navigates
    <2>1. PICK n \in LoadNames, id \in Nat : Shows(HoldScreen(n, id))
      BY <1>2 DEF Navigates
    <2>2. HoldScreen(n, id) \in ScreenRecord
      BY NewScreen DEF LoadNames, Screens
    <2> QED
      BY <1>1, <1>2, <2>1, <2>2, LeavesTyped, Nothing DEF Navigates
  <1>3. CASE ReadsVault
    BY <1>1, <1>3, Nothing DEF ReadsVault
  <1>4. CASE FillsIn
    BY <1>1, <1>4 DEF FillsIn
  <1>5. CASE Drafts
    BY <1>1, <1>5 DEF Drafts
  <1>6. CASE HoldBegins
    BY <1>1, <1>6, PressBegun
  <1>7. CASE HoldReleased
    BY <1>1, <1>7, Nothing DEF HoldReleased
  <1>8. CASE PressCompletes
    BY <1>1, <1>8, CallBegun, Nothing
  <1>9. CASE OtherKeySigns
    BY <1>1, <1>9, OtherKeyMeans
  <1>10. CASE PasteRequest
    BY <1>1, <1>10, PasteMeans
  <1>11. CASE Fails
    BY <1>1, <1>11, Nothing DEF Fails
  <1>12. CASE SignPartial
    BY <1>1, <1>12, PartialMade, Nothing
  <1>13. CASE WalletSends
    BY <1>1, <1>13, WalletSent
  <1>14. CASE Confirms
    <2>1. hcall.phase = "sent" /\ Shows(After(hcall.press))
          /\ UNCHANGED <<hvault, hflying, setupVars>> /\ hcall' = NoCall
      BY <1>14 DEF Confirms
    <2>2. hcall.press \in PressRecord /\ hcall.press.kind \in {"stop", "freeze", "recover", "thaw", "finish"}
      BY <1>1, <1>14, <2>1 DEF Fits, PressRecord, Kinds, TxKinds, Confirms
    <2>3. After(hcall.press) \in ScreenRecord
      BY <2>2, AfterTyped
    <2>4. hpast' \in PastRecord
      BY <1>14, ReportTyped
    <2> QED
      BY <1>1, <2>1, <2>3, <2>4, LeavesTyped, Nothing
  <1>15. CASE OpenConfirms
    BY <1>1, <1>15, OpenMeans, LeavesTyped, Nothing
  <1>16. CASE SendConfirms
    <2>1. hcall' = [hcall EXCEPT !.phase = "reread"]
          /\ UNCHANGED <<hvault, hscreen, useVars, hpress, hflying, setupVars, hpast>>
      BY <1>16 DEF SendConfirms
    <2>2. hcall' \in CallRecord /\ hcall'.press = hcall.press /\ hcall'.phase = "reread"
      BY <1>1, <2>1, CallGoes
    <2> QED
      BY <1>1, <2>1, <2>2
  <1>17. CASE Reread
    <2>1. Shows(AfterSend(hcall.press)) /\ hcall' = NoCall
          /\ UNCHANGED <<hvault, hflying, setupVars, hpast>>
      BY <1>17 DEF Reread
    <2>2. AfterSend(hcall.press) \in ScreenRecord
      BY <1>1, AfterSendTyped
    <2> QED
      BY <1>1, <2>1, <2>2, LeavesTyped, Nothing
  <1>18. ASSUME NEW x \in hflying, Lands(x)
         PROVE  PhoneTyped'
    <2>1. VaultTyped'
      BY <1>1, <1>18, LandsFollows
    <2> QED
      BY <1>1, <1>18, <2>1, LandsMeans
  <1>19. ASSUME NEW x \in hflying, HoldTxExpires(x)
         PROVE  PhoneTyped'
    BY <1>1, <1>19 DEF HoldTxExpires
  <1>20. CASE SdkNext
    <2>1. VaultTyped'
      BY <1>20, SdkFollows
    <2>2. UNCHANGED <<useVars, hpress, hcall, hflying, draft, hpast>>
      BY <1>20 DEF SdkNext, SdkDeposit, SdkWithdraw, SdkExecute, SdkStop, SdkFreeze, SdkUnfreeze,
             SdkSkip, SdkRecover, SdkProposeChange, SdkApplyChange, SdkCancelChange, SdkInitVault, SdkCall
    <2>3. IsFiniteSet(hvaults')
      <3>1. CASE SdkInitVault
        BY <1>1, <3>1, FS_AddElement DEF SdkInitVault
      <3>2. CASE ~SdkInitVault
        <4>1. hvaults' = hvaults
          BY <1>20, <3>2 DEF SdkNext, SdkDeposit, SdkWithdraw, SdkExecute, SdkStop, SdkFreeze,
                 SdkUnfreeze, SdkSkip, SdkRecover, SdkProposeChange, SdkApplyChange, SdkCancelChange,
                 SdkCall
        <4> QED
          BY <1>1, <4>1
      <3> QED
        BY <3>1, <3>2
    <2> QED
      BY <1>1, <2>1, <2>2, <2>3
  <1> QED
    BY <1>2, <1>3, <1>4, <1>5, <1>6, <1>7, <1>8, <1>9, <1>10, <1>11, <1>12, <1>13, <1>14, <1>15,
       <1>16, <1>17, <1>18, <1>19, <1>20 DEF Deeds

\* A vault that moved keeps what was below its next identifier, and does not bring back a row.
LEMMA MovesOn ==
    ASSUME NEW v \in VaultRecord, NEW w, Follows(v, w), NEW id \in Nat, id < v.next
    PROVE  id < w.next /\ (id \notin RowIds(v) => id \notin RowIds(w))
  BY DEF Follows, VaultRecord

\* The vault only moves on.
LEMMA VaultMoves ==
    ASSUME PhoneTyped, IdsPart, Deeds
    PROVE  Follows(hvault, hvault')
  <1>1. hvault \in VaultRecord
    BY DEF PhoneTyped, VaultTyped
  <1>2. CASE SdkNext
    BY <1>2, SdkFollows DEF PhoneTyped
  <1>3. ASSUME NEW x \in hflying, Lands(x)
        PROVE  Follows(hvault, hvault')
    BY <1>3, LandsFollows DEF PhoneTyped, SignsTyped
  <1>4. CASE hvault' = hvault
    BY <1>1, <1>4, RowsKept
  <1>5. hvault' = hvault \/ SdkNext \/ \E x \in hflying : Lands(x)
    BY DEF Deeds, Navigates, ReadsVault, FillsIn, Drafts, HoldBegins, HoldReleased, PressCompletes,
           OtherKeySigns, PasteRequest, Fails, SignPartial, WalletSends, Confirms, OpenConfirms,
           SendConfirms, Reread, HoldTxExpires
  <1> QED
    BY <1>2, <1>3, <1>4, <1>5

\* The vaults that were opened stay.
LEMMA VaultsStay ==
    ASSUME PhoneTyped, IdsPart, Deeds
    PROVE  hvaults \subseteq hvaults'
  <1>1. CASE SdkNext
    BY <1>1 DEF SdkNext, SdkDeposit, SdkWithdraw, SdkExecute, SdkStop, SdkFreeze, SdkUnfreeze, SdkSkip,
           SdkRecover, SdkProposeChange, SdkApplyChange, SdkCancelChange, SdkInitVault, SdkCall, setupVars
  <1>2. ASSUME NEW x \in hflying, Lands(x)
        PROVE  hvaults \subseteq hvaults'
    BY <1>2, LandsMeans
  <1>3. hvaults' = hvaults \/ SdkNext \/ \E x \in hflying : Lands(x)
    BY DEF Deeds, Navigates, ReadsVault, FillsIn, Drafts, HoldBegins, HoldReleased, PressCompletes,
           OtherKeySigns, PasteRequest, Fails, SignPartial, WalletSends, Confirms, OpenConfirms,
           SendConfirms, Reread, HoldTxExpires, setupVars
  <1> QED
    BY <1>1, <1>2, <1>3

-----------------------------------------------------------------------------
(* The Hold screens: the parts of the invariant, one by one                *)

\* What each step does to the readings of the vault that the phone keeps.
LEMMA Readings ==
    ASSUME PhoneTyped, IdsPart, Deeds
    PROVE  /\ hscreen'.bundle = hscreen.bundle \/ hscreen'.bundle = NoBundle \/ hscreen'.bundle = hvault
           /\ hpress' = hpress \/ hpress' = NoPress \/ hpress'.before = RowIds(hscreen.bundle)
           /\ hcall'.press = hcall.press \/ hcall'.press = NoPress \/ hcall'.press = hpress
  <1>1. hvault \in VaultRecord /\ hcall \in CallRecord /\ hcall.press \in PressRecord
    BY DEF PhoneTyped, VaultTyped, SignsTyped, Fits
  <1>2. CASE Navigates
    <2>1. PICK n \in LoadNames, id \in Nat : Shows(HoldScreen(n, id))
      BY <1>2 DEF Navigates
    <2>2. n \in Screens
      BY DEF LoadNames, Screens
    <2>3. hscreen'.bundle = NoBundle
      BY <2>1, <2>2, NewScreen, LeavesTyped
    <2> QED
      BY <1>2, <2>1, <2>3 DEF Navigates, Shows
  <1>3. CASE ReadsVault \/ FillsIn \/ Drafts
    BY <1>3 DEF ReadsVault, FillsIn, Drafts
  <1>4. CASE HoldBegins
    BY <1>4, PressBegun
  <1>5. CASE HoldReleased \/ Fails
    BY <1>5, Nothing DEF HoldReleased, Fails
  <1>6. CASE PressCompletes
    BY <1>6, CallBegun
  <1>7. CASE OtherKeySigns \/ PasteRequest \/ SignPartial
    BY <1>7, OtherKeyMeans, PasteMeans, PartialMade, Nothing
  <1>8. CASE WalletSends
    BY <1>8, WalletSent
  <1>9. CASE Confirms
    <2>1. Shows(After(hcall.press)) /\ hcall' = NoCall
      BY <1>9 DEF Confirms
    <2>2. hcall.press.kind \in {"stop", "freeze", "recover", "thaw", "finish"}
      BY <1>1, <1>9 DEF PhoneTyped, SignsTyped, PressRecord, Kinds, TxKinds, Confirms
    <2>3. hscreen'.bundle = NoBundle
      <3>1. \E n \in Screens, id \in Nat : After(hcall.press) = HoldScreen(n, id)
        <4>1. hcall.press.id \in Nat /\ {"held", "frozen", "home"} \subseteq Screens
          BY <1>1 DEF PressRecord, Screens
        <4>2. After(hcall.press) \in {HoldScreen("held", hcall.press.id), HoldScreen("frozen", 0),
                                      HoldScreen("home", 0)}
          BY <2>2, Zenon DEF After
        <4> QED
          BY <4>1, <4>2
      <3>2. hscreen' = After(hcall.press)
        BY <2>1 DEF Shows
      <3> QED
        BY <3>1, <3>2, NewScreen
    <2> QED
      BY <2>1, <2>3, Nothing DEF Shows
  <1>10. CASE OpenConfirms
    BY <1>10, OpenMeans, Nothing DEF Shows
  <1>11. CASE SendConfirms
    BY <1>1, <1>11, CallGoes DEF SendConfirms
  <1>12. CASE Reread
    BY <1>1, <1>12, AfterSendTyped, Nothing DEF Reread, Shows
  <1>13. ASSUME NEW x \in hflying, Lands(x) \/ HoldTxExpires(x)
         PROVE  hscreen' = hscreen /\ hpress' = hpress /\ hcall'.press = hcall.press
    BY <1>13, LandsMeans DEF HoldTxExpires
  <1>14. CASE SdkNext
    BY <1>14 DEF SdkNext, SdkDeposit, SdkWithdraw, SdkExecute, SdkStop, SdkFreeze, SdkUnfreeze, SdkSkip,
           SdkRecover, SdkProposeChange, SdkApplyChange, SdkCancelChange, SdkInitVault, SdkCall
  <1> QED
    BY <1>2, <1>3, <1>4, <1>5, <1>6, <1>7, <1>8, <1>9, <1>10, <1>11, <1>12, <1>13, <1>14 DEF Deeds

\* Identifiers that were read stay below the next one.
LEMMA IdsStep ==
    ASSUME PhoneTyped, IdsPart, Deeds
    PROVE  IdsPart'
  <1>1. /\ hvault \in VaultRecord /\ Follows(hvault, hvault') /\ hvault'.next \in Nat
        /\ hvault.next \in Nat /\ hvault'.next >= hvault.next
    BY VaultMoves DEF PhoneTyped, VaultTyped, VaultRecord, Follows
  <1>2. /\ hscreen.bundle \in VaultRecord \union {NoBundle}
        /\ hpress.before \subseteq Nat /\ hcall.press.before \subseteq Nat
    BY DEF PhoneTyped, VaultTyped, SignsTyped, ScreenRecord, PressRecord, Fits
  <1>3. ASSUME NEW ids, ids \subseteq Nat, Below(hvault, ids)
        PROVE  Below(hvault', ids)
    BY <1>1, <1>3 DEF Below
  <1>4. RowIds(hvault) \subseteq Nat /\ RowIds(hscreen.bundle) \subseteq Nat
    BY <1>1, <1>2, RowIdsAreNumbers
  <1>5. Below(hvault', RowIds(hvault')) /\ Below(hvault', RowIds(hvault))
    <2>1. Below(hvault', RowIds(hvault))
      BY <1>3, <1>4 DEF IdsPart
    <2>2. \A id \in RowIds(hvault') : id \in RowIds(hvault) \/ id < hvault'.next
      BY <1>1 DEF Follows
    <2> QED
      BY <2>1, <2>2 DEF Below
  <1>6. Below(hvault', RowIds(NoBundle)) /\ Below(hvault', NoPress.before)
    BY NothingRead, Nothing DEF Below
  <1>7. Below(hvault', RowIds(hscreen.bundle)) /\ Below(hvault', hpress.before)
        /\ Below(hvault', hcall.press.before)
    BY <1>2, <1>3, <1>4 DEF IdsPart
  <1>8. Below(hvault', RowIds(hscreen'.bundle)) /\ Below(hvault', hpress'.before)
        /\ Below(hvault', hcall'.press.before)
    BY <1>5, <1>6, <1>7, Readings
  <1> QED
    BY <1>5, <1>8 DEF IdsPart

\* Presses and their transactions stay matched, action by action.
LEMMA NumberStep ==
    ASSUME PhoneTyped, IdsPart, NumberPart, Deeds
    PROVE  NumberPart'
  <1>1. /\ hpast.presses \in Nat /\ hcall.n \in Nat /\ hcall \in CallRecord
        /\ \A x \in hflying \union request : x.n \in Nat
    BY DEF PhoneTyped, SignsTyped, PastRecord, CallRecord, TxRecord
  <1> USE DEF useVars, setupVars
  <1>2. CASE Navigates
    <2>1. PICK n \in LoadNames, id \in Nat : Shows(HoldScreen(n, id))
      BY <1>2 DEF Navigates
    <2>2. request' = {} /\ hpress' = NoPress
          /\ UNCHANGED <<hcall, hflying, hpast>>
      BY <1>2, <2>1 DEF Navigates, Shows
    <2> QED
      BY <2>2 DEF NumberPart, Matches
  <1>3. CASE ReadsVault
    <2>1. (hpress' = hpress \/ hpress' = NoPress) /\ UNCHANGED <<request, hcall, hflying, hpast>>
      BY <1>3 DEF ReadsVault
    <2> QED
      BY <2>1 DEF NumberPart, Matches
  <1>4. CASE FillsIn \/ Drafts \/ SdkNext
    <2>1. UNCHANGED <<hpress, request, hcall, hflying, hpast>>
      BY <1>4 DEF FillsIn, Drafts, SdkNext, SdkDeposit, SdkWithdraw, SdkExecute, SdkStop, SdkFreeze,
             SdkUnfreeze, SdkSkip, SdkRecover, SdkProposeChange, SdkApplyChange, SdkCancelChange,
             SdkInitVault, SdkCall
    <2> QED
      BY <2>1 DEF NumberPart, Matches
  <1>5. CASE HoldBegins
    <2>1. hcall = NoCall /\ UNCHANGED <<request, hcall, hflying, hpast>>
      BY <1>5, PressBegun
    <2> QED
      BY <2>1, Nothing DEF NumberPart
  <1>6. CASE HoldReleased
    <2>1. hpress' = NoPress /\ UNCHANGED <<request, hcall, hflying, hpast>>
      BY <1>6 DEF HoldReleased
    <2> QED
      BY <2>1 DEF NumberPart, Matches
  <1>7. CASE PressCompletes
    <2>1. /\ hpress' = NoPress /\ hcall'.phase = "wallet" /\ hcall'.landed = {}
          /\ hcall'.n = hpast.presses + 1 /\ hpast'.presses = hpast.presses + 1
          /\ UNCHANGED <<request, hflying>>
      BY <1>7, CallBegun
    <2>2. \A x \in hflying \union request : x.n < hpast.presses + 1 /\ x.n <= hpast.presses + 1
      BY <1>1 DEF NumberPart
    <2> QED
      BY <2>1, <2>2 DEF NumberPart
  <1>8. CASE OtherKeySigns
    <2>1. PICK x \in request, s \in TxRecord : hflying' = hflying \union {s} /\ s.n = x.n
      BY <1>8, OtherKeyMeans
    <2>2. UNCHANGED <<hpress, request, hcall, hpast>>
      BY <1>8, OtherKeyMeans
    <2>3. s.n <= hpast.presses /\ (hcall # NoCall => s.n < hcall.n)
      BY <2>1 DEF NumberPart
    <2>4. hcall.phase \in {"wallet", "sent"} => hcall # NoCall
      BY Nothing
    <2>5. hcall # NoCall => ~(s.n = hcall.n)
      BY <1>1, <2>1, <2>3
    <2> QED
      BY <2>1, <2>2, <2>3, <2>4, <2>5 DEF NumberPart, Matches
  <1>9. CASE PasteRequest
    <2>1. PICK s \in TxRecord : request' = {s} /\ s.n = 0
      BY <1>9, PasteMeans
    <2>2. hcall = NoCall /\ UNCHANGED <<hpress, hcall, hflying, hpast>>
      BY <1>9, PasteMeans
    <2> QED
      BY <1>1, <2>1, <2>2, Nothing DEF NumberPart
  <1>10. CASE Fails
    <2>1. hcall' = NoCall /\ UNCHANGED <<hpress, request, hflying, hpast>>
      BY <1>10 DEF Fails
    <2> QED
      BY <2>1, Nothing DEF NumberPart
  <1>11. CASE SignPartial
    <2>1. PICK s \in TxRecord : request' = {s} /\ s.n = hcall.n
      BY <1>11, PartialMade
    <2>2. hcall.phase = "wallet" /\ hcall' = NoCall /\ UNCHANGED <<hpress, hflying, hpast>>
      BY <1>11, PartialMade
    <2>3. hcall.n = hpast.presses
      BY <2>2, Nothing DEF NumberPart
    <2> QED
      BY <1>1, <2>1, <2>2, <2>3, Nothing DEF NumberPart
  <1>12. CASE WalletSends
    <2>1. PICK s \in TxRecord :
            hflying' = hflying \union {s} /\ s.n = hcall.n /\ Matches(s, hcall.press)
      BY <1>12, WalletSent
    <2>2. /\ hcall.phase = "wallet" /\ hcall'.phase = "sent"
          /\ hcall'.press = hcall.press /\ hcall'.n = hcall.n
          /\ UNCHANGED <<hpress, request, hpast>>
      BY <1>12, WalletSent
    <2>3. hcall # NoCall /\ hcall.n = hpast.presses /\ hpress = NoPress
          /\ \A x \in hflying : x.n < hcall.n
      BY <2>2, Nothing DEF NumberPart
    <2>4. \A x \in hflying : ~(x.n = hcall.n)
      BY <1>1, <2>3
    <2>5. \A x \in hflying' \union request' : x.n <= hpast'.presses
      BY <1>1, <2>1, <2>2, <2>3 DEF NumberPart
    <2>6. hcall'.phase = "sent" => \A x \in hflying' : x.n = hcall'.n => Matches(x, hcall.press)'
      BY <2>1, <2>2, <2>4 DEF Matches
    <2>7. \A x \in request' : x.n < hcall'.n
      BY <2>2, <2>3 DEF NumberPart
    <2> QED
      BY <2>2, <2>3, <2>5, <2>6, <2>7 DEF NumberPart, Matches
  <1>13. CASE Confirms
    <2>1. hcall' = NoCall /\ hflying' = hflying /\ request' = {}
      BY <1>13 DEF Confirms, Shows
    <2>2. hpast'.presses = hpast.presses
      BY <1>13, ReportTyped
    <2> QED
      BY <2>1, <2>2, Nothing DEF NumberPart
  <1>14. CASE OpenConfirms
    <2>1. hcall' = NoCall /\ UNCHANGED <<hflying, hpast>> /\ request' = {}
      BY <1>14, OpenMeans DEF Shows
    <2> QED
      BY <2>1, Nothing DEF NumberPart
  <1>15. CASE SendConfirms
    <2>1. /\ hcall'.phase = "reread" /\ hcall'.press = hcall.press /\ hcall'.n = hcall.n
          /\ hcall.phase = "sent" /\ hcall.press.kind = "withdraw"
          /\ UNCHANGED <<hpress, request, hflying, hpast>>
      BY <1>1, <1>15, CallGoes DEF SendConfirms
    <2> QED
      BY <2>1, Nothing DEF NumberPart
  <1>16. CASE Reread
    <2>1. hcall' = NoCall /\ request' = {} /\ UNCHANGED <<hflying, hpast>>
      BY <1>16 DEF Reread, Shows
    <2> QED
      BY <2>1, Nothing DEF NumberPart
  <1>17. ASSUME NEW x \in hflying, Lands(x)
         PROVE  NumberPart'
    <2>1. /\ hflying' = hflying \ {x} /\ UNCHANGED <<hpress, request, hpast>>
          /\ hcall'.press = hcall.press /\ hcall'.phase = hcall.phase /\ hcall'.n = hcall.n
          /\ hcall' = hcall \/ hcall.phase = "sent"
      BY <1>17, LandsMeans
    <2>2. hcall # NoCall => hcall' # NoCall
      BY <2>1, Nothing
    <2>3. hcall = NoCall => hcall' = NoCall
      BY <2>1, Nothing
    <2> QED
      BY <2>1, <2>2, <2>3 DEF NumberPart, Matches
  <1>18. ASSUME NEW x \in hflying, HoldTxExpires(x)
         PROVE  NumberPart'
    <2>1. hflying' = hflying \ {x} /\ UNCHANGED <<hpress, request, hcall, hpast>>
      BY <1>18 DEF HoldTxExpires
    <2> QED
      BY <2>1 DEF NumberPart, Matches
  <1> QED
    BY <1>2, <1>3, <1>4, <1>5, <1>6, <1>7, <1>8, <1>9, <1>10, <1>11, <1>12, <1>13, <1>14, <1>15,
       <1>16, <1>17, <1>18 DEF Deeds

\* What landed stays true while the vault moves on.
LEMMA DidKept ==
    ASSUME PhoneTyped, IdsPart, Deeds, NEW r \in LandedRecord, Did(r, hcall.press),
           hcall'.press = hcall.press, hpast'.newId = hpast.newId
    PROVE  Did(r, hcall.press)'
  <1>1. hvault \in VaultRecord /\ Follows(hvault, hvault') /\ hvaults \subseteq hvaults' /\ r.id \in Nat
    BY VaultMoves, VaultsStay DEF PhoneTyped, VaultTyped, LandedRecord
  <1>2. Gone(hvault, r.id) => Gone(hvault', r.id)
    BY <1>1, MovesOn DEF Gone
  <1>3. Opened(hcall.press) => Opened(hcall.press)'
    BY <1>1 DEF Opened
  <1> QED
    BY <1>2, <1>3 DEF Did

\* What each step does to the press being worked on and to what landed of it.
LEMMA CallMoves ==
    ASSUME PhoneTyped, IdsPart, Deeds
    PROVE  \/ hcall'.landed = {}
           \/ /\ hcall'.press = hcall.press /\ hcall'.landed = hcall.landed
              /\ hpast'.newId = hpast.newId
           \/ \E x \in hflying : Lands(x)
  <1>1. hcall \in CallRecord
    BY DEF PhoneTyped, SignsTyped
  <1>2. CASE Fails \/ SignPartial \/ PressCompletes \/ Confirms \/ OpenConfirms \/ Reread
    BY <1>2, CallBegun, PartialMade, Nothing DEF Fails, Confirms, OpenConfirms, Reread
  <1>3. CASE SendConfirms
    BY <1>1, <1>3, CallGoes DEF SendConfirms
  <1>4. CASE WalletSends
    BY <1>4, WalletSent
  <1>5. CASE \/ Navigates \/ ReadsVault \/ FillsIn \/ Drafts \/ HoldBegins \/ HoldReleased
             \/ OtherKeySigns \/ PasteRequest \/ SdkNext \/ \E x \in hflying : HoldTxExpires(x)
    BY <1>5 DEF Navigates, ReadsVault, FillsIn, Drafts, HoldBegins, HoldReleased, OtherKeySigns,
           PasteRequest, HoldTxExpires, SdkNext, SdkDeposit, SdkWithdraw, SdkExecute, SdkStop, SdkFreeze,
           SdkUnfreeze, SdkSkip, SdkRecover, SdkProposeChange, SdkApplyChange, SdkCancelChange,
           SdkInitVault, SdkCall
  <1> QED
    BY <1>2, <1>3, <1>4, <1>5 DEF Deeds

\* What was heard of the press being worked on is what it did.
LEMMA LandedStep ==
    ASSUME PhoneTyped, IdsPart, NumberPart, LandedPart, Deeds
    PROVE  LandedPart'
  <1>1. /\ hvault \in VaultRecord /\ hcall \in CallRecord /\ hcall.landed \subseteq LandedRecord
        /\ hflying \subseteq TxRecord
    BY DEF PhoneTyped, VaultTyped, SignsTyped, CallRecord
  <1>2. CASE hcall'.landed = {}
    BY <1>2 DEF LandedPart
  <1>3. CASE /\ hcall'.press = hcall.press /\ hcall'.landed = hcall.landed
             /\ hpast'.newId = hpast.newId
    <2>1. ASSUME NEW r \in hcall.landed
          PROVE  Did(r, hcall.press)'
      BY <1>1, <1>3, <2>1, DidKept DEF LandedPart
    <2> QED
      BY <1>3, <2>1 DEF LandedPart
  <1>4. ASSUME NEW x \in hflying, Lands(x)
        PROVE  LandedPart'
    <2>1. /\ hcall'.press = hcall.press /\ hpast' = hpast
          /\ \/ hcall' = hcall
             \/ /\ hcall.phase = "sent" /\ x.n = hcall.n
                /\ \E r \in LandedRecord : hcall'.landed = {r} /\ HeardAs(r, x)
      BY <1>4, LandsMeans
    <2>2. CASE hcall' = hcall
      <3>1. ASSUME NEW r \in hcall.landed
            PROVE  Did(r, hcall.press)'
        BY <1>1, <2>1, <2>2, <3>1, DidKept DEF LandedPart
      <3> QED
        BY <2>2, <3>1 DEF LandedPart
    <2>3. CASE /\ hcall.phase = "sent" /\ x.n = hcall.n
               /\ \E r \in LandedRecord : hcall'.landed = {r} /\ HeardAs(r, x)
      <3>1. PICK r \in LandedRecord : hcall'.landed = {r} /\ HeardAs(r, x)
        BY <2>3
      <3>2. Matches(x, hcall.press)
        BY <2>3 DEF NumberPart
      <3>3. hvault.next \notin hcall.press.before
        BY <1>1 DEF IdsPart, Below, VaultRecord
      <3>4. hcall.press.kind = "finish" \/ r.kind = hcall.press.kind
        BY <3>1, <3>2 DEF HeardAs, Matches
      <3>5. hcall.press.kind = "stop" => r.id = hcall.press.id
        BY <3>1, <3>2, <3>4 DEF HeardAs, Matches
      <3>6. r.held => r.id \notin hcall.press.before
        BY <3>1, <3>3 DEF HeardAs
      <3>7. r.ok /\ hcall.press.kind = "open" =>
              \E v \in hvaults' : v.id = hpast.newId /\ v.terms = hcall.press.terms[1]
        BY <3>1, <3>2, <3>4 DEF HeardAs, Matches
      <3>8. r.ok /\ r.kind = "stop" => Gone(hvault', r.id)
        BY <3>1 DEF HeardAs
      <3>9. Did(r, hcall.press)'
        BY <2>1, <3>4, <3>5, <3>6, <3>7, <3>8 DEF Did, Opened
      <3> QED
        BY <3>1, <3>9 DEF LandedPart
    <2> QED
      BY <2>1, <2>2, <2>3
  <1> QED
    BY <1>2, <1>3, <1>4, CallMoves

\* A report that is made is true, and the earlier ones stay true.
LEMMA ReportStep ==
    ASSUME PhoneTyped, IdsPart, NumberPart, LandedPart, ReportPart, Deeds
    PROVE  ReportPart'
  <1>1. /\ hvault \in VaultRecord /\ Follows(hvault, hvault')
        /\ \A r \in hpast.reported : r.id \in Nat
        /\ \A t \in hcall.landed : t.id \in Nat
        /\ hcall.landed \subseteq LandedRecord
    BY VaultMoves DEF PhoneTyped, VaultTyped, SignsTyped, PastRecord, ReportRecord, CallRecord, LandedRecord
  <1>2. \A id \in Nat : Gone(hvault, id) => Gone(hvault', id)
    BY <1>1, MovesOn DEF Gone
  <1>3. CASE hpast'.reported = hpast.reported
    BY <1>1, <1>2, <1>3 DEF ReportPart
  <1>4. CASE Confirms
    <2>1. PICK r \in ReportRecord :
                /\ hpast'.reported = hpast.reported \union {r}
                /\ r.kind = hcall.press.kind /\ r.id = hcall.press.id
                /\ r.done <=> \E t \in hcall.landed : t.ok /\ hcall.press.kind \in {t.kind, "finish"}
      BY <1>4, ReportTyped
    <2>2. PICK t \in hcall.landed : t.ok
      BY <1>4 DEF Confirms, HeardOf
    <2>3. Did(t, hcall.press)
      BY DEF LandedPart
    <2>4. hcall.press.kind \in {t.kind, "finish"}
      BY <2>3 DEF Did
    <2>5. r.done
      BY <2>1, <2>2, <2>4
    <2>6. r.kind = "stop" => Gone(hvault', r.id)
      BY <1>1, <1>2, <2>1, <2>2, <2>3, <2>4 DEF Did
    <2> QED
      BY <1>1, <1>2, <2>1, <2>5, <2>6 DEF ReportPart
  <1>5. hpast'.reported = hpast.reported \/ Confirms
    <2>1. CASE PressCompletes
      BY <2>1, CallBegun
    <2>2. CASE OpenConfirms \/ WalletSends \/ SignPartial
      BY <2>2, OpenMeans, WalletSent, PartialMade
    <2>3. CASE \/ Navigates \/ ReadsVault \/ FillsIn \/ Drafts \/ HoldBegins \/ HoldReleased
               \/ OtherKeySigns \/ PasteRequest \/ Fails \/ SendConfirms \/ Reread \/ SdkNext
               \/ \E x \in hflying : Lands(x) \/ HoldTxExpires(x)
      BY <2>3 DEF Navigates, ReadsVault, FillsIn, Drafts, HoldBegins, HoldReleased, OtherKeySigns,
             PasteRequest, Fails, SendConfirms, Reread, Lands, HoldTxExpires, SdkNext, SdkDeposit,
             SdkWithdraw, SdkExecute, SdkStop, SdkFreeze, SdkUnfreeze, SdkSkip, SdkRecover,
             SdkProposeChange, SdkApplyChange, SdkCancelChange, SdkInitVault, SdkCall
    <2> QED
      BY <2>1, <2>2, <2>3 DEF Deeds
  <1> QED
    BY <1>3, <1>4, <1>5

\* What is drafted stays what is on display while only the vault, the wallet or the chain move.
LEMMA DraftKept ==
    ASSUME DraftPart, draft' = draft, hscreen' = hscreen, hpress' = hpress \/ hpress' = NoPress,
           hvaults \subseteq hvaults',
           \/ hcall' = hcall
           \/ hcall' = NoCall
           \/ hcall # NoCall /\ hcall'.press = hcall.press /\ hcall'.phase \in {hcall.phase, "reread"}
    PROVE  DraftPart'
  <1>1. hcall = NoCall => hcall' = NoCall
    OBVIOUS
  <1>2. \/ hcall'.press = NoPress
        \/ hcall'.press = hcall.press /\ hcall'.phase \in {hcall.phase, "reread"}
    BY Nothing
  <1>3. hpress'.kind = "open" => OnGuardian(hpress)'
    BY Nothing DEF DraftPart, OnGuardian
  <1>4. hcall'.press.kind = "open" => OnGuardian(hcall.press)' /\ hcall'.press = hcall.press
    BY <1>2, Nothing DEF DraftPart, OnGuardian
  <1>6. hcall'.press.kind = "open" /\ hcall'.phase = "sent" => GuardianText(draft) # ""
    BY <1>2, Nothing DEF DraftPart
  <1>7. LiveIsOnChain => LiveIsOnChain'
    BY DEF LiveIsOnChain
  <1> QED
    BY <1>1, <1>3, <1>4, <1>6, <1>7 DEF DraftPart, OnGuardian

\* A step that leads to another screen, with no finger down and no vault being opened.
LEMMA DraftLeft ==
    ASSUME DraftPart, draft' = draft, hscreen'.name \in LoadNames,
           hpress'.kind # "open", hcall'.press.kind # "open"
    PROVE  DraftPart'
  <1>1. hscreen'.name \notin {"amount", "rules", "guardian", "live"}
    BY DEF LoadNames
  <1> QED
    BY <1>1 DEF DraftPart

\* The forms of a new vault.
LEMMA DraftWorked ==
    ASSUME PhoneTyped, DraftPart, Drafts,
           EnterAmount \/ SetRules \/ OpenGuardianScreen \/ AccountsArrive \/ EditKeys
    PROVE  DraftPart'
  <1>1. hscreen \in ScreenRecord /\ draft \in DraftRecord
    BY DEF PhoneTyped, VaultTyped, FormsTyped
  <1>2. hpress.kind # "open" /\ hcall.press.kind # "open"
    <2>1. CASE Drafting
      BY <2>1, Nothing DEF Drafting
    <2>2. CASE AccountsArrive
      BY <2>2 DEF AccountsArrive, DraftPart, OnGuardian, Ready
    <2> QED
      BY <2>1, <2>2 DEF Drafts
  <1>3. hpress' = hpress /\ hcall' = hcall /\ hscreen'.name \in {"amount", "rules", "guardian"}
    BY DEF Drafts
  <1>4. /\ ~draft'.touched /\ draft'.safe # "" => draft'.safe = GuardianText(draft')
        /\ hscreen'.name \in {"amount", "rules"} \/ (hscreen'.name = "guardian" /\ hscreen'.status = "loading") =>
              draft'.mode = "seeker"
    <2>1. CASE EnterAmount
      <3>1. /\ hscreen.name = "amount"
            /\ (\E a \in {0, 1} : draft' = [draft EXCEPT !.amount = a]) \/ draft' = draft
        BY <2>1 DEF EnterAmount
      <3>2. /\ draft'.touched = draft.touched /\ draft'.safe = draft.safe /\ draft'.mode = draft.mode
            /\ draft'.phoneKey = draft.phoneKey /\ draft'.guardian = draft.guardian
        BY <1>1, <3>1 DEF DraftRecord
      <3> QED
        BY <3>1, <3>2 DEF DraftPart, GuardianText
    <2>2. CASE SetRules
      <3>1. hscreen.name = "rules" /\ \E r \in {"everyday", "strict"} : draft' = [draft EXCEPT !.rules = r]
        BY <2>2 DEF SetRules
      <3>2. /\ draft'.touched = draft.touched /\ draft'.safe = draft.safe /\ draft'.mode = draft.mode
            /\ draft'.phoneKey = draft.phoneKey /\ draft'.guardian = draft.guardian
        BY <1>1, <3>1 DEF DraftRecord
      <3> QED
        BY <3>1, <3>2 DEF DraftPart, GuardianText
    <2>3. CASE OpenGuardianScreen
      <3>1. hscreen.name = "rules" /\ draft' = draft
        BY <2>3 DEF OpenGuardianScreen, setupVars
      <3> QED
        BY <3>1 DEF DraftPart, GuardianText
    <2>4. CASE AccountsArrive
      <3>1. hscreen.name = "guardian" /\ hscreen.status = "loading"
            /\ hscreen' = [hscreen EXCEPT !.status = "ready"]
        BY <2>4 DEF AccountsArrive
      <3>2. PICK key \in {"", "second"} : draft' = [draft EXCEPT !.phoneKey = key]
        BY <2>4 DEF AccountsArrive
      <3>3. /\ draft'.touched = draft.touched /\ draft'.safe = draft.safe /\ draft'.mode = draft.mode
            /\ draft'.guardian = draft.guardian
        BY <1>1, <3>2 DEF DraftRecord
      <3>4. draft.mode = "seeker"
        BY <3>1 DEF DraftPart
      <3> QED
        BY <3>3, <3>4 DEF DraftPart, GuardianText
    <2>5. CASE EditKeys
      <3>1. hscreen' = hscreen /\ hscreen.name = "guardian" /\ hscreen.status = "ready"
        BY <2>5 DEF EditKeys, Ready
      <3>2. \/ \E mode \in {"phone", "seeker"} :
                  draft' = ChooseGuardian(draft, mode, IF mode = "phone" THEN draft.phoneKey
                                                       ELSE draft.guardian)
            \/ \E address \in {"other", "owner"} : draft' = ChooseGuardian(draft, "seeker", address)
            \/ \E safe \in {"", "cold"} : draft' = [draft EXCEPT !.safe = safe, !.touched = TRUE]
        BY <2>5 DEF EditKeys
      <3>3. ASSUME NEW mode \in {"phone", "seeker"}, NEW address \in Texts,
                   draft' = ChooseGuardian(draft, mode, address), mode = "phone" => address = draft.phoneKey
            PROVE  ~draft'.touched => draft'.safe = GuardianText(draft')
        <4>1. /\ draft'.mode = mode /\ draft'.guardian = address /\ draft'.touched = draft.touched
              /\ draft'.safe = (IF draft.touched THEN draft.safe ELSE address)
              /\ draft'.phoneKey = draft.phoneKey
          BY <1>1, <3>3, ChosenTyped
        <4> QED
          BY <3>3, <4>1 DEF GuardianText
      <3>4. draft.phoneKey \in Texts /\ draft.guardian \in Texts /\ {"other", "owner"} \subseteq Texts
        BY <1>1 DEF DraftRecord, Texts
      <3>5. ASSUME NEW safe \in {"", "cold"}, draft' = [draft EXCEPT !.safe = safe, !.touched = TRUE]
            PROVE  draft'.touched
        BY <1>1, <3>5 DEF DraftRecord
      <3>6. ~draft'.touched => draft'.safe = GuardianText(draft')
        BY <3>2, <3>3, <3>4, <3>5
      <3> QED
        BY <3>1, <3>6
    <2> QED
      BY <2>1, <2>2, <2>3, <2>4, <2>5
  <1> QED
    BY <1>2, <1>3, <1>4 DEF DraftPart

\* The live screen says of the vault what was opened.
LEMMA LiveDrawn ==
    ASSUME PhoneTyped, LandedPart, DraftPart, OpenConfirms
    PROVE  DraftPart'
  <1>1. draft \in DraftRecord /\ GuardianText(draft) \in Texts /\ draft.mode \in {"phone", "seeker"}
    BY TermsTyped DEF PhoneTyped, FormsTyped, DraftRecord
  <1>2. /\ draft' = IF draft.touched THEN draft
                    ELSE ChooseGuardian(draft, draft.mode, GuardianText(draft))
        /\ hscreen'.name = "live" /\ hscreen'.id = hpast.newId
        /\ hcall.phase = "sent" /\ hcall.press.kind = "open"
        /\ hpress' = NoPress /\ hcall' = NoCall /\ hvaults' = hvaults
    BY OpenMeans DEF Shows
  <1>3. PICK r \in hcall.landed : r.ok
    BY OpenMeans
  <1>4. hcall.press.terms = <<TermsOf(draft)>> /\ GuardianText(draft) # ""
    BY <1>2 DEF DraftPart, OnGuardian
  <1>5. PICK v \in hvaults : v.id = hpast.newId /\ v.terms = TermsOf(draft)
    <2>1. Did(r, hcall.press)
      BY DEF LandedPart
    <2>2. PICK v \in hvaults : v.id = hpast.newId /\ v.terms = hcall.press.terms[1]
      BY <1>2, <1>3, <2>1 DEF Did, Opened
    <2>3. <<TermsOf(draft)>>[1] = TermsOf(draft)
      OBVIOUS
    <2> QED
      BY <1>4, <2>2, <2>3
  <1>6. /\ ~draft'.touched /\ draft'.safe # "" => draft'.safe = GuardianText(draft')
        /\ LiveShows(draft') = TermsOf(draft)
    <2>1. CASE draft.touched
      <3>1. draft' = draft
        BY <1>2, <2>1
      <3>2. LiveShows(draft) = TermsOf(draft)
        BY <1>4 DEF LiveShows, TermsOf, GuardianText
      <3> QED
        BY <2>1, <3>1, <3>2
    <2>2. CASE ~draft.touched
      <3>1. /\ draft'.mode = draft.mode /\ draft'.guardian = GuardianText(draft)
            /\ draft'.safe = GuardianText(draft) /\ draft'.phoneKey = draft.phoneKey
            /\ draft'.amount = draft.amount /\ draft'.rules = draft.rules
        BY <1>1, <1>2, <2>2, ChosenTyped
      <3>2. GuardianText(draft') = GuardianText(draft)
        BY <3>1 DEF GuardianText
      <3>3. SafeShown(draft') = GuardianText(draft) /\ SafeShown(draft) = GuardianText(draft)
        BY <1>4, <2>2, <3>1 DEF SafeShown, DraftPart
      <3>4. LiveShows(draft').guardian = GuardianText(draft)
        BY <1>4, <3>1 DEF LiveShows, GuardianText
      <3>5. LiveShows(draft') = [guardian |-> GuardianText(draft), safe |-> GuardianText(draft),
                                 rules |-> draft.rules, amount |-> draft.amount]
        BY <3>1, <3>3, <3>4 DEF LiveShows
      <3>6. TermsOf(draft) = [guardian |-> GuardianText(draft), safe |-> GuardianText(draft),
                              rules |-> draft.rules, amount |-> draft.amount]
        BY <3>3 DEF TermsOf
      <3> QED
        BY <3>1, <3>2, <3>5, <3>6
    <2> QED
      BY <2>1, <2>2
  <1>7. LiveIsOnChain'
    BY <1>2, <1>5, <1>6 DEF LiveIsOnChain
  <1> QED
    BY <1>2, <1>6, <1>7, Nothing DEF DraftPart

\* What is drafted, held and shown stays one, action by action.
LEMMA DraftStep ==
    ASSUME PhoneTyped, IdsPart, NumberPart, LandedPart, DraftPart, HoldPhoneNext
    PROVE  DraftPart'
  <1>1. Deeds /\ hvaults \subseteq hvaults'
    BY EveryStep, VaultsStay
  <1>2. hcall \in CallRecord /\ hvault \in VaultRecord /\ hcall.press \in PressRecord
    BY DEF PhoneTyped, VaultTyped, SignsTyped, Fits
  <1> USE DEF setupVars
  <1>3. ASSUME hscreen.name \in LoadNames
        PROVE  hpress.kind # "open" /\ hcall.press.kind # "open"
    BY <1>3 DEF DraftPart, OnGuardian, LoadNames
  <1>4. CASE Navigates
    <2>1. PICK n \in LoadNames, id \in Nat : Shows(HoldScreen(n, id))
      BY <1>4 DEF Navigates
    <2>2. n \in Screens
      BY DEF LoadNames, Screens
    <2>3. hscreen'.name = n /\ hpress' = NoPress
      BY <2>1, <2>2, NewScreen DEF Shows
    <2>4. hcall' = hcall /\ draft' = draft /\ hscreen.name \in LoadNames
      BY <1>4 DEF Navigates
    <2> QED
      BY <1>3, <2>3, <2>4, Nothing, DraftLeft
  <1>5. CASE ReadsVault
    <2>1. /\ hcall' = hcall /\ draft' = draft /\ hscreen.name \in LoadNames
          /\ hscreen'.name = hscreen.name /\ (hpress' = hpress \/ hpress' = NoPress)
      BY <1>5 DEF ReadsVault
    <2>2. hpress'.kind # "open"
      BY <1>3, <2>1, Nothing
    <2> QED
      BY <1>3, <2>1, <2>2, DraftLeft
  <1>6. CASE EnterAmount \/ SetRules \/ OpenGuardianScreen \/ AccountsArrive \/ EditKeys
    BY <1>6, DraftsMeans, DraftWorked
  <1>7. CASE HoldBegins
    <2>1. /\ hpress'.kind = "open" => OnGuardian(hpress')
          /\ hcall = NoCall /\ hscreen.name # "live"
          /\ hscreen' = hscreen /\ hcall' = hcall /\ draft' = draft /\ hvaults' = hvaults
      BY <1>7, PressBegun
    <2>2. hcall'.press.kind # "open"
      BY <2>1, Nothing
    <2> QED
      BY <2>1, <2>2 DEF DraftPart, OnGuardian
  <1>8. CASE PressCompletes
    <2>1. /\ hpress # NoPress /\ hpress' = NoPress
          /\ hcall'.press = hpress /\ hcall'.phase = "wallet"
          /\ hscreen' = hscreen /\ draft' = draft /\ hvaults' = hvaults
      BY <1>8, CallBegun
    <2>2. hscreen.name # "live"
      BY <2>1 DEF DraftPart
    <2> QED
      BY <2>1, <2>2, Nothing DEF DraftPart, OnGuardian
  <1>9. CASE WalletSends
    <2>1. /\ hcall.phase = "wallet" /\ hcall'.press = hcall.press /\ hcall'.phase = "sent"
          /\ hcall.press.kind = "open" => hcall.press.terms[1].guardian # ""
          /\ hscreen' = hscreen /\ hpress' = hpress /\ draft' = draft /\ hvaults' = hvaults
      BY <1>9, WalletSent
    <2>2. hscreen.name # "live"
      BY <2>1, Nothing DEF DraftPart
    <2>3. hcall.press.kind = "open" => GuardianText(draft) # ""
      <3>1. draft \in DraftRecord
        BY DEF PhoneTyped, FormsTyped
      <3>2. TermsOf(draft).guardian = GuardianText(draft)
        BY <3>1, TermsTyped
      <3>3. hcall.press.kind = "open" => hcall.press.terms = <<TermsOf(draft)>>
        BY DEF DraftPart, OnGuardian
      <3>4. <<TermsOf(draft)>>[1] = TermsOf(draft)
        OBVIOUS
      <3> QED
        BY <2>1, <3>2, <3>3, <3>4
    <2> QED
      BY <2>1, <2>2, <2>3 DEF DraftPart, OnGuardian
  <1>10. CASE Confirms
    <2>1. Shows(After(hcall.press)) /\ hcall' = NoCall /\ draft' = draft
      BY <1>10 DEF Confirms
    <2>2. hcall.press.kind \in {"stop", "freeze", "recover", "thaw", "finish"}
      BY <1>2, <1>10 DEF PhoneTyped, SignsTyped, PressRecord, Kinds, TxKinds, Confirms
    <2>3. hscreen'.name \in LoadNames /\ hpress' = NoPress
      BY <1>2, <2>1, <2>2, AfterTyped DEF Shows
    <2> QED
      BY <2>1, <2>3, Nothing, DraftLeft
  <1>11. CASE OpenConfirms
    BY <1>11, LiveDrawn
  <1>12. CASE Reread
    <2>1. Shows(AfterSend(hcall.press)) /\ hcall' = NoCall /\ draft' = draft
      BY <1>12 DEF Reread
    <2>2. hscreen'.name \in LoadNames /\ hpress' = NoPress
      BY <1>2, <2>1, AfterSendTyped DEF Shows
    <2> QED
      BY <2>1, <2>2, Nothing, DraftLeft
  <1>13. CASE FillsIn \/ HoldReleased \/ OtherKeySigns \/ PasteRequest \/ Fails
    <2>1. /\ draft' = draft /\ hscreen' = hscreen /\ (hpress' = hpress \/ hpress' = NoPress)
          /\ hcall' = hcall \/ hcall' = NoCall
      BY <1>13 DEF FillsIn, HoldReleased, OtherKeySigns, PasteRequest, Fails
    <2> QED
      BY <1>1, <2>1, DraftKept
  <1>14. CASE SignPartial
    <2>1. draft' = draft /\ hscreen' = hscreen /\ hpress' = hpress /\ hcall' = NoCall
      BY <1>14, PartialMade
    <2> QED
      BY <1>1, <2>1, DraftKept
  <1>15. CASE SendConfirms
    <2>1. /\ draft' = draft /\ hscreen' = hscreen /\ hpress' = hpress
          /\ hcall.phase = "sent" /\ hcall' = [hcall EXCEPT !.phase = "reread"]
      BY <1>15 DEF SendConfirms
    <2>2. hcall # NoCall /\ hcall'.press = hcall.press /\ hcall'.phase = "reread"
      BY <1>2, <2>1, CallGoes, Nothing
    <2> QED
      BY <1>1, <2>1, <2>2, DraftKept
  <1>16. ASSUME NEW x \in hflying, Lands(x) \/ HoldTxExpires(x)
         PROVE  DraftPart'
    <2>1. /\ draft' = draft /\ hscreen' = hscreen /\ hpress' = hpress
          /\ \/ hcall' = hcall
             \/ hcall.phase = "sent" /\ hcall'.press = hcall.press /\ hcall'.phase = hcall.phase
      BY <1>16, LandsMeans DEF HoldTxExpires
    <2>2. hcall.phase = "sent" => hcall # NoCall
      BY Nothing
    <2> QED
      BY <1>1, <2>1, <2>2, DraftKept
  <1>17. CASE SdkNext
    <2>1. draft' = draft /\ hscreen' = hscreen /\ hpress' = hpress /\ hcall' = hcall
      BY <1>17 DEF SdkNext, SdkDeposit, SdkWithdraw, SdkExecute, SdkStop, SdkFreeze, SdkUnfreeze,
             SdkSkip, SdkRecover, SdkProposeChange, SdkApplyChange, SdkCancelChange, SdkInitVault, SdkCall
    <2> QED
      BY <1>1, <2>1, DraftKept
  <1>18. CASE OpenFromHome \/ OpenNotice \/ OpenNext \/ GoBack
    BY <1>4, <1>18, NavigatesMeans
  <1>19. CASE LoadVault \/ LoadFailed \/ Reload
    BY <1>5, <1>19, ReadsMeans
  <1>20. CASE PreviewArrives \/ \E dest \in HoldDests : TypeDestination(dest)
    BY <1>13, <1>20, FillsInMeans
  <1>21. CASE Answers
    BY <1>9, <1>10, <1>11, <1>12, <1>13, <1>14, <1>15, <1>21, FailsMeans DEF Answers
  <1> QED
    BY <1>6, <1>7, <1>8, <1>13, <1>16, <1>17, <1>18, <1>19, <1>20, <1>21 DEF HoldPhoneNext

-----------------------------------------------------------------------------
(* The Hold screens: the theorems                                          *)

\* The invariant holds at first.
LEMMA HoldPhoneStart ==
    ASSUME HoldPhoneInit
    PROVE  HoldPhoneInv
  <1>1. HoldSlots \in Nat \ {0} /\ KnownDest \in Dests /\ "none" \in Dests
    BY HoldPhoneAssumption, KnownIsADest
  <1> DEFINE rows == [i \in 1 .. HoldSlots |-> IF i = 1 THEN [id |-> 1, dest |-> KnownDest] ELSE NoRow]
  <1>2. rows \in [1 .. HoldSlots -> RowRecord] /\ \A i \in 1 .. HoldSlots : rows[i].id \in {0, 1}
    <2>1. [id |-> 1, dest |-> KnownDest] \in RowRecord /\ [id |-> 1, dest |-> KnownDest].id = 1
      BY <1>1 DEF RowRecord
    <2> QED
      BY <2>1, EmptyRow
  <1>3. hvault = [rows |-> rows, next |-> 2, frozen |-> FALSE, funded |-> TRUE, guardian |-> TRUE,
                  armed |-> FALSE, change |-> FALSE, known |-> {KnownDest}]
    BY DEF HoldPhoneInit
  <1> HIDE DEF rows
  <1>4. hvault \in VaultRecord /\ hvault.rows = rows /\ hvault.next = 2
    BY <1>1, <1>2, <1>3 DEF VaultRecord
  <1>5. Below(hvault, RowIds(hvault))
    BY <1>2, <1>4 DEF Below, RowIds
  <1>6. hscreen = HoldScreen("home", 0) \/ hscreen = HoldScreen("amount", 0)
    BY DEF HoldPhoneInit
  <1>7. hscreen \in ScreenRecord /\ hscreen.name \in {"home", "amount"} /\ hscreen.bundle = NoBundle
    BY <1>6, NewScreen DEF Screens
  <1>8. /\ hdest = "none" /\ hpreview = NoPreview /\ hresolve = NoResolve /\ request = {}
        /\ hpress = NoPress /\ hcall = NoCall /\ hflying = {} /\ hvaults = {}
    BY DEF HoldPhoneInit
  <1>9. /\ draft \in DraftRecord /\ draft.mode = "seeker" /\ draft.safe = ""
    BY DEF HoldPhoneInit, DraftRecord, Texts
  <1>10. hpast \in PastRecord /\ hpast.presses = 0 /\ hpast.reported = {}
    BY DEF HoldPhoneInit, PastRecord
  <1>11. PhoneTyped
    BY <1>1, <1>4, <1>7, <1>8, <1>9, <1>10, Nothing, FS_EmptySet
    DEF PhoneTyped, VaultTyped, FormsTyped, SignsTyped
  <1>12. IdsPart
    BY <1>5, <1>7, <1>8, NothingRead, Nothing DEF IdsPart, Below
  <1>13. NumberPart
    BY <1>8, Nothing DEF NumberPart
  <1>14. LandedPart /\ ReportPart
    BY <1>8, <1>10, Nothing DEF LandedPart, ReportPart
  <1>15. DraftPart
    BY <1>7, <1>8, <1>9, Nothing DEF DraftPart
  <1> QED
    BY <1>11, <1>12, <1>13, <1>14, <1>15 DEF HoldPhoneInv

\* Every step keeps the invariant.
LEMMA HoldPhoneStep ==
    ASSUME HoldPhoneInv, [HoldPhoneNext]_holdVars
    PROVE  HoldPhoneInv'
  <1>1. CASE HoldPhoneNext
    <2>1. PhoneTyped /\ IdsPart /\ NumberPart /\ LandedPart /\ ReportPart /\ DraftPart
      BY DEF HoldPhoneInv
    <2>2. Deeds
      BY <1>1, <2>1, EveryStep
    <2> QED
      BY <1>1, <2>1, <2>2, HoldTypedStep, IdsStep, NumberStep, LandedStep, ReportStep, DraftStep
      DEF HoldPhoneInv
  <1>2. CASE UNCHANGED holdVars
    <2>1. UNCHANGED <<hvault, hscreen, hdest, hpreview, hresolve, request, hpress, hcall, hflying,
                      draft, hvaults, hpast>>
      BY <1>2 DEF holdVars, useVars, setupVars
    <2>2. PhoneTyped'
      BY <2>1 DEF HoldPhoneInv, PhoneTyped, VaultTyped, FormsTyped, SignsTyped
    <2>3. IdsPart' /\ NumberPart' /\ LandedPart' /\ ReportPart'
      BY <2>1 DEF HoldPhoneInv, IdsPart, NumberPart, Matches, LandedPart, Did, Opened, ReportPart
    <2>4. DraftPart'
      BY <2>1 DEF HoldPhoneInv, DraftPart, OnGuardian, LiveIsOnChain
    <2> QED
      BY <2>2, <2>3, <2>4 DEF HoldPhoneInv
  <1> QED
    BY <1>1, <1>2

\* Whatever is pressed, sent from elsewhere or lands late, the phone's part of the vault stays
\* as the invariant says.
THEOREM HoldPhoneInvariant == HoldPhoneSpec => []HoldPhoneInv
  <1>1. HoldPhoneInit => HoldPhoneInv
    BY HoldPhoneStart
  <1>2. HoldPhoneInv /\ [HoldPhoneNext]_holdVars => HoldPhoneInv'
    BY HoldPhoneStep
  <1> QED
    BY <1>1, <1>2, PTL DEF HoldPhoneSpec

\* The invariant says what the properties say.
LEMMA ReportsAreTrue ==
    ASSUME HoldPhoneInv
    PROVE  ReportedIsDone /\ LiveIsOnChain
  <1>1. ReportedIsDone
    BY DEF HoldPhoneInv, ReportPart, Gone, ReportedIsDone
  <1>2. LiveIsOnChain
    BY DEF HoldPhoneInv, DraftPart, LiveIsOnChain
  <1> QED
    BY <1>1, <1>2

\* A withdrawal that was held is found again: its identifier was not there when the form was read.
LEMMA SendLeadsToTheRow ==
    ASSUME HoldPhoneInv, [HoldPhoneNext]_holdVars, NEW r \in hcall.landed,
           hcall.phase = "reread", hcall' = NoCall, hscreen' # hscreen,
           r.held, r.id \in RowIds(hvault)
    PROVE  hscreen'.name = "held" /\ hscreen'.id \in RowIds(hvault) \ hcall.press.before
  <1>1. /\ PhoneTyped /\ IdsPart /\ hvault \in VaultRecord
        /\ Did(r, hcall.press)
    BY DEF HoldPhoneInv, PhoneTyped, VaultTyped, LandedPart
  <1>2. hcall # NoCall
    BY Nothing
  <1>3. HoldPhoneNext
    BY DEF holdVars
  <1>4. Reread
    <2>1. Deeds
      BY <1>1, <1>3, EveryStep
    <2>2. ~(\E x \in hflying : Lands(x) \/ HoldTxExpires(x)) /\ ~SdkNext
      BY DEF Lands, HoldTxExpires, SdkNext, SdkDeposit, SdkWithdraw, SdkExecute, SdkStop, SdkFreeze,
             SdkUnfreeze, SdkSkip, SdkRecover, SdkProposeChange, SdkApplyChange, SdkCancelChange,
             SdkInitVault, SdkCall
    <2>3. ~(Navigates \/ ReadsVault \/ Drafts)
      BY <1>2 DEF Navigates, ReadsVault, Drafts
    <2>4. ~(FillsIn \/ Fails \/ HoldBegins \/ HoldReleased \/ OtherKeySigns \/ PasteRequest \/ PressCompletes)
      BY DEF FillsIn, Fails, HoldBegins, HoldReleased, OtherKeySigns, PasteRequest, PressCompletes
    <2>5. ~(SignPartial \/ WalletSends \/ Confirms \/ OpenConfirms \/ SendConfirms)
      BY DEF SignPartial, WalletSends, Confirms, OpenConfirms, SendConfirms
    <2> QED
      BY <2>1, <2>2, <2>3, <2>4, <2>5 DEF Deeds
  <1>5. Added(hcall.press.before) # {}
    <2>1. PICK i \in DOMAIN hvault.rows : hvault.rows[i].id = r.id /\ r.id # 0
      BY DEF RowIds
    <2>2. r.id \notin hcall.press.before
      BY <1>1 DEF Did
    <2> QED
      BY <2>1, <2>2 DEF Added, Waiting
  <1>6. /\ FirstRow(hvault, Added(hcall.press.before)).id \in RowIds(hvault) \ hcall.press.before
        /\ FirstRow(hvault, Added(hcall.press.before)).id \in Nat
    BY <1>1, <1>5, FirstAdded
  <1>7. hscreen' = HoldScreen("held", FirstRow(hvault, Added(hcall.press.before)).id)
    BY <1>4, <1>5 DEF Reread, Shows, AfterSend
  <1>8. "held" \in Screens
    BY DEF Screens
  <1> QED
    BY <1>6, <1>7, <1>8, NewScreen

\* What the phone reports, shows and follows of a vault is what became of it on chain, for any
\* capacity, destinations, presses, calls from elsewhere and identifiers.
THEOREM HoldScreensAreTrue == HoldPhoneSpec => ScreensTellTheTruth
  <1>1. HoldPhoneInv => ReportedIsDone /\ LiveIsOnChain
    BY ReportsAreTrue
  <1>2. ASSUME HoldPhoneInv, [HoldPhoneNext]_holdVars
        PROVE  [\A r \in hcall.landed :
                    /\ hcall.phase = "reread" /\ hcall' = NoCall /\ hscreen' # hscreen
                    /\ r.held /\ r.id \in RowIds(hvault)
                    =>
                        /\ hscreen'.name = "held"
                        /\ hscreen'.id \in RowIds(hvault) \ hcall.press.before]_holdVars
    BY <1>2, SendLeadsToTheRow
  <1> QED
    BY <1>1, <1>2, HoldPhoneInvariant, PTL DEF HoldPhoneSpec, ScreensTellTheTruth, SentIsFollowed

=============================================================================
