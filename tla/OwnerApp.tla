------------------------------ MODULE OwnerApp ------------------------------
(***************************************************************************)
(* The owner's phone: what it stores (app/lib/wallet.ts), how it reads its *)
(* rules (app/lib/useChain.ts, mandateRead.ts), and how it opens, stops,   *)
(* closes and overrides them (app/lib/chain.ts, tradeChain.ts) through a   *)
(* wallet that signs and sends.  Every remote call is a step of its own,   *)
(* so reads overlap, a confirmation is lost while its transaction lands,   *)
(* the app dies between two writes of its store, and the agent spends      *)
(* while the owner is signing.  The chain is kept to what these flows      *)
(* depend on; Mandate has the program itself.                              *)
(***************************************************************************)
EXTENDS Integers, FiniteSets, FiniteSetsExt

CONSTANTS
    Rules,          \* addresses of rules, as their ids: a larger id was opened later
    Standing,       \* the rules on chain when the app starts
    Busy,           \* the rules whose agent acts, and whose clock runs, in this instance
    Keys,           \* agent keys, as the numbers in which they are generated
    AgentOwn,       \* the address of an agent that made its own key
    CAP,            \* the budget of a rule, in payments
    Tasks,          \* the owner's taps, each used once
    Stories,        \* what the taps are, and where the rules keep their budget, in this instance
    Reads,          \* refreshes that may overlap
    CRASHES         \* how often the app is killed

None == 0

ASSUME OwnerAppAssumption ==
    /\ Rules \subseteq Nat \ {0} /\ IsFiniteSet(Rules)
    /\ IsFiniteSet(Keys) /\ Keys = 1 .. Cardinality(Keys)
    /\ AgentOwn \in Nat /\ AgentOwn \notin {None} \union Keys
    /\ Stories \subseteq [ops : [Tasks -> {"open", "revoke", "close", "grant"}],
                          kind : [Rules -> {"dedicated", "associated", "trade"}]]
    /\ Standing \subseteq Rules /\ Busy \subseteq Rules
    /\ CAP \in Nat \ {0} /\ CRASHES \in Nat

VARIABLES
    rule,     \* the rules on chain
    purse,    \* the balance of the owner's associated token account
    paid,     \* what agents have paid out
    store,    \* the phone's secure store
    ui,       \* the state of the React hooks
    reads,    \* refreshes in flight
    task,     \* taps
    tx,       \* the fate of each tap's transaction
    crashes,
    unheard   \* taps whose transaction was never seen and that no later listing has answered

ownerChain == <<rule, purse, paid>>
ownerAppVars == <<rule, purse, paid, store, ui, reads, task, tx, crashes, unheard>>

-----------------------------------------------------------------------------
(* The chain as the app uses it                                            *)

\* `left` is what remains of the cap; `acct` what the rule's own token account holds.
\* One refused payment per rule is followed: whether it was refused, allowed, settled.
NoRule == [kind |-> "dedicated", status |-> "none", expired |-> FALSE, left |-> 0, acct |-> 0, agent |-> None,
           refused |-> FALSE, granted |-> FALSE, settled |-> FALSE]

OnChain(r) == rule[r].status \notin {"none", "closed"}

IsActive(r) == rule[r].status = "active" /\ ~rule[r].expired

\* What a rule may draw on: its own account, or the owner's associated one.
Funds(r) == IF rule[r].kind = "associated" THEN purse ELSE rule[r].acct

Draw(r, n) ==
    LET own == rule[r].kind # "associated"
    IN  /\ IsActive(r) /\ rule[r].left >= n /\ Funds(r) >= n
        /\ paid' = paid + n
        /\ purse' = IF own THEN purse ELSE purse - n
        /\ rule' = [rule EXCEPT ![r].left = @ - n,
                                ![r].status = IF rule[r].left = n THEN "exhausted" ELSE @,
                                ![r].acct = IF own THEN @ - n ELSE @,
                                ![r].settled = rule[r].refused,
                                ![r].granted = FALSE]

\* One payment inside the limits, with a nonce past the refused one.
Charge(r) ==
    /\ Draw(r, 1)
    /\ UNCHANGED <<store, ui, reads, task, tx, crashes, unheard>>

\* One payment above the maximum: refused, and recorded with its nonce.
Refuse(r) ==
    /\ IsActive(r) /\ ~rule[r].refused
    /\ rule' = [rule EXCEPT ![r].refused = TRUE]
    /\ UNCHANGED <<purse, paid, store, ui, reads, task, tx, crashes, unheard>>

\* The refused payment again, once the owner has allowed it.
Retry(r) ==
    /\ rule[r].granted
    /\ Draw(r, CAP)
    /\ UNCHANGED <<store, ui, reads, task, tx, crashes, unheard>>

Expires(r) ==
    /\ OnChain(r) /\ ~rule[r].expired
    /\ rule' = [rule EXCEPT ![r].expired = TRUE]
    /\ UNCHANGED <<purse, paid, store, ui, reads, task, tx, crashes, unheard>>

-----------------------------------------------------------------------------
(* Listing the rules, as far as taps depend on it; RuleReads has the rest  *)

\* Whether the owner is connected, the rules as last listed, and the hold on new taps.
NoUi == [connected |-> FALSE, list |-> [r \in Rules |-> "absent"], held |-> FALSE, epoch |-> 0]

IdleRead == [busy |-> FALSE, epoch |-> 0, after |-> {}]

NewRead == [busy |-> TRUE, epoch |-> ui.epoch, after |-> unheard]

Seen(r) ==
    CASE ~OnChain(r) -> "absent"
      [] rule[r].status = "revoked" -> "revoked"
      [] IsActive(r) -> "active"
      [] OTHER -> "ended"

\* refresh(): on a pull, a focus, a new owner, or at the end of a tap.
Refresh(s) ==
    /\ ui.connected /\ ~reads[s].busy
    /\ reads' = [reads EXCEPT ![s] = NewRead]
    /\ UNCHANGED <<ownerChain, store, ui, task, tx, crashes, unheard>>

\* A release that does not compare the epochs.
MutReleases(s) == TRUE

\* releaseIfCurrent: a hold is lifted only by a listing that began after it.
Releases(s) == reads[s].epoch = ui.epoch

\* The listing arrives, for the owner it was begun for, connected still or not.
Listed(s) ==
    /\ reads[s].busy
    /\ reads' = [reads EXCEPT ![s] = IdleRead]
    /\ ui' = [ui EXCEPT !.list = [r \in Rules |-> Seen(r)], !.held = @ /\ ~Releases(s)]
    /\ unheard' = unheard \ reads[s].after
    /\ UNCHANGED <<ownerChain, store, task, tx, crashes>>

ListFails(s) ==
    /\ reads[s].busy
    /\ reads' = [reads EXCEPT ![s] = IdleRead]
    /\ UNCHANGED <<ownerChain, store, ui, task, tx, crashes, unheard>>

-----------------------------------------------------------------------------
(* The store: the session, and the agent keys made on this phone           *)

\* A session whose token was refused keeps the owner connected.
NoStore == [session |-> "none", secret |-> None, agents |-> {}]

\* rememberAgent: added to the map when it is not there.
Remember(st, k) == [st EXCEPT !.agents = @ \union {k}]

NextKey(st) == Max({st.secret} \union st.agents) + 1

\* loadOrCreateAgentPublicKey: the current key is remembered, or the first one made.
LoadOrCreateAgent(st) ==
    IF st.secret # None THEN Remember(st, st.secret)
    ELSE Remember([st EXCEPT !.secret = NextKey(st)], NextKey(st))

\* restore: a started app is connected when a session was stored, and has listed nothing.
Restored == [NoUi EXCEPT !.connected = store.session # "none"]

\* The operating system kills the app: the hooks and the taps are gone, the store and
\* what was sent are not.
Crash ==
    /\ crashes < CRASHES
    /\ crashes' = crashes + 1
    /\ ui' = Restored
    /\ store' = LoadOrCreateAgent(store)
    /\ reads' = [s \in Reads |-> IdleRead]
    /\ task' = [t \in Tasks |-> IF task[t].at = "idle" THEN task[t]
                                ELSE [task[t] EXCEPT !.at = "done"]]
    /\ unheard' = {}
    /\ UNCHANGED <<ownerChain, tx>>

\* connect: the wallet authorizes, the session is stored, and there is an agent key.
Connect ==
    /\ ~ui.connected
    /\ store' = LoadOrCreateAgent([store EXCEPT !.session = "token"])
    /\ ui' = [ui EXCEPT !.connected = TRUE]
    /\ UNCHANGED <<ownerChain, reads, task, tx, crashes, unheard>>

\* disconnect: the session goes whatever the wallet answers.  The keys stay, and so does
\* the hold; the lists are cleared by the read of a phone without an owner.
Disconnect ==
    /\ ui.connected
    /\ store' = [store EXCEPT !.session = "none"]
    /\ ui' = [ui EXCEPT !.connected = FALSE, !.list = NoUi.list]
    /\ UNCHANGED <<ownerChain, reads, task, tx, crashes, unheard>>

-----------------------------------------------------------------------------
(* Taps                                                                    *)

NoTask == [at |-> "idle", op |-> "none", rule |-> None, key |-> None,
           revoke |-> FALSE, sweep |-> FALSE, amount |-> 0]

\* The rule's screen, and TradeRuleDetail: Stop on a rule that was not revoked and Close on
\* one that was not active when last listed.
StopOffered(r) == ui.list[r] \in {"active", "ended"}

CloseOffered(r) == ui.list[r] \in {"revoked", "ended"}

\* AllowOnce, on a refused row of a listed rule.
AllowOffered(r) == ui.list[r] # "absent" /\ rule[r].refused

\* A new rule comes from the approval screen, and gets an account of its own.
Offered(op, r) ==
    CASE op = "open" -> rule[r].status = "none" /\ rule[r].kind # "associated"
      [] op = "revoke" -> StopOffered(r)
      [] op = "close" -> CloseOffered(r)
      [] op = "grant" -> AllowOffered(r)

\* onRevoke and onClose of the rule's screen begin with the gate; the screen of a trade rule,
\* the approval and AllowOnce call at once.
FirstStep(op, r) == IF op \in {"revoke", "close"} /\ rule[r].kind # "trade" THEN "gate" ELSE "call"

\* The wallet covers the app until it has answered, so a tap follows another one only then;
\* on the rule's own screen the buttons wait for the tap before.
Tap(t, r) ==
    /\ task[t].at = "idle"
    /\ ui.connected /\ ~ui.held /\ Offered(task[t].op, r)
    /\ \A u \in Tasks : task[u].at \in {"idle", "sent", "watch", "back", "done"}
    /\ \A u \in Tasks : task[u].at \in {"sent", "watch", "back"} => task[u].rule # r
    /\ task' = [task EXCEPT ![t].rule = r, ![t].at = FirstStep(task[t].op, r)]
    /\ UNCHANGED <<ownerChain, store, ui, reads, tx, crashes, unheard>>

To(t, at) == task' = [task EXCEPT ![t].at = at]

End(t) == To(t, "done")

\* gateSignature: the rule's account is read once more before the wallet is asked.
Gate(t) ==
    /\ task[t].at = "gate"
    /\ To(t, "call")
    /\ UNCHANGED <<ownerChain, store, ui, reads, tx, crashes, unheard>>

\* open and openTrade of useChain: refused while an earlier tap is unheard.
CallOpen(t) ==
    /\ task[t].at = "call" /\ task[t].op = "open" /\ ~ui.held
    /\ To(t, "key")
    /\ UNCHANGED <<ownerChain, store, ui, reads, tx, crashes, unheard>>

\* revoke, and close and grantOverride, likewise.
CallRevoke(t) ==
    /\ task[t].at = "call" /\ task[t].op = "revoke" /\ ~ui.held
    /\ To(t, "build")
    /\ UNCHANGED <<ownerChain, store, ui, reads, tx, crashes, unheard>>

CallClose(t) ==
    /\ task[t].at = "call" /\ task[t].op = "close" /\ ~ui.held
    /\ To(t, "build")
    /\ UNCHANGED <<ownerChain, store, ui, reads, tx, crashes, unheard>>

CallGrant(t) ==
    /\ task[t].at = "call" /\ task[t].op = "grant" /\ ~ui.held
    /\ To(t, "build")
    /\ UNCHANGED <<ownerChain, store, ui, reads, tx, crashes, unheard>>

\* agentKeyForOpen: the agent gave its own address, or a key is made on the phone.
GivenKey(t) ==
    /\ task[t].at = "key"
    /\ task' = [task EXCEPT ![t].at = "build", ![t].key = AgentOwn]
    /\ UNCHANGED <<ownerChain, store, ui, reads, tx, crashes, unheard>>

\* persistAgent writes the current secret first ...
WriteSecret(t) ==
    /\ task[t].at = "key" /\ NextKey(store) \in Keys
    /\ store' = [store EXCEPT !.secret = NextKey(store)]
    /\ task' = [task EXCEPT ![t].at = "remember", ![t].key = NextKey(store)]
    /\ UNCHANGED <<ownerChain, ui, reads, tx, crashes, unheard>>

\* ... and the map of all keys after it.
WriteAgents(t) ==
    /\ task[t].at = "remember"
    /\ store' = Remember(store, task[t].key)
    /\ To(t, "build")
    /\ UNCHANGED <<ownerChain, ui, reads, tx, crashes, unheard>>

\* assessOverride over the rule re-read from chain.
OverrideReady(r) ==
    /\ IsActive(r) /\ rule[r].refused
    /\ ~rule[r].settled /\ ~rule[r].granted
    /\ rule[r].left >= CAP

\* openMandate: the purse holds the budget and the id is free.
BuildOpen(t) ==
    LET r == task[t].rule
    IN  /\ task[t].op = "open" /\ rule[r].kind # "trade"
        /\ purse >= CAP /\ rule[r].status = "none"
        /\ To(t, "sign")

\* openTradeRule asks the same of the input token.
BuildOpenTrade(t) ==
    LET r == task[t].rule
    IN  /\ task[t].op = "open" /\ rule[r].kind = "trade"
        /\ purse >= CAP /\ rule[r].status = "none"
        /\ To(t, "sign")

\* revokeMandate builds from the listed rule ...
BuildRevoke(t) ==
    /\ task[t].op = "revoke" /\ rule[task[t].rule].kind # "trade"
    /\ To(t, "sign")

\* ... and revokeTradeRule reads it again.
BuildRevokeTrade(t) ==
    /\ task[t].op = "revoke" /\ rule[task[t].rule].kind = "trade"
    /\ OnChain(task[t].rule) /\ rule[task[t].rule].status # "revoked"
    /\ To(t, "sign")

\* A close that leaves the token account where it is.
MutSweeps(r) == FALSE

\* The rule's own account is emptied into the owner's and closed with the rule.
Sweeps(r) == rule[r].kind # "associated"

\* Status and balance are read again and fixed in the transaction.
Close(t, revoke) ==
    LET r == task[t].rule
    IN  task' = [task EXCEPT ![t].at = "sign", ![t].revoke = revoke, ![t].sweep = Sweeps(r),
                             ![t].amount = IF Sweeps(r) THEN rule[r].acct ELSE 0]

\* closeMandate stops a rule first when it is not revoked ...
BuildClose(t) ==
    LET r == task[t].rule
    IN  /\ task[t].op = "close" /\ rule[r].kind # "trade"
        /\ OnChain(r)
        /\ Close(t, rule[r].status # "revoked")

\* ... and closeTradeRule when it is active.
BuildCloseTrade(t) ==
    LET r == task[t].rule
    IN  /\ task[t].op = "close" /\ rule[r].kind = "trade"
        /\ OnChain(r)
        /\ Close(t, rule[r].status = "active")

\* grantOverride, and grantTradeOverride, which differ in the account they read.
BuildGrant(t) ==
    /\ task[t].op = "grant" /\ rule[task[t].rule].kind # "trade"
    /\ OverrideReady(task[t].rule)
    /\ To(t, "sign")

BuildGrantTrade(t) ==
    /\ task[t].op = "grant" /\ rule[task[t].rule].kind = "trade"
    /\ OverrideReady(task[t].rule)
    /\ To(t, "sign")

Build(t) ==
    /\ task[t].at = "build"
    /\ \/ BuildOpen(t) \/ BuildRevoke(t) \/ BuildClose(t) \/ BuildGrant(t)
       \/ BuildOpenTrade(t) \/ BuildRevokeTrade(t) \/ BuildCloseTrade(t) \/ BuildGrantTrade(t)
    /\ UNCHANGED <<ownerChain, store, ui, reads, tx, crashes, unheard>>

\* A read fails, a check refuses, the gate stops, or the hold came in between: nothing is sent.
GiveUp(t) ==
    /\ task[t].at \in {"gate", "call", "key", "build"}
    /\ End(t)
    /\ UNCHANGED <<ownerChain, store, ui, reads, tx, crashes, unheard>>

\* authorizeAccounts: a stored token refused within STALE_TOKEN_WINDOW_MS is cleared and
\* asked for afresh in the same session.
StaleToken(t) ==
    /\ task[t].at = "sign" /\ store.session = "token"
    /\ store' = [store EXCEPT !.session = "bare"]
    /\ UNCHANGED <<ownerChain, ui, reads, task, tx, crashes, unheard>>

\* signAndSendTransactions: the wallet signs and sends.  What it authorized becomes the session.
Sign(t) ==
    /\ task[t].at = "sign"
    /\ store' = [store EXCEPT !.session = "token"]
    /\ tx' = [tx EXCEPT ![t] = "flying"]
    /\ To(t, "sent")
    /\ UNCHANGED <<ownerChain, ui, reads, crashes, unheard>>

\* The transaction leaves, and the wallet session closes without an answer.
SessionCloses(t) ==
    /\ task[t].at = "sign"
    /\ tx' = [tx EXCEPT ![t] = "flying"]
    /\ End(t)
    /\ UNCHANGED <<ownerChain, store, ui, reads, crashes, unheard>>

\* The owner declines or cancels in the wallet.
Decline(t) ==
    /\ task[t].at = "sign"
    /\ End(t)
    /\ UNCHANGED <<ownerChain, store, ui, reads, tx, crashes, unheard>>

\* Every instruction of the transaction holds on the chain as it is when it lands.
Holds(t) ==
    LET r == task[t].rule
    IN  CASE task[t].op = "open" -> rule[r].status = "none" /\ purse >= CAP
          [] task[t].op = "revoke" -> OnChain(r) /\ rule[r].status # "revoked"
          [] task[t].op = "grant" -> IsActive(r) /\ ~rule[r].settled /\ rule[r].left >= CAP
          [] task[t].op = "close" ->
                /\ OnChain(r)
                /\ IF task[t].revoke THEN rule[r].status # "revoked" ELSE rule[r].status # "active"
                /\ task[t].sweep => rule[r].acct = task[t].amount

Applied(t) ==
    LET r == task[t].rule
    IN  CASE task[t].op = "open" ->
                /\ rule' = [rule EXCEPT ![r].status = "active", ![r].left = CAP, ![r].acct = CAP,
                                        ![r].agent = task[t].key]
                /\ purse' = purse - CAP
          [] task[t].op = "revoke" -> rule' = [rule EXCEPT ![r].status = "revoked"] /\ purse' = purse
          [] task[t].op = "grant" -> rule' = [rule EXCEPT ![r].granted = TRUE] /\ purse' = purse
          [] task[t].op = "close" ->
                /\ rule' = [rule EXCEPT ![r].status = "closed", ![r].acct = @ - task[t].amount]
                /\ purse' = purse + task[t].amount

Land(t) ==
    /\ tx[t] = "flying" /\ Holds(t)
    /\ Applied(t)
    /\ tx' = [tx EXCEPT ![t] = "landed"]
    /\ UNCHANGED <<paid, store, ui, reads, task, crashes, unheard>>

Bounce(t) ==
    /\ tx[t] = "flying" /\ ~Holds(t)
    /\ tx' = [tx EXCEPT ![t] = "failed"]
    /\ UNCHANGED <<ownerChain, store, ui, reads, task, crashes, unheard>>

Drop(t) ==
    /\ tx[t] = "flying"
    /\ tx' = [tx EXCEPT ![t] = "dropped"]
    /\ UNCHANGED <<ownerChain, store, ui, reads, task, crashes, unheard>>

\* confirmSignatures polls for 20 seconds ...
WalletConfirms(t) ==
    /\ task[t].at = "sent" /\ tx[t] = "landed"
    /\ To(t, "watch")
    /\ UNCHANGED <<ownerChain, store, ui, reads, tx, crashes, unheard>>

\* ... then confirmSignature of chain.ts watches for its window.
WatchConfirms(t) ==
    /\ task[t].at = "watch" /\ tx[t] = "landed"
    /\ To(t, "back")
    /\ UNCHANGED <<ownerChain, store, ui, reads, tx, crashes, unheard>>

\* Found with an error, or a call of the second watch fails: said so, and nothing is held.
Refused(t) ==
    /\ \/ task[t].at \in {"sent", "watch"} /\ tx[t] = "failed"
       \/ task[t].at = "watch"
    /\ End(t)
    /\ UNCHANGED <<ownerChain, store, ui, reads, tx, crashes, unheard>>

\* A watch without a window.
MutPending(t) == FALSE /\ UNCHANGED ownerAppVars

\* Not confirmed in time, because it is late, lost, or the node does not answer.
\* holdIfPending: no other tap is sent until a listing has been read.
Pending(t) ==
    /\ task[t].at \in {"sent", "watch"} /\ tx[t] # "failed"
    /\ End(t)
    /\ ui' = [ui EXCEPT !.held = TRUE, !.epoch = @ + 1]
    /\ unheard' = unheard \union {t}
    /\ UNCHANGED <<ownerChain, store, reads, tx, crashes>>

\* The rule is read back, and the app lists its rules again.
ReadBack(t) ==
    /\ task[t].at = "back"
    /\ End(t)
    /\ UNCHANGED <<ownerChain, store, ui, reads, tx, crashes, unheard>>

-----------------------------------------------------------------------------
(* The specification                                                       *)

Standard(r, kind) ==
    IF r \in Standing
    THEN [NoRule EXCEPT !.kind = kind, !.status = "active", !.left = CAP, !.agent = AgentOwn,
                        !.acct = IF kind = "associated" THEN 0 ELSE CAP]
    ELSE [NoRule EXCEPT !.kind = kind]

OwnerAppInit ==
    /\ \E story \in Stories :
          /\ rule = [r \in Rules |-> Standard(r, story.kind[r])]
          /\ task = [t \in Tasks |-> [NoTask EXCEPT !.op = story.ops[t]]]
    /\ purse = CAP /\ paid = 0
    /\ store = LoadOrCreateAgent(NoStore)
    /\ ui = NoUi
    /\ reads = [s \in Reads |-> IdleRead]
    /\ tx = [t \in Tasks |-> "none"]
    /\ crashes = 0 /\ unheard = {}

Heard(t) == WalletConfirms(t) \/ WatchConfirms(t) \/ Refused(t) \/ Pending(t) \/ ReadBack(t)

TaskStep(t) ==
    \/ Gate(t) \/ CallOpen(t) \/ CallRevoke(t) \/ CallClose(t) \/ CallGrant(t) \/ GivenKey(t) \/ WriteSecret(t) \/ WriteAgents(t) \/ Build(t)
    \/ GiveUp(t) \/ StaleToken(t) \/ Sign(t) \/ SessionCloses(t) \/ Decline(t)
    \/ Heard(t)

OwnerAppNext ==
    \/ \E r \in Busy : Charge(r) \/ Refuse(r) \/ Retry(r) \/ Expires(r)
    \/ \E s \in Reads : Refresh(s) \/ Listed(s) \/ ListFails(s)
    \/ Connect \/ Disconnect \/ Crash
    \/ \E t \in Tasks : \/ TaskStep(t) \/ Land(t) \/ Bounce(t) \/ Drop(t)
                        \/ \E r \in Rules : Tap(t, r)

\* After the wallet's answer the rest is the app's own: every call of it returns or fails,
\* and both watches end with their window.
OwnerAppFairness == \A t \in Tasks : WF_ownerAppVars(Heard(t))

OwnerAppSpec == OwnerAppInit /\ [][OwnerAppNext]_ownerAppVars /\ OwnerAppFairness

-----------------------------------------------------------------------------
(* What the phone promises                                                 *)

\* No tap is sent on top of one that may still land: after a transaction was neither
\* confirmed nor found failed, open, stop, close and override of useChain go ahead only once
\* a listing that began after that has been read (submitHeldRef, submitEpoch).
NoBlindResend ==
    [][\A t \in Tasks : task[t].at = "call" /\ task'[t].at \in {"key", "build"} => unheard = {}]_ownerAppVars

\* Every agent key made on the phone that a rule names, or a transaction still on its way
\* would, can be found again: in the map of agents or as the current secret, even when the
\* app was killed between the two writes of persistAgent.
KeysAreKept ==
    LET named == {rule[r].agent : r \in {q \in Rules : OnChain(q)}}
                 \union {task[t].key : t \in {u \in Tasks : tx[u] = "flying"}}
        made == store.agents \union {store.secret}
    IN  named \intersect Keys \subseteq made /\ Cardinality(made \ {None}) = Max(made)

\* Money is only where the owner or a payee can get at it: a closed rule has left nothing in
\* its token account, whatever the agent spent while the owner was signing, and nothing is
\* made or lost on the way.
NothingStranded ==
    /\ \A r \in Rules : rule[r].status \in {"none", "closed"} => rule[r].acct = 0
    /\ purse + paid + MapThenSumSet(LAMBDA r : rule[r].acct, Rules)
           = CAP + CAP * Cardinality({r \in Standing : rule[r].kind # "associated"})

\* No agent key and no money is lost: the two writes of persistAgent with a crash between
\* them, and a close signed while the agent spends.
NothingIsLost == KeysAreKept /\ NothingStranded

\* Every tap the wallet has signed comes to an end, with an answer or with an error: none is
\* watched for ever (confirmSignatures, confirmSignature).
SignedTapsEnd == []<>(\A t \in Tasks : task[t].at \notin {"sent", "watch", "back"})

=============================================================================
