----------------------------- MODULE RuleReads -----------------------------
(***************************************************************************)
(* How the phone reads its rules (refresh of app/lib/useChain.ts) and what *)
(* its screens say about them (mandateRead.ts and the tabs).  A read lists *)
(* the owner's rules, picks one, reads its record and ends; several run at *)
(* once, each with the owner and the choice it began with, and each writes *)
(* the same hooks.  OwnerApp has the taps that depend on the listing.      *)
(***************************************************************************)
EXTENDS Integers, FiniteSets, FiniteSetsExt

CONSTANTS
    Listable,            \* rules, as their ids: a larger id was opened later
    ListableTrades,          \* the ones that trade
    Accounts,            \* the accounts the wallet may authorize
    AccountOf,           \* the owner of each rule
    Fetches,             \* reads that may overlap
    RATE_LIMIT_RETRIES   \* RATE_LIMIT_RETRY_MS.length

Nobody == 0

ASSUME RuleReadsAssumption ==
    /\ Listable \subseteq Nat \ {0} /\ IsFiniteSet(Listable) /\ Accounts \subseteq Nat \ {0}
    /\ ListableTrades \subseteq Listable
    /\ AccountOf \in [Listable -> Accounts]
    /\ RATE_LIMIT_RETRIES \in Nat

VARIABLES
    standing,  \* the rules on chain: "none", "live", "ended", "revoked"
    hooks,      \* the hooks of useChain and the owner of useWallet
    fetch,     \* reads in flight
    chosen,    \* CHOSEN_MANDATE_KEY of the store
    emptied,   \* owners for whom a listing came back without a rule
    strayed    \* since the owner connected, a listing of another account came back without one

readVars == <<standing, hooks, fetch, chosen, emptied, strayed>>

-----------------------------------------------------------------------------
(* The chain moves                                                         *)

OpenRule(r) ==
    /\ standing[r] = "none"
    /\ standing' = [standing EXCEPT ![r] = "live"]
    /\ UNCHANGED <<hooks, fetch, chosen, emptied, strayed>>

EndRule(r, how) ==
    /\ standing[r] = "live"
    /\ standing' = [standing EXCEPT ![r] = how]
    /\ UNCHANGED <<hooks, fetch, chosen, emptied, strayed>>

CloseRule(r) ==
    /\ standing[r] \in {"ended", "revoked"}
    /\ standing' = [standing EXCEPT ![r] = "none"]
    /\ UNCHANGED <<hooks, fetch, chosen, emptied, strayed>>

-----------------------------------------------------------------------------
(* refresh                                                                 *)

NoHooks == [owner |-> Nobody, list |-> {}, shown |-> Nobody, loading |-> FALSE,
           error |-> FALSE, rateLimited |-> FALSE, checked |-> Nobody]

NoFetch == [at |-> "idle", owner |-> Nobody, preferred |-> Nobody, pick |-> Nobody, tries |-> 0]

\* Without an owner everything shown is cleared and nothing is read.
Cleared(v) == [v EXCEPT !.list = {}, !.shown = Nobody, !.error = FALSE, !.rateLimited = FALSE,
                        !.checked = Nobody]

Started(v) == [v EXCEPT !.loading = TRUE, !.error = FALSE, !.rateLimited = FALSE]

NewFetch(o, c) == [NoFetch EXCEPT !.at = "list", !.owner = o, !.preferred = c]

BeginFetch(f, v, c) ==
    /\ fetch[f].at = "idle"
    /\ IF v.owner = Nobody
       THEN hooks' = Cleared(v) /\ fetch' = fetch
       ELSE hooks' = Started(v) /\ fetch' = [fetch EXCEPT ![f] = NewFetch(v.owner, c)]

\* fetchOwnerMandates and fetchOwnerTradeRules.
RulesOfOwner(o) == {r \in Listable : standing[r] # "none" /\ AccountOf[r] = o}

\* pickMandate, newest first: the preferred one, a live one, one not stopped, any.
PickMandate(found, preferred) ==
    LET mandates == found \ ListableTrades
        live == {r \in mandates : standing[r] = "live"}
        unstopped == {r \in mandates : standing[r] # "revoked"}
    IN  IF mandates = {} THEN Nobody
        ELSE IF preferred \in mandates THEN preferred
        ELSE IF live # {} THEN Max(live)
        ELSE IF unstopped # {} THEN Max(unstopped)
        ELSE Max(mandates)

\* A preferred trade rule wins; without a payment rule the newest trade rule is shown.
Pick(found, preferred) ==
    LET trades == found \intersect ListableTrades
    IN  IF preferred \in trades THEN preferred
        ELSE IF found \ ListableTrades # {} THEN PickMandate(found, preferred)
        ELSE IF trades # {} THEN Max(trades)
        ELSE Nobody

\* The listing arrives.  Without a rule nothing is shown at once; otherwise the record of
\* the picked one is read first.
ListArrives(f) ==
    LET found == RulesOfOwner(fetch[f].owner)
        pick == Pick(found, fetch[f].preferred)
    IN  /\ fetch[f].at = "list"
        /\ fetch' = [fetch EXCEPT ![f].at = "record", ![f].pick = pick]
        /\ hooks' = [hooks EXCEPT !.list = found, !.shown = IF pick = Nobody THEN Nobody ELSE @]
        /\ emptied' = IF found = {} THEN emptied \union {fetch[f].owner} ELSE emptied
        /\ strayed' = (strayed \/ (found = {} /\ fetch[f].owner # hooks.owner))
        /\ UNCHANGED <<standing, chosen>>

\* The finally of refresh.
Done(v, o) == [v EXCEPT !.loading = FALSE, !.checked = o]

\* The record arrives, and the genesis hash or nothing.
RecordArrives(f) ==
    LET picked == [hooks EXCEPT !.shown = IF fetch[f].pick = Nobody THEN @ ELSE fetch[f].pick,
                               !.rateLimited = IF fetch[f].tries > 0 THEN FALSE ELSE @]
    IN  /\ fetch[f].at = "record"
        /\ hooks' = Done(picked, fetch[f].owner)
        /\ fetch' = [fetch EXCEPT ![f] = NoFetch]
        /\ UNCHANGED <<standing, chosen, emptied, strayed>>

\* A call is rate limited: the whole read begins again, with the choice stored by then.
RateLimited(f) ==
    /\ fetch[f].at \in {"list", "record"} /\ fetch[f].tries < RATE_LIMIT_RETRIES
    /\ hooks' = [hooks EXCEPT !.rateLimited = IF fetch[f].tries = 0 THEN TRUE ELSE @]
    /\ fetch' = [fetch EXCEPT ![f].at = "list", ![f].preferred = chosen, ![f].tries = @ + 1]
    /\ UNCHANGED <<standing, chosen, emptied, strayed>>

\* A call fails, or is rate limited once too often.
FetchFails(f) ==
    /\ fetch[f].at \in {"list", "record"}
    /\ hooks' = Done([hooks EXCEPT !.error = TRUE,
                                 !.rateLimited = IF fetch[f].tries > 0 THEN FALSE ELSE @],
                    fetch[f].owner)
    /\ fetch' = [fetch EXCEPT ![f] = NoFetch]
    /\ UNCHANGED <<standing, chosen, emptied, strayed>>

-----------------------------------------------------------------------------
(* What the screens say and do                                             *)

\* A failed read that is taken for an answer.
MutReadStatus(v) ==
    LET forThisOwner == v.owner # Nobody /\ v.checked = v.owner
    IN  IF v.shown # Nobody /\ forThisOwner THEN "present"
        ELSE IF v.rateLimited THEN "rate-limited"
        ELSE IF ~forThisOwner \/ v.loading THEN "not-read"
        ELSE "empty"

\* mandateReadStatus
ReadStatus(v) ==
    LET forThisOwner == v.owner # Nobody /\ v.checked = v.owner
    IN  IF v.shown # Nobody /\ forThisOwner THEN "present"
        ELSE IF v.rateLimited THEN "rate-limited"
        ELSE IF ~forThisOwner \/ v.loading THEN "not-read"
        ELSE IF v.error THEN "failed"
        ELSE "empty"

MayClaimAbsence(v) == ReadStatus(v) \in {"empty", "present"}

\* The overview: the way to a first rule only when there is none, the rule's board when there is.
OverviewShows(v) ==
    CASE ReadStatus(v) = "empty" -> "first rule"
      [] ReadStatus(v) = "present" -> "rule"
      [] OTHER -> "reading state"

\* The rules tab lists, and offers to scan, write, apply and disconnect, once it may claim.
RulesTabOffers(v) == MayClaimAbsence(v)

\* The screen of a decision of rule r waits while the phone switches to that rule.
Switching(v, r) == v.shown # r /\ (v.loading \/ r \in v.list \/ ReadStatus(v) = "not-read")

\* A pull, or a tab that comes into focus.
Pull(f) == BeginFetch(f, hooks, chosen) /\ UNCHANGED <<standing, chosen, emptied, strayed>>

\* selectMandate, from the list.
Select(f, r) ==
    /\ RulesTabOffers(hooks) /\ r \in hooks.list
    /\ chosen' = r
    /\ BeginFetch(f, hooks, r)
    /\ UNCHANGED <<standing, emptied, strayed>>

\* Its effect selects that rule as soon as nothing is loading.
SwitchTo(f, r) ==
    /\ hooks.owner # Nobody
    /\ Switching(hooks, r) /\ ~hooks.loading /\ r \in hooks.list
    /\ chosen' = r
    /\ BeginFetch(f, hooks, r)
    /\ UNCHANGED <<standing, emptied, strayed>>

\* ConnectGate: the wallet authorizes an account, and the effect of the new owner reads.
ConnectOwner(f, o) ==
    /\ hooks.owner = Nobody
    /\ BeginFetch(f, [hooks EXCEPT !.owner = o], chosen)
    /\ strayed' = FALSE
    /\ UNCHANGED <<standing, chosen, emptied>>

DisconnectOwner ==
    /\ hooks.owner # Nobody /\ RulesTabOffers(hooks)
    /\ hooks' = Cleared([hooks EXCEPT !.owner = Nobody])
    /\ UNCHANGED <<standing, fetch, chosen, emptied, strayed>>

-----------------------------------------------------------------------------
(* The specification                                                       *)

ReadInit ==
    /\ standing \in [Listable -> {"none", "live"}]
    /\ hooks = NoHooks
    /\ fetch = [f \in Fetches |-> NoFetch]
    /\ chosen = Nobody /\ emptied = {} /\ strayed = FALSE

FetchStep(f) == ListArrives(f) \/ RecordArrives(f) \/ RateLimited(f) \/ FetchFails(f)

ReadNext ==
    \/ \E r \in Listable : \/ OpenRule(r) \/ CloseRule(r)
                           \/ \E how \in {"ended", "revoked"} : EndRule(r, how)
    \/ \E f \in Fetches : \/ FetchStep(f) \/ Pull(f)
                          \/ \E r \in Listable : Select(f, r) \/ SwitchTo(f, r)
                          \/ \E o \in Accounts : ConnectOwner(f, o)
    \/ DisconnectOwner

ReadSpec == ReadInit /\ [][ReadNext]_readVars

-----------------------------------------------------------------------------
(* What a reader of the screens may rely on                                *)

\* "No rule on chain for this owner" is said, and a first rule offered, only when a listing
\* of this owner came back without one, however accounts change and reads overlap, fail and are
\* tried again; unless a late listing of an account the wallet had before came back without one,
\* which the hooks take for this owner's (refresh writes them whoever it began for).
EmptyWasRead == OverviewShows(hooks) = "first rule" => hooks.owner \in emptied \/ strayed

=============================================================================
