----------------------------- MODULE HoldPhone -----------------------------
(***************************************************************************)
(* The Hold screens of the phone (app/app/hold, app/components/hold, and   *)
(* app/lib/hold*.ts): setting a vault up, sending from it, stopping,       *)
(* freezing, recovering, and the two requests that need both keys. The     *)
(* vault moves under them: the same keys may use the SDK                   *)
(* (sdk/src/hold.ts) at any time, and anyone may execute what is due.      *)
(*                                                                         *)
(* A press-and-hold keeps the closure of the screen as it was drawn when   *)
(* the finger came down. A transaction that was sent may land after the    *)
(* phone has given up on it. One press is worked on at a time (the wallet  *)
(* covers the app), and a vault is read in one step.                       *)
(***************************************************************************)
EXTENDS Integers, Sequences, FiniteSets

CONSTANTS
    HoldSlots,      \* HOLD_PENDING_CAPACITY
    HoldDests,      \* destinations that are typed
    KnownDest,      \* the one the vault has paid before
    HoldPresses,    \* bound on completed presses
    HoldMoves,      \* bound on calls made through the SDK
    HoldIds,        \* bound on withdrawal identifiers
    HoldStories     \* "use" a vault, or "setup" one

ASSUME HoldPhoneAssumption ==
    /\ HoldSlots \in Nat \ {0}
    /\ KnownDest \in HoldDests
    /\ HoldPresses \in Nat /\ HoldMoves \in Nat /\ HoldIds \in Nat
    /\ HoldStories \subseteq {"use", "setup"}

VARIABLES
    hvault,     \* the vault account
    hscreen,    \* the screen on top: name, id in its route, what it read
    hdest,      \* the destination typed on the send screen
    hpreview,   \* what the send screen says will happen
    hresolve,   \* the effect that is working a preview out
    hpress,     \* the closure under the finger
    hcall,      \* the onSign that is running
    hflying,    \* transactions sent, neither landed nor expired
    request,    \* the request on the skip screen
    draft,      \* HoldDraft
    hvaults,    \* vaults of the owner, by id
    hpurse,      \* the owner's token account
    hmoves,     \* SDK calls so far
    hpast       \* how many presses, the last new identifier, and what was reported

useVars == <<hdest, hpreview, hresolve, request>>
setupVars == <<draft, hvaults, hpurse>>
holdVars == <<hvault, hscreen, useVars, hpress, hcall, hflying, setupVars, hmoves, hpast>>

-----------------------------------------------------------------------------
(* The vault, as the screens use it                                        *)

NoRow == [id |-> 0, dest |-> "none"]

NoBundle == [rows |-> <<>>, next |-> 0, frozen |-> FALSE, funded |-> FALSE,
             guardian |-> FALSE, armed |-> FALSE, change |-> FALSE, known |-> {}]

\* decodeHoldVault: the slots of the rows that wait
Waiting(v) == {i \in DOMAIN v.rows : v.rows[i].id # 0}

\* The first row of some slots.
FirstRow(v, slots) == v.rows[CHOOSE i \in slots : \A j \in slots : i <= j]

RowIds(v) == {v.rows[i].id : i \in DOMAIN v.rows} \ {0}

FreeSlots(v) == {i \in DOMAIN v.rows : v.rows[i].id = 0}

Dropped(v, id) == [v EXCEPT !.rows = [i \in DOMAIN @ |-> IF @[i].id = id THEN NoRow ELSE @[i]]]

PaysAtOnce(v, dest) == v.funded /\ ~v.frozen /\ dest \in v.known

HoldsIt(v, dest) == v.funded /\ ~PaysAtOnce(v, dest) /\ FreeSlots(v) # {}

\* The vault after a withdrawal is asked for.
Asked(v, dest) ==
    IF ~HoldsIt(v, dest) THEN v
    ELSE LET slot == CHOOSE i \in FreeSlots(v) : \A j \in FreeSlots(v) : i <= j
         IN [v EXCEPT !.rows[slot] = [id |-> v.next, dest |-> dest], !.next = @ + 1]

Emptied(v) == [v EXCEPT !.rows = [i \in DOMAIN @ |-> NoRow], !.funded = FALSE]

\* A transaction the phone sends: its press, what it asks for, about which row or vault, and
\* the terms of the vault it opens.
Tx(n, kind, id, dest, keys) ==
    [n |-> n, kind |-> kind, id |-> id, dest |-> dest, keys |-> keys, terms |-> <<>>]

\* What the program needs before it carries a transaction out.
Accepts(v, tx) ==
    CASE tx.kind = "withdraw" -> v.next <= HoldIds
      [] tx.kind = "stop" -> tx.id \in RowIds(v)
      [] tx.kind = "freeze" -> ~v.frozen
      [] tx.kind = "recover" -> v.funded
      [] tx.kind = "skip" -> /\ tx.id \in RowIds(v) /\ ~v.frozen /\ v.guardian /\ v.funded
                             /\ tx.keys = {"owner", "guardian"}
      [] tx.kind = "thaw" -> v.frozen /\ (v.guardian => tx.keys = {"owner", "guardian"})

Carried(v, tx) ==
    CASE tx.kind = "withdraw" -> Asked(v, tx.dest)
      [] tx.kind = "stop" -> Dropped(v, tx.id)
      [] tx.kind = "freeze" -> [v EXCEPT !.frozen = TRUE]
      [] tx.kind = "recover" -> Emptied(v)
      [] tx.kind = "skip" -> [Dropped(v, tx.id) EXCEPT !.known = @ \union {tx.dest}]
      [] tx.kind = "thaw" -> [v EXCEPT !.frozen = ~(v.guardian \/ v.armed),
                                       !.armed = ~(v.guardian \/ v.armed)]

-----------------------------------------------------------------------------
(* Screens                                                                 *)

HoldScreen(name, id) == [name |-> name, id |-> id, bundle |-> NoBundle, status |-> "loading"]

\* useHoldBundle loads; the other screens draw from the draft.
Loads(name) == name \in {"home", "send", "held", "alerts", "frozen", "skip", "thaw"}

Ready(s) == s.status = "ready"

WithId(s) == {i \in Waiting(s.bundle) : s.bundle.rows[i].id = s.id}

\* The withdrawal a screen is about. The held and the skip screen take the first one that
\* waits when the one in their route is gone; the alert plan takes none.
ShownRow(s) ==
    LET slots == Waiting(s.bundle) IN
    CASE WithId(s) # {} -> FirstRow(s.bundle, WithId(s))
      [] WithId(s) = {} /\ slots # {} /\ (s.name # "alerts" \/ s.id = 0) -> FirstRow(s.bundle, slots)
      [] OTHER -> NoRow

\* HeldScreen: Stop and Freeze, once a row is on display
HeldOffers(s) == IF Ready(s) /\ ShownRow(s) # NoRow THEN {"stop", "freeze"} ELSE {}

\* AlertPlanScreen: Stop
PlanOffers(s) == IF Ready(s) /\ ShownRow(s) # NoRow THEN {"stop"} ELSE {}

\* FrozenScreen: Recover, while the vault is frozen
FrozenOffers(s) == IF Ready(s) /\ s.bundle.frozen THEN {"recover"} ELSE {}

\* SkipScreen: nothing when the row or the freeze is gone; a request that is on the screen
\* is finished, otherwise one is made
SkipOffers(s) ==
    IF ~Ready(s) \/ (s.name = "skip" /\ ShownRow(s) = NoRow) \/ (s.name = "thaw" /\ ~s.bundle.frozen)
    THEN {}
    ELSE IF request # {} THEN {"finish"} ELSE {s.name}

NoPreview == [outcome |-> "none", dest |-> "none"]

\* SendScreen: nothing is signed without a preview, or on one that says refused
SendOffers(s) ==
    IF Ready(s) /\ hpreview # NoPreview /\ hpreview.outcome # "refused" THEN {"withdraw"} ELSE {}

\* GuardianScreen: the vault is opened from here
GuardianOffers(s) == IF Ready(s) THEN {"open"} ELSE {}

HoldOffers(s) ==
    CASE s.name = "held" -> HeldOffers(s)
      [] s.name = "alerts" -> PlanOffers(s)
      [] s.name = "frozen" -> FrozenOffers(s)
      [] s.name \in {"skip", "thaw"} -> SkipOffers(s)
      [] s.name = "send" -> SendOffers(s)
      [] s.name = "guardian" -> GuardianOffers(s)
      [] OTHER -> {}

NoPress == [kind |-> "none", id |-> 0, dest |-> "none", before |-> {}, outcome |-> "none",
            terms |-> <<>>, from |-> "none", both |-> FALSE]
NoCall == [press |-> NoPress, phase |-> "none", n |-> 0, landed |-> {}]
NoResolve == [dest |-> "none", bundle |-> NoBundle]

\* A screen is left: its forms, its request and the finger go with it.
Shows(screen) ==
    /\ hscreen' = screen
    /\ hpress' = NoPress
    /\ hdest' = "none" /\ hpreview' = NoPreview /\ hresolve' = NoResolve
    /\ request' = {}

\* VaultHome: a frozen vault opens the frozen screen and offers no sending, a row that waits
\* opens the held screen without naming the row.
HomeOffers(s) ==
    IF ~Ready(s) THEN {}
    ELSE {n \in {"send", "held", "frozen"} :
            \/ n = "frozen" /\ s.bundle.frozen
            \/ n = "held" /\ Waiting(s.bundle) # {}
            \/ n = "send" /\ ~s.bundle.frozen}

OpenFromHome ==
    /\ hscreen.name = "home"
    /\ \E name \in HomeOffers(hscreen) : Shows(HoldScreen(name, 0))
    /\ UNCHANGED <<hvault, hcall, hflying, setupVars, hmoves, hpast>>

\* holdPathFromNoticeData: a notice opens the row it was about, waiting or not.
OpenNotice ==
    /\ hscreen.name = "home"
    /\ \E id \in 1 .. hvault.next - 1 : Shows(HoldScreen("held", id))
    /\ UNCHANGED <<hvault, hcall, hflying, setupVars, hmoves, hpast>>

\* See plan, Let it go now with both keys, Unfreeze
OpenNext ==
    /\ hcall = NoCall
    /\ \/ HeldOffers(hscreen) # {} /\ hscreen.name = "held"
            /\ \E name \in {"alerts", "skip"} : Shows(HoldScreen(name, ShownRow(hscreen).id))
       \/ FrozenOffers(hscreen) # {} /\ hscreen.name = "frozen" /\ Shows(HoldScreen("thaw", 0))
    /\ UNCHANGED <<hvault, hcall, hflying, setupVars, hmoves, hpast>>

GoBack ==
    /\ hscreen.name \in {"send", "held", "alerts", "frozen", "skip", "thaw"}
    /\ Shows(HoldScreen("home", 0))
    /\ UNCHANGED <<hvault, hcall, hflying, setupVars, hmoves, hpast>>

\* The effect of the send screen runs again when what it depends on changes; the preview on
\* display stays until the new one is worked out.
Resolving(screen, dest) ==
    IF screen.name = "send" /\ dest # "none" /\ Ready(screen)
    THEN [dest |-> dest, bundle |-> screen.bundle] ELSE NoResolve

\* useHoldBundle: readHoldVault and the chain clock
LoadVault ==
    /\ Loads(hscreen.name) /\ hscreen.status = "loading"
    /\ hscreen' = [hscreen EXCEPT !.bundle = hvault, !.status = "ready"]
    /\ hresolve' = Resolving(hscreen', hdest)
    /\ UNCHANGED <<hvault, hdest, hpreview, request, hpress, hcall, hflying, setupVars, hmoves,
                   hpast>>

LoadFailed ==
    /\ Loads(hscreen.name) /\ hscreen.status = "loading"
    /\ hscreen' = [hscreen EXCEPT !.status = "error", !.bundle = NoBundle]
    /\ UNCHANGED <<hvault, useVars, hpress, hcall, hflying, setupVars, hmoves, hpast>>

\* Pulling down reads the vault again. While it is read nothing is drawn from the earlier
\* reading: the buttons are gone, and the finger with them (StatusBlock).
Reload ==
    /\ Loads(hscreen.name) /\ hscreen.status # "loading"
    /\ hscreen' = [hscreen EXCEPT !.status = "loading", !.bundle = NoBundle]
    /\ hpress' = NoPress
    /\ UNCHANGED <<hvault, useVars, hcall, hflying, setupVars, hmoves, hpast>>

TypeDestination(dest) ==
    /\ hscreen.name = "send" /\ Ready(hscreen) /\ hpress = NoPress /\ hcall = NoCall
    /\ dest # hdest
    /\ hdest' = dest
    /\ hresolve' = Resolving(hscreen, dest)
    /\ UNCHANGED <<hvault, hscreen, hpreview, request, hpress, hcall, hflying, setupVars,
                   hmoves, hpast>>

\* holdWithdrawalOutlook, of the vault as the screen read it
Expected(bundle, dest) ==
    CASE ~bundle.funded -> "refused"
      [] PaysAtOnce(bundle, dest) -> "at_once"
      [] HoldsIt(bundle, dest) -> "held"
      [] OTHER -> "refused"

\* resolveHoldDestination and sendPreview; an address that cannot be read clears the preview
PreviewArrives ==
    /\ hresolve # NoResolve
    /\ hpreview' \in {[outcome |-> Expected(hresolve.bundle, hresolve.dest),
                       dest |-> hresolve.dest], NoPreview}
    /\ hresolve' = NoResolve
    /\ UNCHANGED <<hvault, hscreen, hdest, request, hpress, hcall, hflying, setupVars, hmoves,
                   hpast>>

-----------------------------------------------------------------------------
(* The draft of a new vault                                                *)

\* The guardian screen's texts. A safe address nobody typed follows the guardian.
GuardianText(d) == IF d.mode = "phone" THEN d.phoneKey ELSE d.guardian

SafeShown(d) == IF d.safe # "" THEN d.safe ELSE GuardianText(d)

\* What the live screen says the vault is.
LiveShows(d) ==
    [guardian |-> IF d.mode = "phone" THEN (IF d.phoneKey # "" THEN d.phoneKey ELSE d.guardian)
                  ELSE d.guardian,
     safe |-> SafeShown(d), rules |-> d.rules, amount |-> d.amount]

\* What openHoldVault is called with.
TermsOf(d) ==
    [guardian |-> GuardianText(d), safe |-> SafeShown(d), rules |-> d.rules,
     amount |-> d.amount]

ChooseGuardian(d, mode, address) ==
    [d EXCEPT !.mode = mode, !.guardian = address, !.safe = IF d.touched THEN @ ELSE address]

Drafting == hscreen.name \in {"amount", "rules", "guardian"} /\ hcall = NoCall /\ hpress = NoPress

\* AmountScreen: some amount is asked for before the next screen
EnterAmount ==
    /\ Drafting /\ hscreen.name = "amount"
    /\ \/ \E a \in {0, 1} \ {draft.amount} :
            draft' = [draft EXCEPT !.amount = a] /\ UNCHANGED hscreen
       \/ hscreen' = HoldScreen("rules", 0) /\ UNCHANGED draft
    /\ UNCHANGED <<hvault, useVars, hpress, hcall, hflying, hvaults, hpurse, hmoves, hpast>>

\* RulesScreen: the everyday limit and the wait, taken together
SetRules ==
    /\ Drafting /\ hscreen.name = "rules"
    /\ \E rules \in {"everyday", "strict"} \ {draft.rules} :
            draft' = [draft EXCEPT !.rules = rules]
    /\ UNCHANGED <<hvault, hscreen, useVars, hpress, hcall, hflying, hvaults, hpurse, hmoves,
                   hpast>>

\* The guardian screen first asks the wallet for its accounts (secondSeedVaultAccount).
OpenGuardianScreen ==
    /\ Drafting /\ hscreen.name = "rules"
    /\ hscreen' = HoldScreen("guardian", 0)
    /\ UNCHANGED <<hvault, useVars, hpress, hcall, hflying, setupVars, hmoves, hpast>>

AccountsArrive ==
    /\ hscreen.name = "guardian" /\ hscreen.status = "loading"
    /\ \E key \in {"", "second"} : draft' = [draft EXCEPT !.phoneKey = key]
    /\ hscreen' = [hscreen EXCEPT !.status = "ready"]
    /\ UNCHANGED <<hvault, useVars, hpress, hcall, hflying, hvaults, hpurse, hmoves, hpast>>

EditKeys ==
    /\ Drafting /\ hscreen.name = "guardian" /\ Ready(hscreen)
    /\ \/ \E mode \in {"phone", "seeker"} :
            /\ mode = "phone" => draft.phoneKey # ""
            /\ draft' = ChooseGuardian(draft, mode, IF mode = "phone" THEN draft.phoneKey
                                                    ELSE draft.guardian)
       \/ draft.mode = "seeker" /\ \E address \in {"other", "owner"} :
            draft' = ChooseGuardian(draft, "seeker", address)
       \/ \E safe \in {"", "cold"} : draft' = [draft EXCEPT !.safe = safe, !.touched = TRUE]
    /\ draft' # draft
    /\ UNCHANGED <<hvault, hscreen, useVars, hpress, hcall, hflying, hvaults, hpurse, hmoves,
                   hpast>>

\* What onSign and openHoldVault refuse before the wallet is asked.
MayOpenVault(terms) ==
    /\ terms.guardian \notin {"", "owner"}
    /\ terms.safe # ""
    /\ terms.amount > 0
    /\ terms.amount <= hpurse

\* nextVaultId, over the vaults listed when the press was completed
NextVaultId == 1 + Cardinality(hvaults)

-----------------------------------------------------------------------------
(* A press and what comes of it                                            *)

\* HoldSign and HoldToApprove: the closure of the screen as it is now
HoldBegins ==
    /\ hpress = NoPress /\ hcall = NoCall
    /\ \E kind \in HoldOffers(hscreen) :
        hpress' = [kind |-> kind, id |-> ShownRow(hscreen).id,
                   dest |-> IF kind = "withdraw" THEN hdest ELSE ShownRow(hscreen).dest,
                   before |-> RowIds(hscreen.bundle), outcome |-> hpreview.outcome,
                   terms |-> IF kind = "open" THEN <<TermsOf(draft)>> ELSE <<>>,
                   from |-> hscreen.name,
                   both |-> kind \in {"skip", "thaw"} /\ hscreen.bundle.guardian]
    /\ UNCHANGED <<hvault, hscreen, useVars, hcall, hflying, setupVars, hmoves, hpast>>

HoldReleased ==
    /\ hpress # NoPress
    /\ hpress' = NoPress
    /\ UNCHANGED <<hvault, hscreen, useVars, hcall, hflying, setupVars, hmoves, hpast>>

\* The press is complete and onSign runs: it lists the vaults, resolves the destination or
\* takes a block hash before the wallet opens.
PressCompletes ==
    /\ hpress # NoPress /\ hpast.presses < HoldPresses
    /\ hcall' = [press |-> hpress, phase |-> "wallet", n |-> hpast.presses + 1,
                 landed |-> {}]
    /\ hpast' = [hpast EXCEPT !.presses = @ + 1, !.newId = NextVaultId]
    /\ hpress' = NoPress
    /\ UNCHANGED <<hvault, hscreen, useVars, hflying, setupVars, hmoves>>

\* A transaction made from a press.
Made(call) ==
    LET p == call.press IN Tx(call.n, p.kind, p.id, p.dest, {"owner"})

\* onSign throws, or the wallet does, before anything is sent: the button arms again.
CallThrows ==
    /\ hcall.phase = "wallet"
    /\ hcall' = NoCall
    /\ UNCHANGED <<hvault, hscreen, useVars, hpress, hflying, setupVars, hmoves, hpast>>

\* signHoldPartial: the request stays on the screen, signed by one key.
SignPartial ==
    /\ hcall.phase = "wallet"
    /\ hcall.press.both
    /\ hscreen.name = hcall.press.from
    /\ request' = {Made(hcall)}
    /\ hcall' = NoCall
    /\ UNCHANGED <<hvault, hscreen, hdest, hpreview, hresolve, hpress, hflying, setupVars,
                   hmoves, hpast>>

\* The text of a request is copied to the phone with the other key, which signs what it is
\* given.
OtherKeySigns ==
    /\ hscreen.name \in {"skip", "thaw"}
    /\ \E tx \in request :
        /\ "guardian" \notin tx.keys
        /\ hflying' = hflying \union {[tx EXCEPT !.keys = @ \union {"guardian"}]}
        /\ tx \notin hflying
    /\ UNCHANGED <<hvault, hscreen, useVars, hpress, hcall, setupVars, hmoves, hpast>>

\* A request made on the other phone is pasted here.
PasteRequest ==
    /\ hscreen.name \in {"skip", "thaw"} /\ Ready(hscreen) /\ request = {} /\ hcall = NoCall
    /\ hscreen.bundle.guardian
    /\ hpress = NoPress
    /\ \E id \in IF hscreen.name = "skip" THEN RowIds(hvault) ELSE {0} :
        request' = {Tx(0, hscreen.name, id, KnownDest, {"guardian"})}
    /\ UNCHANGED <<hvault, hscreen, hdest, hpreview, hresolve, hpress, hcall, hflying,
                   setupVars, hmoves, hpast>>

\* signAndSend: the wallet signs and sends
WalletSends ==
    /\ hcall.phase = "wallet"
    /\ \/ /\ hcall.press.kind \in {"withdraw", "stop", "freeze", "recover"}
          /\ hflying' = hflying \union {Made(hcall)}
       \/ /\ hcall.press.kind = "thaw" /\ ~hcall.press.both
          /\ hflying' = hflying \union {Made(hcall)}
       \/ /\ hcall.press.kind = "finish"
          /\ \E tx \in request :
                hflying' = hflying \union {[tx EXCEPT !.n = hcall.n, !.keys = @ \union {"owner"}]}
       \/ /\ hcall.press.kind = "open"
          /\ MayOpenVault(hcall.press.terms[1])
          /\ hflying' = hflying \union
                {[Tx(hcall.n, "open", hpast.newId, "none", {"owner"}) EXCEPT !.terms = hcall.press.terms]}
    /\ hcall' = [hcall EXCEPT !.phase = "sent"]
    /\ UNCHANGED <<hvault, hscreen, useVars, hpress, setupVars, hmoves, hpast>>

\* A transaction lands: it is carried out, or it fails as a whole. init_vault and the first
\* deposit are one transaction.
Lands(tx) ==
    LET opens == tx.kind = "open" /\ tx.id \notin {v.id : v \in hvaults}
                    /\ tx.terms[1].amount <= hpurse
        works == IF tx.kind = "open" THEN opens ELSE Accepts(hvault, tx)
        held == tx.kind = "withdraw" /\ works /\ HoldsIt(hvault, tx.dest)
    IN
    /\ hflying' = hflying \ {tx}
    /\ hcall' = IF hcall.phase = "sent" /\ tx.n = hcall.n
                THEN [hcall EXCEPT !.landed = {[ok |-> works, kind |-> tx.kind, held |-> held,
                                                id |-> IF held THEN hvault.next ELSE tx.id]}]
                ELSE hcall
    /\ hvault' = IF works /\ tx.kind # "open" THEN Carried(hvault, tx) ELSE hvault
    /\ IF opens
       THEN /\ hvaults' = hvaults \union {[id |-> tx.id, terms |-> tx.terms[1]]}
            /\ hpurse' = hpurse - tx.terms[1].amount
       ELSE UNCHANGED <<hvaults, hpurse>>
    /\ UNCHANGED <<hscreen, useVars, hpress, draft, hmoves, hpast>>

HoldTxExpires(tx) ==
    /\ hflying' = hflying \ {tx}
    /\ UNCHANGED <<hvault, hscreen, useVars, hpress, hcall, setupVars, hmoves, hpast>>

\* Mutant: an unheard transaction is taken for a confirmed one.
MutHeardOf(call) == TRUE

\* confirmSignatures saw it confirmed, without an error.
HeardOf(call) == \E r \in call.landed : r.ok

\* confirmSignatures saw it fail, or its time ran out.
GivesUp(call) == (\E r \in call.landed : ~r.ok) \/ call.landed = {}

\* confirmSignatures saw it fail, or gave up on it while it may still land.
ConfirmThrows ==
    /\ hcall.phase = "sent"
    /\ GivesUp(hcall)
    /\ hcall' = NoCall
    /\ UNCHANGED <<hvault, hscreen, useVars, hpress, hflying, setupVars, hmoves, hpast>>

\* A report: its button, its row, and whether a transaction that did it landed.
Reported(call) ==
    [hpast EXCEPT !.reported = @ \union
        {[kind |-> call.press.kind, id |-> call.press.id,
          done |-> \E t \in call.landed : t.ok /\ call.press.kind \in {t.kind, "finish"}]}]

\* Where a confirmed press leads.
After(p) ==
    CASE p.kind = "stop" -> HoldScreen("held", p.id)
      [] p.kind = "freeze" -> HoldScreen("frozen", 0)
      [] p.kind = "recover" -> HoldScreen("home", 0)
      [] p.kind = "thaw" -> HoldScreen("frozen", 0)
      [] p.kind = "finish" -> HoldScreen(IF p.from = "thaw" THEN "frozen" ELSE "home", 0)

Confirms ==
    /\ hcall.phase = "sent" /\ hcall.press.kind \notin {"withdraw", "open"}
    /\ HeardOf(hcall)
    /\ Shows(After(hcall.press))
    /\ hpast' = Reported(hcall)
    /\ hcall' = NoCall
    /\ UNCHANGED <<hvault, hflying, setupVars, hmoves>>

\* The vault is live: the draft keeps what was opened, and the live screen reads the draft.
OpenConfirms ==
    /\ hcall.phase = "sent" /\ hcall.press.kind = "open"
    /\ HeardOf(hcall)
    /\ draft' = IF draft.touched THEN draft
                ELSE ChooseGuardian(draft, draft.mode, GuardianText(draft))
    /\ Shows([HoldScreen("live", hpast.newId) EXCEPT !.status = "ready"])
    /\ hcall' = NoCall
    /\ UNCHANGED <<hvault, hflying, hvaults, hpurse, hmoves, hpast>>

SendConfirms ==
    /\ hcall.phase = "sent" /\ hcall.press.kind = "withdraw"
    /\ HeardOf(hcall)
    /\ hcall' = [hcall EXCEPT !.phase = "reread"]
    /\ UNCHANGED <<hvault, hscreen, useVars, hpress, hflying, setupVars, hmoves, hpast>>

\* Rows of the vault read again that were not there when the screen was loaded.
Added(before) == {i \in Waiting(hvault) : hvault.rows[i].id \notin before}

\* Where a confirmed withdrawal leads: to the row that is new, or by the preview.
AfterSend(p) ==
    IF Added(p.before) # {} THEN HoldScreen("held", FirstRow(hvault, Added(p.before)).id)
    ELSE IF p.outcome = "at_once" THEN HoldScreen("home", 0)
    ELSE HoldScreen("held", 0)

Reread ==
    /\ hcall.phase = "reread"
    /\ Shows(AfterSend(hcall.press))
    /\ hcall' = NoCall
    /\ UNCHANGED <<hvault, hflying, setupVars, hmoves, hpast>>

RereadFails ==
    /\ hcall.phase = "reread"
    /\ hcall' = NoCall
    /\ UNCHANGED <<hvault, hscreen, useVars, hpress, hflying, setupVars, hmoves, hpast>>

-----------------------------------------------------------------------------
(* The SDK: every call is one transaction, sent and confirmed              *)

SdkCall(v) ==
    /\ hmoves < HoldMoves
    /\ hmoves' = hmoves + 1
    /\ hvault' = v
    /\ UNCHANGED <<hscreen, useVars, hpress, hcall, hflying, setupVars, hpast>>

SdkDeposit == ~hvault.funded /\ SdkCall([hvault EXCEPT !.funded = TRUE])
SdkWithdraw == \E d \in HoldDests : HoldsIt(hvault, d) /\ hvault.next <= HoldIds
                                        /\ SdkCall(Asked(hvault, d))
SdkExecute == /\ ~hvault.frozen /\ hvault.funded
              /\ \E id \in RowIds(hvault), d \in HoldDests :
                    /\ \E i \in DOMAIN hvault.rows : hvault.rows[i] = [id |-> id, dest |-> d]
                    /\ SdkCall([Dropped(hvault, id) EXCEPT !.known = @ \union {d}])
SdkStop == \E id \in RowIds(hvault) : SdkCall(Dropped(hvault, id))
SdkFreeze == ~hvault.frozen /\ SdkCall([hvault EXCEPT !.frozen = TRUE])
SdkUnfreeze == hvault.frozen /\ SdkCall(Carried(hvault, Tx(0, "thaw", 0, "none",
                                                           {"owner", "guardian"})))
SdkSkip == \E id \in RowIds(hvault) :
            /\ Accepts(hvault, Tx(0, "skip", id, "none", {"owner", "guardian"}))
            /\ SdkCall(Dropped(hvault, id))
SdkRecover == hvault.funded /\ SdkCall(Emptied(hvault))
\* A guardian is added at once; removing one waits.
SdkProposeChange ==
    IF ~hvault.guardian THEN SdkCall([hvault EXCEPT !.guardian = TRUE])
    ELSE ~hvault.change /\ SdkCall([hvault EXCEPT !.change = TRUE])
SdkApplyChange ==
    hvault.change /\ SdkCall([hvault EXCEPT !.guardian = FALSE, !.change = FALSE])
SdkCancelChange == hvault.change /\ SdkCall([hvault EXCEPT !.change = FALSE])
\* initVault from another device of the owner takes the next identifier.
SdkInitVault ==
    /\ hscreen.name \in {"amount", "rules", "guardian"}
    /\ hmoves < HoldMoves
    /\ hmoves' = hmoves + 1
    /\ hvaults' = hvaults \union {[id |-> NextVaultId, terms |-> [TermsOf(draft) EXCEPT !.amount = 0]]}
    /\ UNCHANGED <<hvault, hscreen, useVars, hpress, hcall, hflying, draft, hpurse, hpast>>

SdkNext ==
    \/ hscreen.name \notin {"amount", "rules", "guardian", "live"}
        /\ \/ SdkDeposit \/ SdkWithdraw \/ SdkExecute \/ SdkStop \/ SdkFreeze \/ SdkUnfreeze
           \/ SdkSkip \/ SdkRecover \/ SdkProposeChange \/ SdkApplyChange \/ SdkCancelChange
    \/ SdkInitVault

-----------------------------------------------------------------------------

HoldPhoneInit ==
    /\ \E story \in HoldStories :
        hscreen = HoldScreen(IF story = "use" THEN "home" ELSE "amount", 0)
    /\ hvault = [rows |-> [i \in 1 .. HoldSlots |-> IF i = 1 THEN [id |-> 1, dest |-> KnownDest]
                                                    ELSE NoRow],
                 next |-> 2, frozen |-> FALSE, funded |-> TRUE, guardian |-> TRUE,
                 armed |-> FALSE, change |-> FALSE, known |-> {KnownDest}]
    /\ hdest = "none" /\ hpreview = NoPreview /\ hresolve = NoResolve /\ request = {}
    /\ hpress = NoPress /\ hcall = NoCall /\ hflying = {}
    /\ draft = [amount |-> 1, rules |-> "everyday", mode |-> "seeker", guardian |-> "",
                safe |-> "", touched |-> FALSE, phoneKey |-> ""]
    /\ hvaults = {} /\ hpurse = 1 /\ hmoves = 0
    /\ hpast = [presses |-> 0, newId |-> 0, reported |-> {}]

Answers == CallThrows \/ SignPartial \/ WalletSends \/ ConfirmThrows \/ Confirms
            \/ OpenConfirms \/ SendConfirms \/ Reread \/ RereadFails

HoldPhoneNext ==
    \/ OpenFromHome \/ OpenNotice \/ OpenNext \/ GoBack
    \/ LoadVault \/ LoadFailed \/ Reload
    \/ \E dest \in HoldDests : TypeDestination(dest)
    \/ PreviewArrives
    \/ EnterAmount \/ SetRules \/ OpenGuardianScreen \/ AccountsArrive \/ EditKeys
    \/ HoldBegins \/ HoldReleased \/ PressCompletes
    \/ OtherKeySigns \/ PasteRequest
    \/ Answers
    \/ \E tx \in hflying : Lands(tx) \/ HoldTxExpires(tx)
    \/ SdkNext

\* The wallet answers or its session closes; confirming gives up after its timeout; a read
\* answers or fails.
HoldPhoneSpec == HoldPhoneInit /\ [][HoldPhoneNext]_holdVars /\ WF_holdVars(Answers)

-----------------------------------------------------------------------------
(* Properties                                                              *)

\* Whatever the other key, the other devices and late transactions do meanwhile: when a press
\* ends without an error it did what its button said. A withdrawal that was reported stopped
\* is not waiting, and every report has a transaction that landed (confirmSignatures, held.tsx,
\* alerts.tsx, frozen.tsx, skip.tsx).
ReportedIsDone ==
    /\ \A r \in hpast.reported : r.kind = "stop" => r.id \notin RowIds(hvault)
    /\ \A r \in hpast.reported : r.done

\* A withdrawal the vault is holding is never taken for one that was paid: after its press the
\* phone opens the held screen, on a withdrawal that is new since the form was loaded, also
\* when the vault was frozen or changed between the preview and the press (send.tsx).
SentIsFollowed ==
    [][\A r \in hcall.landed :
        /\ hcall.phase = "reread" /\ hcall' = NoCall /\ hscreen' # hscreen
        /\ r.held /\ r.id \in RowIds(hvault)
        =>
            /\ hscreen'.name = "held"
            /\ hscreen'.id \in RowIds(hvault) \ hcall.press.before]_holdVars

\* What the guardian screen showed under the finger is what was opened, and the live screen
\* says the same again, whichever guardian was picked, whether the safe address was typed or
\* followed, and whoever else took the next identifier (guardian.tsx, live.tsx, _layout.tsx).
LiveIsOnChain ==
    hscreen.name = "live" =>
        \E v \in hvaults : v.id = hscreen.id /\ v.terms = LiveShows(draft)

\* What the phone reports, shows and follows of a vault is what became of it on chain.
ScreensTellTheTruth == [](ReportedIsDone /\ LiveIsOnChain) /\ SentIsFollowed

\* Every press that was completed comes to an end (HoldSign, confirmSignatures).
PressesEnd == []<>(hcall = NoCall)

=============================================================================
