------------------------------ MODULE Approval ------------------------------
(***************************************************************************)
(* The forms in which an owner makes a rule on the phone: the card that    *)
(* approves a request or builds a rule from a template (ApprovalScreen),   *)
(* the form that writes, applies a ruleset or renews (rule/new), and the   *)
(* renewal screen before it, down to the moment the hold opens the rule.   *)
(*                                                                         *)
(* An amount is a number of base units; what is typed on the card is a     *)
(* number of half base units, so that the rounding of parseLimitAmount is  *)
(* visible; the fields of the form hold whole tokens.  A day is one unit   *)
(* of the clock.  The mints differ in Unit, the base units of a token.     *)
(***************************************************************************)
EXTENDS Integers, FiniteSets

CONSTANTS
    Request,        \* [agent, payee, cap, max, days, mint, purpose]: the request that was scanned
    Templates,      \* [cap, max, days]: the templates of the card, in tokens
    Ending,         \* [agent, payee, cap, max, mint, opened, expires]: the rule that is ending
    Addresses,      \* the addresses the owner may type or scan
    Owner, NoAddress,
    Mint,           \* the mint of the app's configuration
    Mints, Unit,    \* the mints of the owner's rules; Unit[m] base units make a token
    Typed,          \* half base units the owner may type
    RENEWAL_WINDOW,
    MaxTime, MaxEdits, MaxForms, MaxFunds   \* bounds

None == -1

ASSUME ApprovalAssumption ==
    /\ Request.cap \in Nat /\ Request.max \in Nat /\ Request.days \in Nat /\ Request.mint \in Mints
    /\ Templates # {} /\ \A t \in Templates : t.cap \in Nat /\ t.max \in Nat /\ t.days \in Nat
    /\ Mint \in Mints /\ \A m \in Mints : Unit[m] \in Nat \ {0}
    /\ Typed \subseteq Nat

VARIABLES
    card,       \* the card, with [on |-> FALSE] when it is not on screen
    sheet,      \* the form of rule/new, likewise
    renewal,    \* the draft on the renewal screen, likewise
    observed,   \* [key, value]: the answer of the last observePresign
    reading,    \* the key of the observePresign whose answer is still wanted
    staged,     \* pending of scanHandoff.ts
    hold,       \* what the hold under way captured when the finger went down
    opening,    \* the arguments chain.open is working on
    opened,     \* the rules opened, with what was on screen
    shelf,      \* the rulesets stored on the phone
    saving,     \* what onSaveRuleset has loaded and not yet stored
    decimalsOf, \* the mint whose decimals chain.decimals holds
    funds,      \* the owner's tokens per mint
    time, edits, forms  \* the clock, and how often the owner edited and opened a form

approvalVars == <<card, sheet, renewal, observed, reading, staged, hold, opening, opened,
                  shelf, saving, decimalsOf, funds, time, edits, forms>>

Off == [on |-> FALSE]
Least(a, b) == IF a < b THEN a ELSE b
Most(a, b) == IF a > b THEN a ELSE b

-----------------------------------------------------------------------------
(* What the card computes at each render. *)

CardMint == IF card.request THEN Request.mint ELSE Mint

\* readKey
ReadKey(c) == [mint |-> IF c.request THEN Request.mint ELSE Mint, payee |-> c.payee]

\* The observation, if it was read for what is on screen now.
LiveObservation ==
    IF observed.on /\ observed.key = ReadKey(card) THEN observed.value ELSE Off

DecimalsKnown == LiveObservation.on /\ LiveObservation.mint_readable

\* templateLimits
TemplateLimits(t) == [cap |-> t.cap * Unit[Mint], max |-> t.max * Unit[Mint]]

Seeded == ~card.request /\ DecimalsKnown

CapNow == IF card.cap # None THEN card.cap
          ELSE IF Seeded THEN TemplateLimits(card.template).cap ELSE None
MaxNow == IF card.max # None THEN card.max
          ELSE IF Seeded THEN TemplateLimits(card.template).max ELSE None

\* expiryFromDays
ExpiryFromDays(days, from) == from + days

\* requestCeiling
RequestCeiling == [cap |-> Request.cap, max |-> Request.max,
                   expires |-> ExpiryFromDays(Request.days, card.opened_at)]

\* Mutant: the request's last day is not looked at.
MutCustomDateWithin(date) == IF date <= card.opened_at THEN None ELSE date

\* customDateWithin, with None for a date that is not accepted
CustomDateWithin(date) ==
    IF date <= card.opened_at \/ (card.request /\ date > RequestCeiling.expires) THEN None
    ELSE date

ExpiresAt ==
    IF card.choice.kind = "date" THEN CustomDateWithin(card.choice.at)
    ELSE LET at == ExpiryFromDays(card.choice.days, card.opened_at) IN
         IF card.request THEN Least(at, RequestCeiling.expires) ELSE at

\* templateCapCeiling
CapCeiling == IF card.request THEN Request.cap ELSE 4 * TemplateLimits(card.template).cap
MaxCeiling == IF card.request THEN Least(Request.max, CapNow) ELSE CapNow

\* clampToRequest
ClampToRequest(cap, max) ==
    LET c == Most(Least(cap, Request.cap), 0)
    IN [cap |-> c, max |-> Most(Least(Least(max, Request.max), c), 0)]

\* clampTemplate
ClampTemplate(cap, max) ==
    LET c == Most(Least(cap, CapCeiling), 0)
    IN [cap |-> c, max |-> Most(Least(max, c), 0)]

\* applyLimits
ApplyLimits(c, cap, max) ==
    LET limits == IF c.request THEN ClampToRequest(cap, max) ELSE ClampTemplate(cap, max)
    IN [c EXCEPT !.cap = limits.cap, !.max = limits.max]

\* parseLimitAmount: the nearest base unit, ties up.
ParseLimitAmount(text) == (text + 1) \div 2

\* amountError
AmountError(which) ==
    /\ card.draft[which] # None
    /\ DecimalsKnown
    /\ ParseLimitAmount(card.draft[which]) > (IF which = "max" THEN MaxCeiling ELSE CapCeiling)

AmountsReady == CapNow > 0 /\ MaxNow > 0 /\ ~AmountError("max") /\ ~AmountError("cap")

\* agentFieldReady
AgentFieldReady(agent, payee) == agent \notin {Owner, payee} \/ agent = NoAddress

\* evaluatePresign
EvaluatePresign(value, cap) ==
    [tokens |-> value.mint_readable /\ value.balance > 0 /\ value.balance >= cap,
     network |-> value.network, sol |-> value.sol, payee |-> value.payee_account]

\* canApprove
CanApprove ==
    /\ card.payee # NoAddress
    /\ AgentFieldReady(card.agent, card.payee)
    /\ ExpiresAt > card.opened_at
    /\ LiveObservation.on /\ CapNow # None
    /\ LET checks == EvaluatePresign(LiveObservation, CapNow)
       IN \A id \in DOMAIN checks : checks[id]

Ready == CapNow # None /\ MaxNow # None /\ AmountsReady /\ CanApprove

\* approvalSentence and the amount fields: what the owner reads while holding.
Shown ==
    [agent |-> card.agent, payee |-> card.payee,
     cap |-> IF card.draft.cap = None THEN CapNow ELSE ParseLimitAmount(card.draft.cap),
     max |-> IF card.draft.max = None THEN MaxNow ELSE ParseLimitAmount(card.draft.max),
     until |-> ExpiresAt, mint |-> CardMint]

-----------------------------------------------------------------------------
(* The card. *)

NewCard(request, template, agent) ==
    [on |-> TRUE, request |-> request, template |-> template,
     agent |-> agent, payee |-> IF request THEN Request.payee ELSE NoAddress,
     cap |-> IF request THEN Request.cap ELSE None,
     max |-> IF request THEN Request.max ELSE None,
     choice |-> [kind |-> "days", days |-> IF request THEN Request.days ELSE template.days],
     draft |-> [max |-> None, cap |-> None], opened_at |-> time, done |-> FALSE]

\* A form comes on screen: the hold of the last one is gone, its answers are not wanted.
Screens(c, s, r) ==
    /\ forms' = IF c.on \/ s.on \/ r.on THEN forms + 1 ELSE forms
    /\ forms' <= MaxForms
    /\ card' = c /\ sheet' = s /\ renewal' = r
    /\ hold' = Off
    /\ reading' = IF c.on THEN [on |-> TRUE, key |-> ReadKey(c)] ELSE Off

Edited(c) ==
    /\ card.on /\ edits < MaxEdits
    /\ edits' = edits + 1
    /\ card' = c
    /\ reading' = IF ReadKey(c) = ReadKey(card) THEN reading ELSE [on |-> TRUE, key |-> ReadKey(c)]
    /\ UNCHANGED <<sheet, renewal, observed, hold, opening, opened, shelf, saving, decimalsOf, funds, time, forms>>

\* A scanned request opens the card for it.
OpenRequest ==
    /\ ~card.on /\ ~sheet.on /\ ~renewal.on
    /\ Screens(NewCard(TRUE, CHOOSE t \in Templates : TRUE, Request.agent), Off, Off)
    /\ UNCHANGED <<observed, staged, opening, opened, shelf, saving, decimalsOf, funds, time, edits>>

\* The card for a template; an address scanned instead of a request is its agent (takeWriteRule),
\* and one scanned for a field is taken by the field.
OpenTemplate(t) ==
    /\ ~card.on /\ ~sheet.on /\ ~renewal.on
    /\ LET c == NewCard(FALSE, t, NoAddress) IN
       Screens(CASE staged.on /\ staged.target \in {"write", "agent"} -> [c EXCEPT !.agent = staged.value]
                 [] staged.on /\ staged.target = "payee" -> [c EXCEPT !.payee = staged.value]
                 [] OTHER -> c, Off, Off)
    /\ staged' = Off
    /\ UNCHANGED <<observed, opening, opened, shelf, saving, decimalsOf, funds, time, edits>>

\* A code that holds an address is read by the camera (stageAddressScan, stageWriteRule).
Scan(target, address) ==
    /\ edits < MaxEdits /\ ~staged.on
    /\ IF card.on \/ sheet.on THEN target \in {"agent", "payee"} ELSE target = "write"
    /\ staged' = [on |-> TRUE, target |-> target, value |-> address]
    /\ edits' = edits + 1
    /\ UNCHANGED <<card, sheet, renewal, observed, reading, hold, opening, opened, shelf, saving, decimalsOf, funds, time, forms>>

\* useFocusEffect: the card takes what was scanned, unless it shows a request.
TakeScan ==
    /\ card.on /\ ~card.request /\ staged.on
    /\ staged' = Off
    /\ LET c == IF staged.target = "payee" THEN [card EXCEPT !.payee = staged.value]
                ELSE [card EXCEPT !.agent = staged.value]
       IN /\ card' = c
          /\ reading' = IF ReadKey(c) = ReadKey(card) THEN reading ELSE [on |-> TRUE, key |-> ReadKey(c)]
    /\ UNCHANGED <<sheet, renewal, observed, hold, opening, opened, shelf, saving, decimalsOf, funds, time, edits, forms>>

\* selectTemplate
SelectTemplate(t) ==
    /\ card.on /\ ~card.request /\ t # card.template
    /\ Edited([card EXCEPT !.template = t, !.choice = [kind |-> "days", days |-> t.days],
                           !.draft = [max |-> None, cap |-> None], !.cap = None, !.max = None])
    /\ UNCHANGED staged

TypeAddress(field, address) ==
    /\ card.on /\ ~card.request
    /\ Edited([card EXCEPT ![field] = address])
    /\ UNCHANGED staged

\* onChip and nudgeDays
SetDays(days) ==
    /\ card.on /\ days > 0
    /\ card.request => days <= Request.days
    /\ Edited([card EXCEPT !.choice = [kind |-> "days", days |-> days]])
    /\ UNCHANGED staged

\* onCustomDate: a date that is not accepted leaves the choice as it was.
TypeDate(date) ==
    /\ card.on
    /\ Edited(IF CustomDateWithin(date) = None THEN card
              ELSE [card EXCEPT !.choice = [kind |-> "date", at |-> date]])
    /\ UNCHANGED staged

\* nudge
Stepped(current, ceiling, direction) ==
    IF ceiling <= 0 THEN 0 ELSE Least(Most(current + direction * Unit[CardMint], 0), ceiling)

DialsShown == card.on /\ DecimalsKnown /\ CapNow # None /\ MaxNow # None

\* nudgeAmount
NudgeAmount(which, direction) ==
    /\ DialsShown
    /\ LET c == [card EXCEPT !.draft = [max |-> None, cap |-> None]]
           cap == Stepped(CapNow, CapCeiling, direction)
       IN Edited(IF which = "max"
                 THEN ApplyLimits(c, CapNow, Stepped(MaxNow, MaxCeiling, direction))
                 ELSE ApplyLimits(c, cap, Least(MaxNow, cap)))
    /\ UNCHANGED staged

\* typeAmount: text above its ceiling stays a draft and is an error.
TypeAmount(which, text) ==
    /\ DialsShown
    /\ LET amount == ParseLimitAmount(text)
           c == [card EXCEPT !.draft[which] = text]
       IN Edited(CASE which = "max" /\ amount <= MaxCeiling -> ApplyLimits(c, CapNow, amount)
                   [] which = "cap" /\ amount <= CapCeiling ->
                        ApplyLimits([c EXCEPT !.draft.max = None], amount, Least(MaxNow, amount))
                   [] OTHER -> c)
    /\ UNCHANGED staged

\* finishAmount: the field loses the focus.
FinishAmount(which) ==
    /\ DialsShown /\ card.draft[which] # None /\ ~AmountError(which)
    /\ card' = [card EXCEPT !.draft[which] = None]
    /\ UNCHANGED <<sheet, renewal, observed, reading, staged, hold, opening, opened, shelf, saving,
                   decimalsOf, funds, time, edits, forms>>

\* observePresign: each of its reads may fail on its own.
Observe(failed) ==
    /\ reading.on
    /\ observed' = [on |-> TRUE, key |-> reading.key,
                    value |-> [on |-> TRUE, mint_readable |-> failed # "mint",
                               network |-> failed # "network", sol |-> failed # "sol",
                               balance |-> funds[reading.key.mint],
                               payee_account |-> failed \notin {"mint", "payee"}
                                                    /\ reading.key.payee # NoAddress,
                               payee |-> reading.key.payee]]
    /\ reading' = Off
    /\ UNCHANGED <<card, sheet, renewal, staged, hold, opening, opened, shelf, saving, decimalsOf,
                   funds, time, edits, forms>>

\* observePresign throws.
ObserveFails ==
    /\ reading.on
    /\ reading' = Off /\ observed' = Off
    /\ UNCHANGED <<card, sheet, renewal, staged, hold, opening, opened, shelf, saving, decimalsOf, funds, time, edits, forms>>

\* Decline this rule, or back.
Leave ==
    /\ card.on \/ sheet.on \/ renewal.on
    /\ ~opening.on
    /\ Screens(Off, Off, Off)
    /\ UNCHANGED <<observed, staged, opening, opened, shelf, saving, decimalsOf, funds, time, edits>>

-----------------------------------------------------------------------------
(* The renewal screen and the form of rule/new. *)

\* inRenewalWindow
InRenewalWindow ==
    /\ time < Ending.expires
    /\ Ending.expires - time <= RENEWAL_WINDOW

\* formatBaseUnits with the decimals the app holds at the moment
InTokens(amount) == amount \div Unit[decimalsOf]

\* baselineDraft
BaselineDraft ==
    [agent |-> Ending.agent, payee |-> Ending.payee, cap |-> InTokens(Ending.cap),
     max |-> InTokens(Ending.max), days |-> Ending.expires - Ending.opened]

\* buildRenewalView and the draft the screen starts from.
OpenRenewal ==
    /\ ~card.on /\ ~sheet.on /\ ~renewal.on
    /\ InRenewalWindow
    /\ Screens(Off, Off, [on |-> TRUE, base |-> BaselineDraft, draft |-> BaselineDraft])
    /\ UNCHANGED <<observed, staged, opening, opened, shelf, saving, decimalsOf, funds, time, edits>>

\* Change: a field of the draft.
EditDraft(field, value) ==
    /\ renewal.on /\ edits < MaxEdits
    /\ renewal' = [renewal EXCEPT !.draft[field] = value]
    /\ edits' = edits + 1
    /\ UNCHANGED <<card, sheet, observed, reading, staged, hold, opening, opened, shelf, saving,
                   decimalsOf, funds, time, forms>>

\* The screen is keyed by its baseline: another baseline starts it over.
BaselineMoves ==
    /\ renewal.on /\ renewal.base # BaselineDraft
    /\ renewal' = [on |-> TRUE, base |-> BaselineDraft, draft |-> BaselineDraft]
    /\ UNCHANGED <<card, sheet, observed, reading, staged, hold, opening, opened, shelf, saving,
                   decimalsOf, funds, time, edits, forms>>

\* renewalDraftError
RenewalDraftError(d) == d.max <= 0 \/ d.max > d.cap \/ d.days <= 0 \/ d.payee = NoAddress

NewSheet(kind, draft, version) ==
    [on |-> TRUE, kind |-> kind, agent |-> draft.agent, payee |-> draft.payee, cap |-> draft.cap,
     max |-> draft.max, days |-> draft.days, version |-> version,
     done |-> FALSE, kept |-> {"agent", "payee"}]

\* Set up the next rule: renewalSearchParams fills the form.
SetUpNextRule ==
    /\ renewal.on /\ InRenewalWindow /\ ~RenewalDraftError(renewal.draft)
    /\ Screens(Off, NewSheet("renew", renewal.draft, 0), Off)
    /\ UNCHANGED <<observed, staged, opening, opened, shelf, saving, decimalsOf, funds, time, edits>>

TemplateDraft(t) ==
    [agent |-> NoAddress, payee |-> NoAddress, cap |-> t.cap, max |-> t.max, days |-> t.days]

\* rule/new?ruleset=new: the form that writes a ruleset or a rule.
OpenAuthor(t) ==
    /\ ~card.on /\ ~sheet.on /\ ~renewal.on
    /\ Screens(Off, NewSheet("author", TemplateDraft(t), 0), Off)
    /\ UNCHANGED <<observed, staged, opening, opened, shelf, saving, decimalsOf, funds, time, edits>>

\* applyRuleset
OpenApply(row) ==
    /\ ~card.on /\ ~sheet.on /\ ~renewal.on
    /\ Screens(Off, NewSheet("apply", TemplateDraft(row), row.version), Off)
    /\ UNCHANGED <<observed, staged, opening, opened, shelf, saving, decimalsOf, funds, time, edits>>

\* The ending rule is no longer listed: the form starts over from the first template.
SourceVanishes ==
    /\ sheet.on /\ sheet.kind = "renew" /\ ~opening.on
    /\ Screens(Off, NewSheet("write", TemplateDraft(CHOOSE t \in Templates : TRUE), 0), Off)
    /\ UNCHANGED <<observed, staged, opening, opened, shelf, saving, decimalsOf, funds, time, edits>>

\* setField, stepAmount and stepDays: the limits of a ruleset being applied are not editable.
EditSheet(field, value) ==
    /\ sheet.on /\ edits < MaxEdits
    /\ sheet.kind = "apply" => field \in {"agent", "payee"}
    /\ sheet' = [sheet EXCEPT ![field] = value, !.kept = @ \ {field}]
    /\ edits' = edits + 1
    /\ UNCHANGED <<card, renewal, observed, reading, staged, hold, opening, opened, shelf, saving,
                   decimalsOf, funds, time, forms>>

SheetTakesScan ==
    /\ sheet.on /\ staged.on /\ staged.target # "write"
    /\ staged' = Off
    /\ sheet' = [sheet EXCEPT ![staged.target] = staged.value, !.kept = @ \ {staged.target}]
    /\ UNCHANGED <<card, renewal, observed, reading, hold, opening, opened, shelf, saving,
                   decimalsOf, funds, time, edits, forms>>

\* nextRulesetVersion
NextVersion(rows) == 1 + Cardinality({r.version : r \in rows})

\* onSaveRuleset loads the rows ...
BeginSave ==
    /\ sheet.on /\ sheet.kind = "author" /\ Cardinality(saving) < 2 /\ edits < MaxEdits
    /\ saving' = saving \union
            {[rows |-> shelf,
              row |-> [version |-> NextVersion(shelf), cap |-> sheet.cap, max |-> sheet.max,
                       days |-> sheet.days]]}
    /\ edits' = edits + 1
    /\ UNCHANGED <<card, sheet, renewal, observed, reading, staged, hold, opening, opened, shelf,
                   decimalsOf, funds, time, forms>>

\* ... and stores them with the new one (addRuleset, persistRulesets).
EndSave(save) ==
    /\ shelf' = save.rows \union {save.row}
    /\ saving' = saving \ {save}
    /\ UNCHANGED <<card, sheet, renewal, observed, reading, staged, hold, opening, opened,
                   decimalsOf, funds, time, edits, forms>>

-----------------------------------------------------------------------------
(* The hold and the opening. *)

\* What is on screen of the form, in base units of the mint whose symbol it shows.
SheetShown ==
    [agent |-> sheet.agent, payee |-> sheet.payee, cap |-> sheet.cap * Unit[Mint],
     max |-> sheet.max * Unit[Mint], until |-> time + sheet.days, mint |-> Mint]

\* openFromFields: the texts are read with chain.decimals.
SheetArgs ==
    [agent |-> sheet.agent, payee |-> sheet.payee, cap |-> sheet.cap * Unit[decimalsOf],
     max |-> sheet.max * Unit[decimalsOf], until |-> time + sheet.days, mint |-> Mint]

CardArgs ==
    [agent |-> card.agent, payee |-> card.payee, cap |-> CapNow, max |-> MaxNow,
     until |-> ExpiresAt, mint |-> CardMint]

\* onPressIn: the gesture keeps the handler of the render it began in. One rule per behaviour.
PressIn ==
    /\ ~hold.on /\ ~opening.on /\ opened = {}
    /\ \/ /\ card.on /\ Ready /\ ~card.done
          /\ hold' = [on |-> TRUE, form |-> IF card.request THEN "request" ELSE "template",
                      args |-> CardArgs, shown |-> Shown, seen |-> LiveObservation,
                      ceiling |-> IF card.request THEN RequestCeiling.expires ELSE None,
                      scale |-> Mint, kept |-> {}]
       \/ /\ sheet.on /\ ~sheet.done
          /\ hold' = [on |-> TRUE, form |-> sheet.kind, args |-> SheetArgs, shown |-> SheetShown,
                      seen |-> Off, ceiling |-> None, scale |-> decimalsOf, kept |-> sheet.kept]
    /\ UNCHANGED <<card, sheet, renewal, observed, reading, staged, opening, opened, shelf, saving,
                   decimalsOf, funds, time, edits, forms>>

\* onPressOut before the ring is full
Release ==
    /\ hold.on
    /\ hold' = Off
    /\ UNCHANGED <<card, sheet, renewal, observed, reading, staged, opening, opened, shelf, saving,
                   decimalsOf, funds, time, edits, forms>>

\* confirm calls onApprove or onOpen, which refuse what cannot be parsed.
HoldCompletes ==
    /\ hold.on
    /\ hold' = Off
    /\ opening' = IF hold.args.payee # NoAddress
                      /\ (hold.args.agent = NoAddress \/ hold.args.agent \notin {Owner, hold.args.payee})
                   THEN hold ELSE Off
    /\ UNCHANGED <<card, sheet, renewal, observed, reading, staged, opened, shelf, saving,
                   decimalsOf, funds, time, edits, forms>>

\* openMandate checks its input against the chain as it is now.
MayOpen(a) == a.cap > 0 /\ a.max > 0 /\ a.max <= a.cap /\ a.until > time /\ funds[a.mint] >= a.cap

OpenSucceeds ==
    /\ opening.on /\ MayOpen(opening.args)
    /\ opened' = opened \union {opening}
    /\ funds' = [funds EXCEPT ![opening.args.mint] = @ - opening.args.cap]
    /\ opening' = Off
    /\ card' = IF card.on THEN [card EXCEPT !.done = TRUE] ELSE card
    /\ sheet' = IF sheet.on THEN [sheet EXCEPT !.done = TRUE] ELSE sheet
    /\ UNCHANGED <<renewal, observed, reading, staged, hold, shelf, saving, decimalsOf, time, edits, forms>>

\* The checks fail or the owner declines in the wallet: the form can be held again.
OpenFails ==
    /\ opening.on
    /\ opening' = Off
    /\ UNCHANGED <<card, sheet, renewal, observed, reading, staged, hold, opened, shelf, saving,
                   decimalsOf, funds, time, edits, forms>>

-----------------------------------------------------------------------------
(* What happens around the forms. *)

\* A refresh shows a rule of another mint: chain.decimals follows it (setDecimals).
ShowRule(m) ==
    /\ m # decimalsOf
    /\ decimalsOf' = m
    /\ UNCHANGED <<card, sheet, renewal, observed, reading, staged, hold, opening, opened, shelf,
                   saving, funds, time, edits, forms>>

Spend(m) ==
    /\ funds[m] = MaxFunds
    /\ funds' = [funds EXCEPT ![m] = @ - 1]
    /\ UNCHANGED <<card, sheet, renewal, observed, reading, staged, hold, opening, opened, shelf,
                   saving, decimalsOf, time, edits, forms>>

DayPasses ==
    /\ time < MaxTime
    /\ time' = time + 1
    /\ UNCHANGED <<card, sheet, renewal, observed, reading, staged, hold, opening, opened, shelf,
                   saving, decimalsOf, funds, edits, forms>>

ApprovalInit ==
    /\ card = Off /\ sheet = Off /\ renewal = Off
    /\ observed = Off /\ reading = Off /\ staged = Off
    /\ hold = Off /\ opening = Off /\ opened = {}
    /\ shelf = {} /\ saving = {}
    /\ decimalsOf = Mint
    /\ funds \in [Mints -> {MaxFunds}]
    /\ time = 0 /\ edits = 0 /\ forms = 0

ApprovalNext ==
    \/ OpenRequest \/ TakeScan \/ ObserveFails \/ Leave
    \/ \E t \in Templates : OpenTemplate(t) \/ SelectTemplate(t) \/ OpenAuthor(t)
    \/ \E target \in {"agent", "payee", "write"}, a \in Addresses : Scan(target, a)
    \/ \E field \in {"agent", "payee"}, a \in Addresses \union {NoAddress} :
          TypeAddress(field, a) \/ EditSheet(field, a)
    \/ \E n \in 0 .. MaxTime + 3 : SetDays(n) \/ TypeDate(n)
    \/ \E which \in {"max", "cap"} :
          \/ FinishAmount(which)
          \/ \E direction \in {1, -1} : NudgeAmount(which, direction)
          \/ \E text \in Typed : TypeAmount(which, text)
    \/ \E failed \in {"mint", "network", "sol", "payee", "nothing"} : Observe(failed)
    \/ OpenRenewal \/ BaselineMoves \/ SetUpNextRule \/ SourceVanishes \/ SheetTakesScan
    \/ \E field \in {"cap", "max", "days"}, n \in 0 .. 2 :
          EditDraft(field, n) \/ EditSheet(field, n)
    \/ \E row \in shelf : OpenApply(row)
    \/ BeginSave
    \/ \E save \in saving : EndSave(save)
    \/ PressIn \/ Release \/ HoldCompletes \/ OpenSucceeds \/ OpenFails
    \/ \E m \in Mints : ShowRule(m) \/ Spend(m)
    \/ DayPasses

ApprovalSpec == ApprovalInit /\ [][ApprovalNext]_approvalVars

-----------------------------------------------------------------------------
(* Properties. *)

\* A rule opened from a request is within the request whatever was nudged, typed, dated or
\* scanned before the hold: the same agent, payee and token, no more in total or per payment,
\* a payment that fits the total, and no longer (clampToRequest, customDateWithin, onChip).
OpenedWithinRequest ==
    \A o \in opened : o.form = "request" =>
        /\ o.args.agent = Request.agent /\ o.args.payee = Request.payee /\ o.args.mint = Request.mint
        /\ o.args.cap \in 1 .. Request.cap
        /\ o.args.max \in 1 .. Least(Request.max, o.args.cap)
        /\ o.args.until <= o.ceiling

\* What is opened is what the owner read when the finger went down: the parties, both amounts
\* as the sentence and the amount fields say them, the end and the token (ApprovalScreen,
\* rule/new). The form of rule/new reads its amounts with the decimals of the rule on show,
\* so for it this is said of the times when that rule is in the app's own token.
OpenedAsShown == \A o \in opened : o.scale = Mint => o.args = o.shown

\* A rule is opened from the card only after its own payee, network, token and balance were
\* seen to be in order, however the payee was changed while earlier answers were on their way
\* (observePresign, liveObservation, evaluatePresign).
OpenedWasChecked ==
    \A o \in opened : o.form \in {"request", "template"} =>
        /\ o.seen.on /\ o.seen.payee = o.args.payee /\ o.seen.payee_account
        /\ o.seen.mint_readable /\ o.seen.network /\ o.seen.sol
        /\ o.seen.balance >= o.args.cap

\* The next rule keeps the agent and the payee of the ending one unless the owner changed them
\* (renewalSearchParams, RuleCompose).
RenewalKeepsTheParties ==
    \A o \in opened : o.form = "renew" =>
        /\ "agent" \in o.kept => o.args.agent = Ending.agent
        /\ "payee" \in o.kept => o.args.payee = Ending.payee

\* A rule is opened within the request it answers and on the terms that were on screen, with
\* what the presign check read, and a renewal keeps the parties.
RulesAreOpenedAsShown ==
    OpenedWithinRequest /\ OpenedAsShown /\ OpenedWasChecked /\ RenewalKeepsTheParties

=============================================================================
