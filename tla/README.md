# Veto: a TLA+ development of the program and of what surrounds it

Veto lets the owner of a token account give an agent limited spending power on Solana. One
on-chain program (`programs/veto`) keeps the rules, decides every payment, trade and
withdrawal, and writes every decision, refusals included, into a ledger anyone can read.
Around it run a watcher that submits recurring charges and tells of held withdrawals, an
indexer and tools that read the record back, an SDK and a command line for agents, a payment
terminal and a mobile app.

This directory holds TLA+ modules translated from that code, configurations that check them
with TLC on small instances, and proofs checked by TLAPS for all instances.

## 1. Inventory

| Part | Source | State it keeps | Operations | What is hard |
|---|---|---|---|---|
| Mandates | `programs/veto/src/lib.rs`, `state.rs` | the `Mandate` account (terms, spent, last nonce, override, status), its `Ledger`, the SPL delegation of the source | `open_mandate`, `charge`, `grant_override`, `revoke_mandate`, `close_mandate` | several mandates on a token account that has one delegate slot; owners and issuers that change the account directly; a failed inner call undoes the whole instruction |
| Ledger ring | `state.rs`, `hold_state.rs`, `trade_state.rs`, `indexer/src/ring.ts` | `head`, saturating `total`, fixed slots | `record`; `decodeLedgerAccount` | order after the wrap and after saturation |
| Hold vaults | `hold.rs`, `hold_state.rs` | `HoldVault` (rules, freeze, armed thaw, pending rows, known destinations, pending change, hour buckets), its ledger, the vault's tokens | `init_vault`, `deposit`, `withdraw`, `execute`, `stop`, `freeze`, `unfreeze`, `skip`, `recover`, `propose_change`, `apply_change`, `cancel_change` | two keys acting in any order; waits computed under rules that change; identifiers reused |
| Rolling day | `rolling_window.rs` | 25 hour buckets | `spent`, `record_release`, `commit` | a bucket used again after 25 hours, a rewound clock, saturation |
| Trade rules | `trade.rs`, `trade_state.rs`, `tools/trade.ts`, `app/lib/trade*.ts` | `TradeRule`, its ledger and buckets, the delegation | open, trade, grant, revoke, close; the floor chosen on the phone; the agent's status; the export of a trade | fee, floor and rounding before and after the swap; an exchange that fails after the decision |
| Agents | `sdk/src/agent.ts`, `read.ts`, `cli/src` | the command's own variables, the home file | `connect`, `pay`, `status`, rule requests | reads that the owner's acts overtake; a transaction whose answer is lost |
| Watcher | `watcher/src/run.ts`, `chain.ts`, `confirm.ts`, `journal*.ts`, `cadence.ts`, `nonce.ts` | the journal (local file and stored object), what was read before each charge | a pass over the due slots; submit, retry, confirm, journal, repair | a crash between charge and row; a first transaction that lands after it was given up; the race of websocket, poll and grace timer |
| Prices and terminal | `watcher/src/feed.ts`, `fx.ts`, `money.ts`, `terminal/src` | day files, the cached state and payments of the server | quote, state, payments | concurrent requests that share caches over an `await`; month and century ends; exact decimals |
| Rule request links | `sdk/src/rule-request.ts`, `app/lib/ruleRequest.ts` | none | format; two parsers | two parsers of one format; links edited on the way |
| The owner's phone: rules | `app/lib/chain.ts`, `useChain.ts`, `wallet.ts`, `tradeChain.ts`, `override.ts` | the store of agent keys, the wallet session, the hooks of the screens | open, revoke, close, grant, confirm; refresh | overlapping reads; the app dying between two writes; a wallet that sends what the app never hears of |
| Forms | `app/components/ApprovalScreen.tsx`, `app/app/rule/new.tsx`, `app/lib/approval.ts`, `presign.ts`, `renewal.ts`, `ruleset.ts` | the draft, what was checked | type, apply, renew, scan, hold to open | a check made before an edit and used after it |
| Hold on the phone | `app/lib/hold*.ts`, `app/app/hold`, `sdk/src/hold.ts` | screens, pressed closures, two-key requests | set up, send, stop, freeze, recover, propose, skip; preview | a press keeps the closure of an older drawing |
| Hold alerts | `watcher/src/hold.ts`, `app/lib/holdNotify.ts`, `holdGuard.ts`, `holdAlerts.ts` | what was announced; reminders | scan, remind, brake | the ring moving on between scans; overlapping scans |
| Notices | `app/lib/decisionNotifyTask.ts`, `notify.ts`, `quietNote.ts` | marks of what was told, the note's day | background scan; settings | a scan and the settings screen writing one key |
| Agent records | `app/lib/grade.ts`, `plaques.ts`, `weekReview.ts`, `trackRecord.ts`, `useAgentHistories.ts` | histories being loaded | load, grade, count, draw | loads that overlap, fail and finish in any order |
| Widgets | `app/lib/widgetData.ts`, `app/widgets` | selection, bindings, drawn boards | jobs; the picker | jobs that overlap; rules removed under them |
| Decision records | `tools/export.ts`, `lib.ts`, `bulk.ts`, `verify.ts`, `indexer/src` | a file; the chain read again | export, verify | reopened addresses, wrapped rings, a node with holes |
| Index service | `service/src` | a database of decoded transactions | webhook, backfill, query | the same transaction twice, in any order |
| Web site, load tests, deployment | `Makefile`, `scripts`, `infra` | none | none | nothing that decides |

How they interact: every writer goes through transactions of the program. The runtime runs
transactions that write the same account one after the other, and a transaction that errors
changes nothing, so one instruction is one atomic step. Everything off chain reads accounts
and history at some moment and acts later, on what may have become stale. The watcher, the
SDK and the phone meet the program only through its accounts and each other only through
links, files and notices.

What makes each part correct:

- *Mandates*: spending stays within cap, ceiling, payee and expiry; no nonce is paid twice;
  every charge leaves a decision; the ledger tells the truth about the account; the
  delegation follows what the mandate may still spend.
- *Ledger*: a reader sees the most recent decisions in order.
- *Hold*: money leaves at once only within the limits and only to destinations already paid;
  anything else after its wait or by both keys, or to the safe address; rules loosen only
  after the wait; a freeze holds; every held withdrawal is settled once; what the owner was
  shown is what happens.
- *Rolling day*: every payment of the last day is counted, and nothing for more than 25 hours.
- *Trades*: within the limits, above the floor, settled when passed.
- *Agents and watcher*: what is reported and journalled is what the chain did; one charge per
  slot, unless nobody heard of the first; every command and slot comes to an end.
- *Phone*: no key or money is lost, nothing is sent on top of an unheard transaction, screens
  claim what was read.
- *Alerts and notices*: what is told happened, is told once, and is told in the end.
- *Records and links*: a verdict is true, a card adds up, both parsers read a link alike.

`PROJECT.json` lists the hazards of this code line by line, with the properties that cover
them.

## 2. Modules

| Module | Models | How state and actions correspond to the code |
|---|---|---|
| `LedgerRing` | `Ledger::record`, `decodeLedgerAccount` | operators, used by `Mandate`, `HoldVault`, `LedgerLog` |
| `LedgerLog` | the ring against the full log it is a window of | the log is the abstract state, `Decode` the mapping |
| `SplToken` | the SPL token program as `lib.rs` uses it | external code |
| `Settlement` | what chargers rely on: the nonces of a mandate | shared by `Watcher` and `Allowance` |
| `Allowance` | the abstract promise of a mandate | opened, paid out of in rising nonces, ended, put away |
| `Mandate` | all mandate instructions over shared token accounts | one action per instruction; below |
| `MandateAllowance` | the refinement mapping from `Mandate` to `Allowance` | for one mandate, `Followed`, among all |
| `RollingWindow` | `rolling_window.rs` | operators, used by `WindowLog`, `HoldVault`, `Trade` |
| `WindowLog` | the buckets against every payment with its second | a clock that ticks and steps back, either writer |
| `HoldVault` | all vault instructions | one action per instruction; below |
| `HoldPreview` | the outlook the SDK and the phone give of a withdrawal | operators over the state of `HoldVault`, next to what the program does |
| `Trade` | trade rules, the pool, the phone's floor, the agent's status, the exporter | one action per instruction and reader |
| `Agent` | `VetoAgent`, `veto connect`, `pay`, `status`, the rule request | extends `Mandate`; `cmd[c]` is a command between two awaits, `fate` its transaction, `home` the file |
| `Watcher` | the charging part of the watcher | every remote call a step; `local` and `store` are the two copies of the journal, `flight` the transactions underway |
| `Money`, `Calendar` | decimals as digits, days and ages | operators of `Terminal` |
| `Terminal` | the server and its feeds | requests that hold what they read before an await |
| `RuleLink` | one format, two parsers | links as parts, edited in at most two places |
| `Approval` | every form that makes a rule | the draft, what was checked, what opened |
| `OwnerApp` | taps of `useChain`, the store of `wallet.ts` | each remote call a step; crash between two writes |
| `RuleReads` | refreshes that overlap | each with the owner and choice it began with |
| `HoldPhone` | the Hold screens | a press keeps the closure it was drawn with; the SDK moves the vault underneath |
| `HoldAlerts` | three scanners of one vault | watcher, owner's and guardian's phone, and the brakes |
| `Notices` | the background scan and the quiet note | reads and marks as separate steps |
| `AgentRecords` | grade, plaques, week, card | histories read rule by rule |
| `Widgets` | jobs and the picker | each read of a job a step |
| `DecisionRecords` | export and verification | a node with holes, reopened mandates, any file |

The proofs are in `CommonProofs`, `LimitProofs`, `MandateProofs`, `HoldVaultProofs`,
`ChargerProofs`, `PhoneProofs`, `TellProofs` and `ScreenProofs` (section 4); those about trade
rules are in `LimitProofs`, those about agents and the watcher in `ChargerProofs`.

The modules `MC...` hold the constants of the runs. Those that run several independent parts,
`MCLimitsAndRecords`, `MCChargers`, `MCPhoneSigns`, `MCPhoneTells` and `MCShown`, have a variable
`part`: a behaviour is of one part, and the others stay in an initial state. Properties that an
idle part would break say `part = ... => ...` of the named properties of the modules; those that
are true of an idle part as well are listed as they are. So each part is checked in full and
their state spaces add instead of multiplying. Nothing is claimed of two parts moving at once,
which share no state. `MCMandate` divides its behaviours into stories in the same way (a mandate
alone, two that share a purse, a record).

### Mandate

`mandate[m]` is the account at the address `m` (an address without an account holds
`NoMandate`), `ledger[m]` its ring, `token[a]` the token accounts of the mint, `now` the
chain clock, which moves both ways in `Times`. `paid[m]` is a history the actions never read.

Each action is a whole instruction. `OpenMandate` includes the SPL approval, which replaces
whatever delegate the source had. A charge pays or is refused according to `Evaluate`, which
keeps the order of the checks of `evaluate`. A paid charge settles the account and moves the
tokens; were the transfer to fail, the action is disabled, as the transaction rolls back.
`RevokeMandate` ends with an SPL revoke of the source's delegation, whichever mandate holds
it, and is disabled when that fails. What owners and the issuer do without the program
(approve, revoke, transfer, freeze) are actions of their own; the constant `Outside` says
which of them an instance includes. The proofs cover them all.

Left out: purpose text, decimals, PDA bumps, timestamps inside entries, events.

### HoldVault

One vault. `vault.pending` holds the occupied rows and `vault.known` the remembered
destinations: their places in the arrays decide nothing. `balance` is the vault's token
account, to which anyone may send. Accounts outside the vault appear by name only, since a
transfer the token program refuses fails the transaction and changes nothing. `past` is a
history, read only by the properties: when each pending row was held and under which delay,
which identifiers were settled, who was paid, what was released in each second of the last
day, when the pending change was asked for, and when the vault was frozen.

`Withdraw` has the four outcomes of the code (uncovered, paid, held, no slot left).
`Execute` and `Skip` share `PayRow`. `Unfreeze` is by both keys, or armed and then finished
by an owner without a guardian. `ProposeChange` applies what tightens and schedules what
loosens in one step, writing up to two records. The constant `Calls` says which instructions
an instance includes, so that payments and rule changes can each be checked at a useful
depth; the proofs cover them all together.

The chain's clock moves both ways, by `Tick` and `Rewind`: validators' clocks may step back, and
`rolling_window.rs` allows for it and tests it. What the properties say of waits and days they
say of that clock: a thaw finishes a day after it was armed by the clock as it reads then, and
an everyday payment keeps the limit of the day that ends now or, after a step back, with the
latest release. `past.recent` keeps the releases of that day and forgets the others.

Left out: timestamps inside entries, overflow of the i64 clock, bumps, events.

### Trade rules

The agent's reading of its room (`tradeStatus`) takes the clock of the machine it runs on
(`agent.ts:782`), which is not the chain's. With a machine that is not ahead the reading can be
relied on; a machine ahead of the chain lets go of a bucket early and overstates the room, so
`AgentSeesItsRoom` is about the others. The owner also moves, approves and revokes with the wallet
alone, and the mint freezes the accounts: `own` remembers that a delegation was approved
directly, from when on it may be more or less than what is left of the cap. The owner closing the
source account is not modelled.

### Off the chain

A remote call is a step of its own, and a transaction that was sent lands, expires or is
never heard of independently of the caller. Whatever else may move between two calls (the
owner, another command, an SDK with the same key) does. The chain these modules see is as
small as their readers allow: `Agent` runs on `Mandate` itself, `Watcher` on `Settlement`,
the promise `Mandate` is proved to keep, the others on the accounts they look at.

## 3. Runs

Every property of a passing run has a definition `Mut...` in the module it guards: the form a
plausible bug would give to one operator of the code. Put in the operator's place, it makes TLC
find the property violated under the same configuration. `PROJECT.json` lists them.

| Run | Checks | Instance |
|---|---|---|
| `mandate` | `TypeOK`, `NoncePaidOnce`, `ActiveHasBudget`, `EveryChargeIsDecided`, `SuggestionIsGrantable`, `DelegationFollowsMandate`, `PaidWithinTerms`, `IsAnAllowance` (refinement) | two stories. One mandate on its own purse: four sets of terms of which two are valid, amounts and nonces 0..2, times 0 and 1, freezes and transfers from outside. Two mandates on one purse, one of them paying its owner: the owner also revoking directly. A ring of one row with a count that saturates at 1 |
| `mandate_record` | `RecordTellsTheTruth` | one mandate, a ring of 2 rows, a count that saturates at 3, amounts and nonces 1..2, approvals from outside |
| `hold_pay` | `TypeOK`, `SettledOnce`, `MoneyLeavesByTheRules`, `EverydayWithinLimits`, `PreviewIsWhatHappens` | two destinations, one place in the known list, two pending rows, with and without a guardian, a window of one 2-second bucket and the current one, a share of 2/3, time to 4 with steps back of up to 2, three tokens |
| `hold_rules` | `RecordTellsTheVault`, `PendingChangeLoosens`, `LooseningWaits`, `FreezeHolds` | three sets of rules, time to 3 with steps back of 1, a ring of 8 rows followed until it is full |
| `limits_and_records` | `RulesAreOpenedAsShown`, `VerdictsAreRight`, `TradesAreSound`, `WindowIsTheDay`, `ReaderSeesRecentLog` | forms with up to 3 edits; histories of 6 transactions on one address and 3 with everything else varying (charges to others' accounts, a merchant's account given away, a missing block time); four stories of a trade rule (the agent tries everything twice while the pool moves; it trades in good faith while the owner, the mint and the clock act; the owner pays, approves and revokes past the rule; it settles three trades while the clock goes back, enough to reuse a bucket), with pools of 10/20 and 10/5 and fees of 1/8; a window of two buckets and payments of 33 and 66 against a u64 of 100; a ring of 3 rows, a count that saturates at 5 and 9 writes |
| `chargers` | `ReportsAreTrue`, `JournalIsBacked`, `LinksAreReadAlike`, `SeenOverrideIsKept`, `ChargersEnd` | two commands of an agent on a ring of 2 rows; two due slots, 4 transactions, 2 faults; links of both versions with up to two edits of their parts and of what may stand at their head |
| `phone_signs` | `NothingIsLost`, `NoBlindResend`, `ScreensTellTheTruth`, `SigningEnds` | two taps on two rules, one crash; two presses, one move by the SDK, two withdrawal ids |
| `phone_tells` | `AlertsAreTrue`, `NoticesComeOnce`, `NewsArrives` | ten stories of a vault, three of a pair of rules, scans that overlap |
| `shown` | `RecordsAreTrue`, `WidgetsAreTrue`, `EmptyWasRead`, `TerminalTellsTheTruth`, `RecordsOnlyGrow` | five histories of rules, on phones whose clock is right, behind or ahead; two widget jobs that overlap; two fetches at a time, of one account or of two that take turns; two interchangeable requests with up to 3 asks over three days at the end of February 2100 |
| `trade_export` | `TradesCanBeExported`, which the code violates | the trade part of `limits_and_records` |
| `genuine_record` | `GenuineIsConfirmed`, which the code violates | the records part of `limits_and_records` |
| `paid_rows` | `PaidRowsWerePaid`, which the code violates | the watcher part of `chargers` |

The composed properties stand for these:

| Property | Parts | What they say |
|---|---|---|
| `RulesAreOpenedAsShown` | `OpenedWithinRequest`, `OpenedAsShown`, `OpenedWasChecked`, `RenewalKeepsTheParties` | whatever was typed, scanned, renewed or applied in between, the rule that is opened is the one on the screen, was checked as it is, and asks for no more than the request |
| `VerdictsAreRight` | `ConfirmedIsTrue`, `ConfirmedIsComplete`, `GenuineIsNotRejected` | a file is confirmed only when the chain says the same (its time is compared only when the node knows the block's) and no row is missing, and a genuine export of charges to the merchant's own account is not rejected |
| `TradesAreSound` | `TradesKeepTheLimits`, `TradesClearTheFloor`, `PassedTradesSettle`, `AgentSeesItsRoom`, `ConfirmedTradesHappened` | settled trades keep the cap, the price floor and the limit of every day up to the latest second traded at, what passed settled, and the agent's readings (of a machine not ahead of the chain) and the exporter's agree with the rule |
| `WindowIsTheDay` | `CountsTheLastDay`, `AgesOut` | the buckets count all payments of the last day and none for more than a day and a bucket |
| `TerminalTellsTheTruth` | `QuoteIsForItsInstant`, `QuoteIsExact`, `PaymentsAreAsOldAsSaid` | the caches never give a request another instant's price or a list older than it says |
| `LinksAreReadAlike` | `ReadsBackAsAsked`, `ParsersAgree`, `AcceptedIsSound` | what was formatted is read back, the SDK and the phone accept the same links but for the heads listed below, and nothing malformed |
| `JournalIsBacked` | `RowsTellTheChain`, `ChargedOnceUnlessUnheard` | rows of the journal, repaired or not, are what happened to their slots, one that was reported paid without a signature is at or below a paid slot, and a slot is charged twice only after a transaction nobody heard of |
| `ChargersEnd` | `CommandsEnd`, `EverySlotIsSettled` | liveness of both |
| `NothingIsLost` | `KeysAreKept`, `NothingStranded` | a crash between the store of a key and the transaction loses neither |
| `ScreensTellTheTruth` | `ReportedIsDone`, `LiveIsOnChain`, `SentIsFollowed` | what a Hold screen reports done is on chain, and it follows the withdrawal it sent to that one's own row |
| `SigningEnds` | `SignedTapsEnd`, `PressesEnd` | liveness of both |
| `AlertsAreTrue` | `EndsAreTrue`, `BrakesAreTrue`, `ToldOnce`, `RemindersFollowTheVault` | what an alert or a brake says of a withdrawal is so, once, and reminders are for what still waits |
| `NoticesComeOnce` | `NewsIsToldOnce`, `OneNoteADay` | despite a settings screen writing the same keys |
| `NewsArrives` | `HeldIsAnnounced`, `NewsIsTold` | liveness |
| `RecordsAreTrue` | `PlaquesAreTrue`, `WeeksCountEachOnce`, `CardsAddUp` | over loads that fail and overlap |
| `WidgetsAreTrue` | `FacesHoldTogether`, `GoneIsGone`, `BindingsFollowPicks` | a board is of one reading, and a rule removed is not drawn |
| `RecordsOnlyGrow` | `GradesAreEarned`, `ShownNeverGoesBack` | a grade shown was earned and is not taken back by an older load |

**Why these bounds.** A mandate compares an amount only with its cap, its ceiling, the balance
and the delegation, and a nonce with the last one and the override's; two values on each side of
each comparison, and the boundary itself, occur with amounts 0..2. A second mandate matters only
through the delegate slot, which two contend for. The rows of a vault interact in pairs (claims,
identifiers, the room left in the list), and its rules through the order of a proposal, its
application and a withdrawal, for which three sets (tighter, looser, incomparable) are enough.
Rings, counts and clocks are small so that wrapping, saturation and rewinding happen within a
run. For the chain the theorems of section 4 remove the bounds altogether. For what runs off the
chain the hazards are orders of at most two actors' steps, and each run has two of every actor
that can overlap with another of its kind. `hold_rules` stops at a full ring
(`ACTION_CONSTRAINT RingNotWrapped`), because its record property is about a ring that has not
wrapped.

Deadlock is not checked where the bounds stop the system (time, writes, stories, asks); where the
system itself may not stop, a liveness property says so.

**Fairness.** Nothing on the chain is fair: no one has to charge, execute or apply anything. Off
the chain:

- `Agent`: each step of a command, and landing or expiry of its transaction (a blockhash expires);
- `Watcher`: a pass is started by the scheduler and killed by the job's task timeout
  (`scripts/deploy-watcher-cloud.sh:770-771`), time passes, transactions land. Faults (crashes,
  rate limits, lost answers) are bounded in number and never fair;
- `OwnerApp`, `HoldPhone`: once the wallet answered, each remote call returns or fails and both
  watches of a confirmation end with their window. The owner's own taps are not fair;
- `HoldAlerts`, `Notices`: the scheduler and the phone's background task run the scans.

**Where the code and its documentation disagree.** Three runs end in a violation of what the
repository says of itself:

- `trade_export`: a trade may settle below the requested input, and `tools/trade.ts:246` compares
  the request with the settled amount, so that an honest record is refused, against
  `docs/DECISION_RECORD.md:35` and `sdk/README.md:236`.
- `genuine_record`: "A genuine record prints `VERDICT: CONFIRMED`"
  (`docs/DECISION_RECORD.md:256`), but `verify.ts:681` holds the destination of every record
  against the merchant, also that of a charge the program refused because it was someone else's.
  `GenuineIsNotRejected` is about files whose charges went to the merchant.
- `paid_rows`: "Do not journal paid unless the chain confirms it" (`run.ts:462`), but
  `submitCharge` answers paid for any nonce that `last_nonce` has passed (`chain.ts:106`). When a
  payment of a later slot lands between the pass's reading of `last_nonce` and this second one,
  a slot that was never paid gets a paid row. What holds of such a row is in `RowsTellTheChain`.

These others were met while modelling; the models follow the code, and the properties are stated
as the code keeps them:

- `suggested_override` is described as the override that would clear the exact charge
  (`lib.rs:513-515`), but it looks at the cap only: with the delegation gone, funds short or an
  account frozen, the charge is refused again. What holds is `SuggestionIsGrantable`.
- `revoke_mandate` is described as allowed from any status except REVOKED (`lib.rs:317`), and
  fails while the source is frozen, because the token program refuses its revoke (`lib.rs:345`).
- The rolling window is said never to undercount a day after a rewind (`rolling_window.rs:16`).
  It does when the bucket was reused before the step back. Relative to the latest second seen
  nothing is lost, which is what `CountsTheLastDay` says, `EverydayWithinLimits` of a vault and
  `TradesKeepTheLimits` of the trades: a payment on a clock that went back counts towards the
  later ones, not towards hours of its own day whose buckets they took.
- No single key is said to be able to shorten a wait (`README.md:339`). In a vault without a
  guardian the owner appoints one at once (`hold.rs:528-531`), and the two may then `skip` a
  withdrawal that was already waiting. What holds is `MoneyLeavesByTheRules`.
- The two parsers of a rule request differ at the head of the link. The SDK's `new URL` takes an
  empty user (`veto://@rule-request?`), an empty port (`veto://rule-request:?`), a path of one
  dot, control characters around the text and raw line breaks in it, which the phone's pattern
  (`ruleRequest.ts:45-48`) does not; the phone cuts off a no-break space, which the SDK does not.
  `ParsersAgree` excepts exactly these. A raw tab or line break inside the query, which the URL
  parser would drop from a value, is not modelled.
- A record of a reopened mandate can be confirmed with an earlier tenure when the listing lags
  (`verify.ts:516`), and the rule export of one is always rejected.
- A rule sheet parses amounts with the decimals the chain hook holds (`rule/new.tsx:299-300`),
  which may be another rule's.
- A listing begun for one owner is shown after another connects (`useChain.ts:202-246`), so that
  an empty one may offer a first rule to the wrong owner: `strayed` in `RuleReads`.
- The plaque "Rule finished" goes by the phone's clock (`useChain.ts:161`, `plaques.ts:201`): with
  the phone ahead of the chain it is shown while the rule still pays. `PlaquesAreTrue` excepts
  that case.
- After a failed listing a widget says its rule is no longer on the chain, and an older job may
  draw over a newer one; `held.tsx:32` falls back to the first pending row; `send.tsx` may show
  the preview of an earlier amount.
- Of a day there is "never more than one" quiet note (`quietNote.ts:20`), except after the
  interruptions that `OneNoteADay` names.
- A plaque for thirty days or ten refusals is lost when the ring rolls its rows off.
- A permission of a nonce that was never refused counts as a request outside the rule, and so does
  a second one of the same nonce; its first refusal then makes the two one (`grade.ts:237`, `:307`).
  So a refusal can make a grade better, and `GradesAreEarned` is about agents whose owner allows no
  nonce twice. The proof found it; the run's bounds are too small for it.

## 4. Proofs

TLAPS checks these for every value of the constants that the assumptions allow. The assumptions
are the named `ASSUME`s of the modules (amounts and times are naturals, capacities positive, the
bounds of the code's own integers), which TLC evaluates in the runs, and one more in
`MandateProofs`: `CapacityBelowCount`, that a ring has fewer slots than its u32 count can
count. The code has 32. Without it a count saturated at the capacity reads as a complete ring.
The models off the chain assume that rules, widgets and the like are finite sets of positive
numbers, that a mint's unit is positive, and that the phone makes its keys in the order 1, 2, 3
and so on (`OwnerAppAssumption`), which stands for keys that never repeat.

| Theorem | Says | Run with the property |
|---|---|---|
| `TypeCorrect`, `CapIsAbsolute`, `NoReplay` | `TypeOK`, `ActiveHasBudget`, `NoncePaidOnce` of `Mandate` | `mandate` |
| `NoDecisionIsLost`, `SuggestionsAreGood`, `PaymentsStayWithinTerms` | `EveryChargeIsDecided`, `SuggestionIsGrantable`, `PaidWithinTerms` | `mandate` |
| `MandateIsAnAllowance` | `IsAnAllowance`: the refinement of `Allowance` | `mandate` |
| `DelegationsFollow` | `DelegationFollowsMandate`, for any number of mandates and purses | `mandate` |
| `LedgerTellsTheTruth` | `RecordTellsTheTruth` | `mandate_record` |
| `HoldTypeCorrect`, `WithdrawalsSettleOnce`, `MoneyLeavesByTheRulesOnly` | `TypeOK`, `SettledOnce`, `MoneyLeavesByTheRules` of `HoldVault` | `hold_pay` |
| `EverydayStaysWithinLimits`, `WithdrawalsEndAsForetold` | `EverydayWithinLimits`, `PreviewIsWhatHappens` | `hold_pay` |
| `ChangesAreOrderly`, `LooseningAlwaysWaits`, `FreezesHold` | `PendingChangeLoosens`, `LooseningWaits`, `FreezeHolds` | `hold_rules` |
| `TheRecordTellsTheVault` | `RecordTellsTheVault` | `hold_rules` |
| `AgentsUseTheProgram` | `AgentSpec` implements the `Spec` of `Mandate` | |
| `CommandsTellTheTruth`, `OverridesAreKept` | `ReportsAreTrue`, `SeenOverrideIsKept` | `chargers` |
| `TheJournalIsBacked` | `JournalIsBacked` | `chargers` |
| `TradesAreSoundAlways` | `TradesAreSound`: all five parts | `limits_and_records` |
| `ReadersSeeTheNewest`, `TheWindowIsTheDay` | `ReaderSeesRecentLog`, `WindowIsTheDay` | `limits_and_records` |
| `OpensAsShown` | `RulesAreOpenedAsShown`: all four parts | `limits_and_records` |
| `LosesNothing`, `NothingIsResentBlindly` | `NothingIsLost`, `NoBlindResend` | `phone_signs` |
| `HoldScreensAreTrue` | `ScreensTellTheTruth`: all three parts | `phone_signs` |
| `NoticesAreToldOnce` | `NoticesComeOnce`: both parts | `phone_tells` |
| `AlertsAreTrueAlways` | `AlertsAreTrue`: all four parts, under two hypotheses | `phone_tells` |
| `WidgetsTellTheTruth` | `WidgetsAreTrue`: all three parts | `shown` |
| `AbsenceIsRead` | `EmptyWasRead`, for any accounts in turn | `shown` |
| `RecordsAreTrueAlways` | `RecordsAreTrue`: all three parts | `shown` |
| `RecordsGrowOnly` | `RecordsOnlyGrow`: both parts | `shown` |

So every property of the runs about the three kinds of account on the chain (mandates, vaults and
trade rules) is a theorem as well, and so is every safety property of what charges mandates and of
what the owner signs on the phone, of its notices and of what it shows, with the two about the structures
they share. The theorems about vaults and trade rules are about all their
instructions at once, where the runs divide them.

**Mandates.** `SpendingInv` joins `TypeOK`, `ActiveHasBudget` and `NoncePaidOnce`, and is
inductive: neither a budget nor a nonce can be shown to hold without the other's bounds. With it
every step that pays is within the terms, and every step maps to a step of `Allowance` or to a
stutter. `DelegationInv` adds that a mandate's source stays in its owner's hands, without which a
transfer of authority by someone else could not be excluded.

What a reader may conclude from a ledger needs more, since the rows that told part of it may be
gone. `RecordInv` says that the ring was filled in order and that its decoded rows, oldest first,
tell totals, nonce, grants and the end of the account as it is. Each instruction is shown to
follow from its row, and one lemma about one more row in the ring, with at most one row dropped,
carries all four parts over every instruction.

**Vaults.** `RulesInv` (the rules in force and those that wait are allowed, and a waiting change
loosens something), `ThawInv`, `RowsInv` (a row keeps the wait it was given, and its identifier is
neither settled nor shared), `KnownInv` and `RecordInv` are shown step by step, one step per
instruction. `WindowInv` is what the everyday limit needs: the buckets hold no less than what was
released in the hours they carry, delayed payments included, so that what passed the limit passed
it with everything of the day counted. It was first checked by TLC on the states of `hold_pay`.

**The rolling day.** Two invariants, because one bounds the buckets from below and one from
above. `DayInv`: the bucket of an hour of the last day carries that hour or a later one, and
holds at least what was paid in it, unless it saturated. `AgeInv`: a bucket holds no more than
what was paid in the hour it carries. The two meet the totals of the properties in `TotalSplit`
and in the fact that the hours that can be in one day have different slots (`HoursOfADay`,
`SameSlotSameHour` of `CommonProofs`).

**Trade rules.** The pool is where a proof says more than a run: the program quotes an exchange
before it calls it, and the exchange rounds by its own rules. `CurveGivesTheQuote` shows for any
reserves and any input that the exchange, which keeps the least whole number that holds the
product, gives at least the quote rounded down and takes at most the input. So what cleared the
floor on the quote clears it on what moved (`SwapClearsTheFloor`), and `settle_trade` fails for
three reasons only, none of them the program's: the agent asked for more, the output account is
gone, or the clock went back. This assumes that a pool is emptied of both its sides or of neither
(`TradeInputs`). `FloorFromSpotIsFair` is about the phone: the floor is the percentage that was
typed of the rate that was read, reduced by their greatest common divisor, or rounded down where
the fraction leaves u64.
`TradeInv` ties the account, its delegation and the rule together, and says of the buckets what
the program relies on when the clock goes back (`BucketsHold`): a bucket is that of the latest
hour of its slot that had a trade. Then the buckets in the window of any earlier clock still count
every trade of the day that ends at the latest second traded at (`DayIsCounted`), which makes the
daily limit hold of that day after every trade. TLC checked `TradeInv` on the three stories first.

**Agents.** `AgentsUseTheProgram` comes first: a transaction of a command, an override granted
from a row of the record and what the owner does are steps of `Mandate`, so everything proved of
mandates holds under any commands. For the overrides this needs that the rows of a ledger and the
overrides on a rule carry only amounts and nonces somebody asked for (`ChainInv`). `AgentInv`
then says of each command, wherever it stands: what it is about to send is what it was asked for
(`AsksAsItShould`), it knows the fate of its transaction only after the answer (`KnowsItsFate`),
the payment it heard of is still among those of its rule (`PaymentStands`), and what it read of an
override is what the guard decided on (`GuardHolds`). A rule that a command holds may be closed
and opened again in between; `RulesStay` says what survives that.

**The watcher.** `JournalInv` adds to the rows being true what makes them stay so. What a pass has
read of the chain was so, and the chain only grows (`ReadsWereSo`). A transaction with the id the
pass waits for charges its slot (`IdsAreKnown`). A pass works from the journal that lasts and only
on slots without a row (`WorksOnOpenSlots`). And `SendsAreCounted`: the transactions of a slot,
landed or not, are at most those nobody heard of, and one more once a row that lasts closes the
slot. The sends are counted and not only the charges, as one may land at any later time. TLC
checked it on `chargers` first, with and without a stored object.

**The owner's phone.** `OwnerInv` is about taps that die between any two steps. Each tap keeps the
rule and the operation it began with. The keys that were made are numbered up to the current one,
which is in the map of agents unless a tap is about to write it there (`KeysInv`), so that every
key a rule names was made and can be read. What the accounts of the rules, the purse and the payees
hold adds up to what there was, and a rule that is closed holds nothing (`MoneyInv`). While a
transaction is unheard of new taps are held, and a refresh that may lift the hold began after that
transaction was sent (`HeldInv`): the epoch a refresh started in decides, and an older one that
ends late lifts nothing.

**The Hold screens.** `HoldPhoneInv` ties the screens to a vault that an SDK with the same key moves
underneath. Every identifier on a screen, in a press or in a transaction was given out before
(`IdsPart`), and the vault gives none twice, so a row that went never comes back. A transaction
carries the number of the press that sent it, and only the newest press waits (`NumberPart`); what
landed for it did what its button said (`LandedPart`). And a draft stays as it was while the finger
is down or a transaction underway (`DraftPart`).

**Forms.** What is opened was captured when the finger went down, so `ApprovalInv` says what a card
can hold then: amounts within the ceilings of the request, a text left in a field that is either
the amount or an error that stops the hold, an answer of the presign check that is about the payee
it was asked of, and parties of a renewal that are those of the old rule.

**Notices.** `NewsInv` follows a decision from the ring to what is stored. The identifiers on the
rings and in a scan are of one rule each; what a scan has not read of a ring is newer than anything
announced or stored (`IdsInv`); and what was announced is stored, or is with the scan that announced
it and has yet to store that rule, or a failure is on record (`StoredInv`). So the next scan finds
nothing twice. The quiet note is about one day at a time. `QuietInv` says of a day without one of the
recorded exceptions that at most one of the scan and the settings screen is carrying out a plan, and
that the settings that are stored, or will be when it is done, account for the note that was shown
and for the alarm that is set (`Settled`). A plan made from such settings is one that can be carried
out (`PlanIsReady`): it shows a note only when none was shown and no alarm is due, it replaces the
alarm when it sets another, and what it stores will account for what it did. TLC checked both on
2,212,654 states of one rule, two days, three edits and a failure before they were proved.

**Alerts.** A reader takes the vault and its record at two moments, so `AlertsInv` starts from what
lasts: a withdrawal keeps its times and ends once (`Follows`), what an entry of the record says of it
stays so, the wait only gets shorter, and what waits was held no earlier than any recovery
(`VaultInv`). Hence the time the watcher takes a withdrawal to have been held is never too early
(`CreatedNotEarly`), and a recovery at or after it either cleared the withdrawal or fell in the very
second it was held, the case the property names. What was told is in the journal, or in the seen
list, or is held by the scan about to write it there. The reminders set are on the list of the scan
underway; the owner's half takes back only keys of its own, so the other vault's stay.
`AlertsAreTrueAlways` has two temporal hypotheses. `[]EndsStayOnRecord`: an end of a withdrawal the
watcher saw waiting does not roll off the 32 entries of the record between the two reads of one
scan; otherwise the end could be taken for a recovery that came after it. `[]SeenHoldsAll`: the guardian's phone
has not told more alerts than the 500 it remembers; past that the oldest would be told again. The
chain writes at most four entries in a story of the run and the list takes three, so both hold
there: TLC checked `AlertsInv` and the two hypotheses on its 695,287 states before the proof.

**The home screen.** A widget job lists the rules and then reads their ledgers one by one, while
payments, closures and other jobs go on. `WidgetsInv` orders its reads: a ledger is written in the
order of time; the count a job found is of a moment between the time on its label and now; the last
row it read covers what it counted, since it read the ledger after the account; a rule it did not
find was off the chain then and is so for good. Of the bindings, one change is underway at a time
and works on what is stored, unless two have overlapped (`crossed`). TLC checked it on 225,254
states before it was proved.

**Absence.** Of any accounts that take turns, however many refreshes overlap, fail and are tried
again, a first rule is offered only after a listing of the account that is connected came back
empty, or after an empty listing of another account came in late, which the code writes for
whoever is connected by then. `ReadsInv` says the same of every refresh that is underway: whom it
began for, and that an empty result is one of a listing of that account.

**Agent records.** `RecordsInv` says what a history is: the newest rows that its ring held of the
rule's ledger at some moment of the load (`WasRead`), where a ledger is in order and a payment above
the limit follows the permission of its nonce. Of two readings of a rule, when no row left the ring
between them and no payment of the rule's own came, the later counts no more payments inside, no
fewer requests outside and no fewer permissions (`CountsTurnWorse`); `BandsRise` carries this to the
grade. A load that still counts began with what the phone shows of the rules now, so what ends later
is never of an earlier reading.

`TruthInv` adds time: a ledger is in order of time and nothing in it is later than now, an account
counts the payments of its ledger (`PaidTotal`), and what a history says of the account is the
account as it was listed, no later than the rows beside it were read (`IsFactsOf`). So a card never
says more was spent than its rows come to, what a rule called finished would answer is known from
then on, and rows up to a date that has passed are all the rows there will be up to it. Where every
row was read, those shown are the first of the ledger, up to declines (`WholeReading`), and first of
their kind in number is first in time (`FirstByTime`): this gives the plaques. A time falls into one
week by division (`WeekOfADay`), so each request is in one review; and the reasons and the card are
sums over the same rows, split in two ways (`ReasonsAddUp`). The clock is
assumed to begin no earlier than 1, when the rules were opened.

**Sums.** `CommonProofs` has what all of them use: rows of a ring decoded before and after a
write, and sums over finite sets. The sums are the community modules' `MapThenSumSet`. Adding,
removing and comparing are proved without induction over data, by taking a smallest set that
would be a counterexample under the well-founded order of strict subsets; the greatest member of
a finite set of naturals is found in the same way.

**Only model-checked.** Liveness (`ChargersEnd`, `SigningEnds`, `NewsArrives`) and `ENABLED` are
beyond this prover. So is what recursive definitions compute for every input: the decimals of
`Money` and the days of `Calendar`, and with them `TerminalTellsTheTruth`. `VerdictsAreRight` and
`LinksAreReadAlike` have not been proved: they are checked by TLC alone.

## 5. Plan

The chain was first, as everything else depends on it; then what charges, then the phone, then
records. Modules, runs and the proofs about the chain are in place. What is left, in order:

1. `VerdictsAreRight` and `LinksAreReadAlike` as theorems, without the induction over data;
2. a model of the index service, whose webhook and backfill write the same transactions.

## 6. Not modelled

The index service (see the plan), the web site, load tests and deployment. Within the parts that
are modelled: byte layouts, discriminators, program derived addresses and rent, signatures and
keys as cryptography, forks of the chain (a read is of what is final), HTTP, layout and wording,
the timestamps inside ledger entries, the text of a purpose, and currencies other than by their
decimals. Also left out are refreshes of `useChain` that overlap in `AgentRecords` (they do in
`OwnerApp` and `RuleReads`) and its retries after a rate limit there, and a chain clock that steps
back under the phone's screens and notices: there it only advances, as their readers compare it
with nothing they stored but what the theorems name.

## 7. Running

From this directory:

```
tlc -workers 2 -config MCHoldPay.cfg MCHoldVault
tlc -workers 2 -config MCLimitsAndRecords.cfg MCLimitsAndRecords
tlapm MandateProofs.tla
```

`PROJECT.json` names the module and the configuration of each run. The longest takes about three
minutes; the proofs take about a quarter of an hour in all.
