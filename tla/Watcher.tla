------------------------------ MODULE Watcher ------------------------------
(***************************************************************************)
(* The watcher: one charge per cadence slot, through passes that read the  *)
(* chain, ask the price feed, send a transaction, wait for its answer and  *)
(* write a row of the journal.  A row that settles a slot is never         *)
(* reconsidered.  The journal is a local file that a pass overwrites with  *)
(* the stored object before it starts and uploads after every slot.        *)
(*                                                                         *)
(* Every remote call is a step of its own: between two of them the clock   *)
(* moves, earlier transactions land or expire, and the process may die.    *)
(* SlotNonces are numbered in time order and stand for their nonces.            *)
(***************************************************************************)
EXTENDS Naturals, Sequences, FiniteSets, FiniteSetsExt

CONSTANTS
    MaxSlot,          \* slots 1 .. MaxSlot come due one after the other
    SlotsPerDay,      \* CADENCE_HOURS
    RingCapacity,  \* decisions the on-chain ring holds
    PriceWindows,          \* what the price sources may say of a slot
    Remote,           \* VETO_JOURNAL_GCS is set
    MaxSends,         \* bound: transactions sent in a behaviour
    MaxFaults         \* bound: faults of the network, the store, the sources and the process

Outages == {"missing", "mismatch", "unreadable", "fx"}
Unpriced == {"negative", "zero"}

ASSUME WatcherAssumption ==
    /\ {MaxSlot, SlotsPerDay, RingCapacity, MaxSends, MaxFaults} \subseteq Nat
    /\ MaxSlot > 0 /\ SlotsPerDay > 0 /\ RingCapacity > 0
    /\ PriceWindows \subseteq Outages \union Unpriced \union {"price"}
    /\ Remote \in BOOLEAN

VARIABLES
    clock,       \* slots that have come due so far
    log,         \* the mandate's charges in the order they landed
    flight,      \* transactions sent and neither landed nor expired
    local,       \* the rows of the journal file
    store,       \* the rows of the stored object; none until the first upload
    job,         \* the running pass and the slot it is at
    sent,        \* transactions sent so far
    unanswered,  \* history: for each slot, the sends whose outcome is in no journal that lasts
    faults       \* faults so far

watcherVars == <<clock, log, flight, local, store, job, sent, unanswered, faults>>
chainVars == <<log, flight, sent>>

SlotNonces == 1 .. MaxSlot
Terminal == {"paid", "refused", "skipped"}

\* How the watcher came to know what a row says.
Sources == {"answer", "ring", "history", "lastNonce", "submit", "repair", "feed", "rpc"}
JournalRows == [nonce : SlotNonces, decision : Terminal \union {"gap"}, source : Sources]
Charges == [id : 1 .. MaxSends, nonce : SlotNonces, decision : {"paid", "refused"}, stale : BOOLEAN]

NoPass == [pc |-> "idle", due |-> {}, slot |-> 0, window |-> "price", settled |-> 0, seen |-> 0, tx |-> 0]

PCs == {"idle", "ring", "walk", "upload", "next", "feed", "settled", "close", "recorded",
        "price", "submit", "send", "confirm", "answer", "reread", "persist"}

\* The journal, the store and the running pass hold what their types say.
WatcherTypeOK ==
    /\ clock \in 0 .. MaxSlot
    /\ log \in Seq(Charges)
    /\ flight \subseteq [id : 1 .. MaxSends, nonce : SlotNonces]
    /\ local \subseteq JournalRows
    /\ store \subseteq JournalRows
    /\ job \in [pc : PCs, due : SUBSET SlotNonces, slot : 0 .. MaxSlot, window : PriceWindows \union {"price"},
                settled : 0 .. MaxSlot, seen : Nat, tx : 0 .. MaxSends]
    /\ sent \in 0 .. MaxSends
    /\ unanswered \in [SlotNonces -> Nat]
    /\ faults \in 0 .. MaxFaults

WatcherInit ==
    /\ clock = 1
    /\ log = <<>> /\ flight = {} /\ sent = 0
    /\ local = {} /\ store = {}
    /\ job = NoPass
    /\ unanswered = [s \in SlotNonces |-> 0]
    /\ faults = 0

-----------------------------------------------------------------------------
(* The chain as the watcher reads it                                       *)

PaidNonces(charges) == {charges[i].nonce : i \in {j \in DOMAIN charges : charges[j].decision = "paid"}}

\* last_nonce of the mandate: readLastNonceFromAccount
LastNonce == Max({0} \union PaidNonces(log))

Chain == INSTANCE Settlement WITH last <- LastNonce, settled <- PaidNonces(log)

\* The charges the ring still holds after the first n landed.
RingOf(n) == SubSeq(log, IF n > RingCapacity THEN n - RingCapacity + 1 ELSE 1, n)

\* findPaidInLedgerBytes
PaidInRing(nonce) == nonce \in PaidNonces(RingOf(Len(log)))

\* findRefusedInLedgerBytes
RefusedInRing(nonce) ==
    \E i \in DOMAIN RingOf(Len(log)) :
        RingOf(Len(log))[i].nonce = nonce /\ RingOf(Len(log))[i].decision = "refused"

\* findPaidInHistory over the transactions that could be fetched. A stale resubmission of
\* the nonce is passed over, so the order of the walk does not matter.
PaidInHistory(nonce, readable) ==
    \E i \in readable : log[i].nonce = nonce /\ log[i].decision = "paid"

\* recoverFromConnection: the ring, then the history.
Recovered(nonce, readable) == PaidInRing(nonce) \/ PaidInHistory(nonce, readable)

\* The transactions a walk can fetch: all of them, or all but one when a fetch fails.
Readable == {DOMAIN log} \union {DOMAIN log \ {i} : i \in DOMAIN log}
FaultsOfWalk(readable) == IF readable = DOMAIN log THEN 0 ELSE 1

-----------------------------------------------------------------------------
(* The journal                                                             *)

\* Mutant: a row of any kind settles its slot.
MutAnyRow(rows, nonce) == \E row \in rows : row.nonce = nonce

\* JsonlJournal.hasNonce: gaps do not settle a slot.
HasNonce(rows, nonce) == \E row \in rows : row.nonce = nonce /\ row.decision \in Terminal

Row(nonce, decision, source) == [nonce |-> nonce, decision |-> decision, source |-> source]

\* JsonlJournal.append followed by the end of processWindow: what is left of the slot is
\* the upload.
Decide(decision, source) ==
    /\ local' = local \union {Row(job.slot, decision, source)}
    /\ job' = [job EXCEPT !.pc = "persist"]
    /\ UNCHANGED store

\* hasGap keeps an outage to one row of its kind; a gap leaves the slot due.
Gap(source) == Decide("gap", source)

Fault == faults < MaxFaults /\ faults' = faults + 1
NoFault == UNCHANGED faults
FaultIf(n) == faults + n <= MaxFaults /\ faults' = faults + n

PassTo(pc) == job' = [job EXCEPT !.pc = pc]
NoRow == UNCHANGED <<local, store>>

\* deferRateLimit: any remote read of processWindow that stays rate limited after the
\* failover list was tried (makeFailoverFetch) leaves one gap row and the slot due. Any
\* other error is retried in place by withRpcBackoff: a read is made again, which is a
\* stutter, and a charge is submitted again (ConfirmCharge, ReadAnswer).
RateLimited ==
    /\ job.pc \in {"settled", "close", "recorded", "submit", "answer", "reread"}
    /\ Fault
    /\ Gap("rpc")
    /\ UNCHANGED <<clock, chainVars, unanswered>>

-----------------------------------------------------------------------------
(* A pass: withJournalAndFeed, then processDue                             *)

Day(slot) == (slot - 1) \div SlotsPerDay

\* dueSlots: the slots of today that have passed. Yesterday's are not looked at again.
DueSlots(t) == {s \in SlotNonces : s <= t /\ Day(s) = Day(t)}

\* hydrateLocalJournal: the stored object replaces the file; without one the file stays.
Hydrated == IF Remote /\ store # {} THEN store ELSE local

\* loadConfig, storeFromGsUri, hydrateLocalJournal and the test for missing slots. A
\* download that fails ends the pass.
StartPass ==
    /\ job.pc = "idle"
    /\ local' = Hydrated
    /\ job' = [NoPass EXCEPT !.due = DueSlots(clock),
                           !.pc = IF \A s \in DueSlots(clock) : HasNonce(Hydrated, s) THEN "next" ELSE "ring"]
    /\ NoFault
    /\ UNCHANGED <<clock, chainVars, store, unanswered>>

\* fetchChainDecisions: the ring is read once. A rate limit here is swallowed and the pass
\* goes on with the journal as it is.
ReadRing ==
    /\ job.pc = "ring"
    /\ \/ job' = [job EXCEPT !.pc = "walk", !.seen = Len(log)] /\ NoFault
       \/ PassTo("next") /\ Fault
    /\ NoRow
    /\ UNCHANGED <<clock, chainVars, unanswered>>

\* mergeChainDecisions: what the newest charge of each nonce decided, a charge that was
\* walked before one that only the ring shows.
Newest(nonce, within) ==
    LET hits == {i \in within : log[i].nonce = nonce}
    IN IF hits = {} THEN {} ELSE {log[Max(hits)].decision}

RingSpan(n) == {i \in 1 .. n : i + RingCapacity > n}

Merged(nonce, ring, walked) ==
    IF Newest(nonce, walked) # {} THEN Newest(nonce, walked) ELSE Newest(nonce, ring)

\* decisionsFromMandateHistory: newest first, the whole history when the journal holds
\* nothing of the ring, else until every missing nonce was met.
Walked(ring, readable) ==
    LET nonces == {log[i].nonce : i \in ring}
        missing == {n \in nonces : ~ HasNonce(local, n)}
        met(n) == {i \in readable : log[i].nonce = n}
        stop == IF \E n \in missing : met(n) = {} THEN 1 ELSE Min({Max(met(n)) : n \in missing})
    IN IF missing = {} THEN {}
       ELSE IF missing = nonces THEN readable
       ELSE {i \in readable : i >= stop}

\* The walk and repairJournalFromChain: a row for every decided nonce the journal lacks.
Repair ==
    /\ job.pc = "walk"
    /\ \E readable \in Readable :
        LET ring == RingSpan(job.seen)
            rows == {Row(n, d, "repair") : n \in {m \in SlotNonces : ~ HasNonce(local, m)}, d \in Terminal}
            found == {row \in rows : row.decision \in Merged(row.nonce, ring, Walked(ring, readable))}
        IN /\ FaultIf(FaultsOfWalk(readable))
           /\ local' = local \union found
           /\ PassTo(IF found # {} /\ Remote THEN "upload" ELSE "next")
    /\ UNCHANGED <<clock, chainVars, store, unanswered>>

\* persistRecordedDecision after a repair and after every slot. An upload that fails
\* throws, and the pass ends.
Upload(after) ==
    \/ store' = (IF Remote THEN local ELSE store) /\ PassTo(after) /\ NoFault
    \/ Remote /\ UNCHANGED store /\ job' = NoPass /\ Fault

PersistRepair ==
    /\ job.pc = "upload"
    /\ Upload("next")
    /\ UNCHANGED <<clock, chainVars, local, unanswered>>

PersistSlot ==
    /\ job.pc = "persist"
    /\ Upload("next")
    /\ LET heard == job'.pc = "next" /\ job.tx # 0
                    /\ \E row \in local : row.nonce = job.slot /\ row.decision # "gap"
       IN unanswered' = [unanswered EXCEPT ![job.slot] = IF heard THEN @ - 1 ELSE @]
    /\ UNCHANGED <<clock, chainVars, local>>

\* processDue: the due slots in order, those with a row passed over. The last one is
\* followed by scanHolds, which leaves this state alone.
NextSlot ==
    /\ job.pc = "next"
    /\ LET left == {s \in job.due : s > job.slot /\ ~ HasNonce(local, s)}
       IN job' = IF left = {} THEN NoPass ELSE [job EXCEPT !.pc = "feed", !.slot = Min(left), !.tx = 0]
    /\ NoFault /\ NoRow
    /\ UNCHANGED <<clock, chainVars, unanswered>>

-----------------------------------------------------------------------------
(* processWindow                                                           *)

\* feed.getWindow, its five attempts taken together, and the currency fixing.
ReadFeed ==
    /\ job.pc = "feed"
    /\ \E w \in PriceWindows :
        /\ job' = [job EXCEPT !.pc = "settled", !.window = w]
        /\ IF w \in Outages THEN Fault ELSE NoFault
    /\ NoRow
    /\ UNCHANGED <<clock, chainVars, unanswered>>

\* readSettled before the charge: a slot at or below last_nonce is closed, not charged.
ReadSettled ==
    /\ job.pc = "settled"
    /\ job' = [job EXCEPT !.settled = LastNonce, !.pc = IF job.slot <= LastNonce THEN "close" ELSE "recorded"]
    /\ NoFault /\ NoRow
    /\ UNCHANGED <<clock, chainVars, unanswered>>

\* Mutant: a stale refusal counts as paid without asking the chain again.
MutCloseAsPaid ==
    /\ job.pc = "close"
    /\ Decide("paid", "history")
    /\ NoFault
    /\ UNCHANGED <<clock, chainVars, unanswered>>

\* closeAlreadySettled: paid when the payment is found, overtaken when a later slot was
\* paid, paid without a signature when this very nonce is the last, and otherwise a gap.
CloseAlreadySettled ==
    /\ job.pc = "close"
    /\ \E readable \in Readable :
        /\ FaultIf(FaultsOfWalk(readable))
        /\ \/ Recovered(job.slot, readable) /\ Decide("paid", "history")
           \/ ~ Recovered(job.slot, readable) /\ job.slot < job.settled /\ Decide("skipped", "lastNonce")
           \/ ~ Recovered(job.slot, readable) /\ job.slot = job.settled /\ Decide("paid", "lastNonce")
           \/ ~ Recovered(job.slot, readable) /\ job.slot > job.settled /\ Gap("lastNonce")
    /\ UNCHANGED <<clock, chainVars, unanswered>>

\* recordedFromLedgerBytes: a refusal does not move last_nonce, so the ring is read too.
RecordedOnRing ==
    \/ PaidInRing(job.slot) /\ Decide("paid", "ring")
    \/ ~ PaidInRing(job.slot) /\ RefusedInRing(job.slot) /\ Decide("refused", "ring")
    \/ ~ PaidInRing(job.slot) /\ ~ RefusedInRing(job.slot) /\ PassTo("price") /\ NoRow

ReadRecorded ==
    /\ job.pc = "recorded"
    /\ RecordedOnRing
    /\ NoFault
    /\ UNCHANGED <<clock, chainVars, unanswered>>

\* What the price makes of the slot: an outage leaves it due, a price below or at zero
\* settles it without a charge.
PriceSlot ==
    /\ job.pc = "price"
    /\ \/ job.window \in Outages /\ Gap("feed")
       \/ job.window \in Unpriced /\ Decide("skipped", "feed")
       \/ job.window = "price" /\ PassTo("submit") /\ NoRow
    /\ NoFault
    /\ UNCHANGED <<clock, chainVars, unanswered>>

\* submitCharge reads last_nonce once more; a slot it now covers is reported paid.
SubmitCharge ==
    /\ job.pc = "submit"
    /\ \E readable \in Readable :
        /\ FaultIf(FaultsOfWalk(readable))
        /\ \/ job.slot > LastNonce /\ readable = DOMAIN log /\ PassTo("send") /\ NoRow
           \/ job.slot <= LastNonce /\ Recovered(job.slot, readable) /\ Decide("paid", "history")
           \/ job.slot <= LastNonce /\ ~ Recovered(job.slot, readable) /\ Decide("paid", "submit")
    /\ UNCHANGED <<clock, chainVars, unanswered>>

\* sendAndConfirm: the transaction leaves; its nonce is fixed, its decision is not.
Send ==
    /\ job.pc = "send"
    /\ sent < MaxSends
    /\ sent' = sent + 1
    /\ flight' = flight \union {[id |-> sent + 1, nonce |-> job.slot]}
    /\ unanswered' = [unanswered EXCEPT ![job.slot] = @ + 1]
    /\ job' = [job EXCEPT !.pc = "confirm", !.tx = sent + 1]
    /\ NoFault /\ NoRow
    /\ UNCHANGED <<clock, log>>

Landed(id) == {i \in DOMAIN log : log[i].id = id}

\* confirmSignature answers when the signature is confirmed. A status poll that failed and
\* no notification within the grace period throw, whether or not the transaction lands: a
\* rate limit defers the slot, and after any other error withRpcBackoff calls submitCharge
\* again in place.
ConfirmCharge ==
    /\ job.pc = "confirm"
    /\ \/ Landed(job.tx) # {} /\ PassTo("answer") /\ NoFault /\ NoRow
       \/ Gap("rpc") /\ Fault
       \/ PassTo("submit") /\ NoRow /\ Fault
    /\ UNCHANGED <<clock, chainVars, unanswered>>

\* getTransaction and parseChargeLogs. Logs that are not there yet are an error that
\* withRpcBackoff answers by calling submitCharge again.
ReadAnswer ==
    /\ job.pc = "answer"
    /\ \/ /\ \E i \in Landed(job.tx) :
              IF log[i].stale THEN PassTo("reread") /\ NoRow ELSE Decide(log[i].decision, "answer")
          /\ NoFault
       \/ PassTo("submit") /\ NoRow /\ Fault
    /\ UNCHANGED <<clock, chainVars, unanswered>>

\* A stale nonce was refused: last_nonce is read again before the slot is closed.
ReadSettledAgain ==
    /\ job.pc = "reread"
    /\ job' = [job EXCEPT !.settled = LastNonce, !.pc = "close"]
    /\ NoFault /\ NoRow
    /\ UNCHANGED <<clock, chainVars, unanswered>>

-----------------------------------------------------------------------------
(* The world around it                                                     *)

TimePasses ==
    /\ clock < MaxSlot
    /\ clock' = clock + 1
    /\ UNCHANGED <<chainVars, local, store, job, unanswered, faults>>

\* The program decides a charge that reaches it: the rules of the mandate may pay or
\* refuse a nonce above last_nonce, and one at or below it is refused, as stale or for a
\* rule that is looked at first.
ChargeLands ==
    \E tx \in flight, decision \in {"paid", "refused"}, stale \in BOOLEAN :
        /\ log' = Append(log, [id |-> tx.id, nonce |-> tx.nonce, decision |-> decision, stale |-> stale])
        /\ IF decision = "paid" THEN Chain!Settle(tx.nonce) ELSE UNCHANGED LastNonce
        /\ stale => decision = "refused" /\ tx.nonce <= LastNonce
        /\ flight' = flight \ {tx}
        /\ UNCHANGED <<clock, local, store, job, sent, unanswered, faults>>

\* A transaction whose blockhash expired never lands, and confirmSignature keeps polling.
ChargeExpires ==
    \E tx \in flight :
        /\ Fault
        /\ flight' = flight \ {tx}
        /\ UNCHANGED <<clock, log, local, store, job, sent, unanswered>>

\* The process is killed, with its file system where the file is not the only copy.
Crash ==
    /\ job.pc # "idle"
    /\ Fault
    /\ job' = NoPass
    /\ local' \in IF Remote THEN {local, {}} ELSE {local}
    /\ UNCHANGED <<clock, chainVars, store, unanswered>>

\* The task timeout of the cloud job ends a pass that waits for a transaction that can no
\* longer land.
Timeout ==
    /\ job.pc = "confirm"
    /\ Landed(job.tx) = {} /\ \A tx \in flight : tx.id # job.tx
    /\ job' = NoPass
    /\ UNCHANGED <<clock, chainVars, local, store, unanswered, faults>>

Pass ==
    \/ StartPass \/ ReadRing \/ Repair \/ PersistRepair \/ PersistSlot \/ NextSlot
    \/ ReadFeed \/ ReadSettled \/ CloseAlreadySettled \/ ReadRecorded \/ PriceSlot
    \/ SubmitCharge \/ Send \/ ConfirmCharge \/ ReadAnswer \/ ReadSettledAgain

WatcherNext == Pass \/ RateLimited \/ TimePasses \/ ChargeLands \/ ChargeExpires \/ Crash \/ Timeout

WatcherSpec == WatcherInit /\ [][WatcherNext]_watcherVars

\* The process keeps running its passes, the job's timeout fires, time goes on, and what
\* was sent lands or expires. Faults are bounded, so none of them is fair.
WatcherFairSpec == WatcherSpec /\ WF_watcherVars(Pass) /\ WF_watcherVars(Timeout) /\ WF_watcherVars(TimePasses) /\ WF_watcherVars(ChargeLands)

-----------------------------------------------------------------------------
(* Properties                                                              *)

Journals == local \union store

OnChain(nonce, decision) == \E i \in DOMAIN log : log[i].nonce = nonce /\ log[i].decision = decision

\* Whatever died, was retried or landed late, a row that settles a slot is backed by the
\* chain: a payment or a refusal read from an answer, the ring, the history or a repair
\* was decided for that very slot, an overtaken slot has a later payment, a slot closed from
\* last_nonce alone is the last one paid, and one that submit reports paid without a
\* signature is at or below a slot that was (processWindow, submitCharge,
\* repairJournalFromChain).
RowsTellTheChain ==
    \A row \in Journals :
        /\ row.source \in {"answer", "ring", "history", "repair"} /\ row.decision # "gap"
               => OnChain(row.nonce, row.decision)
        /\ row.decision = "skipped" /\ row.source = "lastNonce" => row.nonce < LastNonce
        /\ row.decision = "paid" /\ row.source = "lastNonce" => OnChain(row.nonce, "paid")
        /\ row.source = "submit" => row.decision = "paid" /\ row.nonce <= LastNonce

\* "Do not journal paid unless the chain confirms it" (the comment in processWindow): a row
\* that says paid is of a slot the chain paid. submitCharge calls a slot that last_nonce has
\* passed paid, so a payment of a later slot that lands between the watcher's two reads of
\* last_nonce makes a paid row of a slot that never was.
PaidRowsWerePaid ==
    \A row \in Journals : row.decision = "paid" => OnChain(row.nonce, "paid")

\* A slot is charged again only when the answer to an earlier charge, or the row made of
\* it, was lost: across crashes, restarts from an older journal and repairs, the charges of
\* a slot that landed are at most one more than the sends the journal knows nothing of (the reads of last_nonce and
\* of the ring before submit).
ChargedOnceUnlessUnheard ==
    \A s \in SlotNonces :
        Cardinality({i \in DOMAIN log : log[i].nonce = s}) <= unanswered[s] + 1

\* Both of what a reader of the journal relies on (processWindow, the journal store and its
\* repair, through crashes and lost answers).
JournalIsBacked == RowsTellTheChain /\ ChargedOnceUnlessUnheard

=============================================================================
