-------------------------- MODULE DecisionRecords --------------------------
(***************************************************************************)
(* A decision record outside the chain: tools/export.ts writes one, or a   *)
(* bundle of them, from the transactions of a mandate (tools/lib.ts and    *)
(* indexer/src read them), and tools/verify.ts checks the file against the *)
(* chain again and ends with a verdict.  The mandate may have been closed  *)
(* and opened again at the same address in the meantime, its ring may have *)
(* wrapped, the node may answer with holes, and the file is any file.      *)
(***************************************************************************)
EXTENDS Integers, SequencesExt

CONSTANTS
    Triples,        \* mandate, nonce and amount of a charge, as the nonce's number
    RuleTerms,          \* limits a mandate may be opened with
    RingSize,       \* LEDGER_CAPACITY
    Bounds          \* sets of bounds, one of which a behaviour keeps to: transactions at the
                    \* address, triples charged, forms of file, all that is out of the ordinary

Forms == {"single", "rule", "range", "program"}

ASSUME RecordsAssumption ==
    /\ Triples \subseteq Nat \ {0} /\ RuleTerms \subseteq Nat \ {0}
    /\ RingSize \in Nat \ {0}
    /\ Bounds \subseteq [txs : Nat, triples : SUBSET Triples, forms : SUBSET Forms, oddities : Nat]

VARIABLES
    chain,     \* the transactions that name the mandate, oldest first; their index is the signature
    account,   \* the mandate and its ledger, or NoAccount
    held,      \* whether the merchant still holds the token account it was paid to
    file,      \* the exported file, or NoFile
    genuine,   \* whether the file is as exported and the chain has not moved since
    hole,      \* what the node leaves out
    read,      \* what the verifier has read
    verdict,   \* NoVerdict, 0 CONFIRMED, 1 REJECTED, 3 not checked
    odd,       \* oddities so far
    bound      \* the bounds of this behaviour

recordVars == <<chain, account, held, file, genuine, hole, read, verdict, odd, bound>>

Nothing == 0
NoVerdict == -1

-----------------------------------------------------------------------------
(* The chain                                                               *)

\* One instruction of the program.
OpenIx(t) == [op |-> "open", terms |-> t, triple |-> Nothing, kind |-> "none", to |-> "none"]
CloseIx == [OpenIx(Nothing) EXCEPT !.op = "close"]
ChargeIx(k, kind) ==
    [op |-> "charge", terms |-> Nothing, triple |-> k, kind |-> kind, to |-> "merchant"]
Astray(ix) == [ix EXCEPT !.to = "stranger"]

NoAccount == [terms |-> Nothing, paid |-> 0, refused |-> 0, last |-> 0, ring |-> <<>>]
Opened(t) == [NoAccount EXCEPT !.terms = t]

\* The newest RingSize rows.
Recent(rows) == SubSeq(rows, IF Len(rows) > RingSize THEN Len(rows) - RingSize + 1 ELSE 1, Len(rows))

\* charge records its decision; only a payment moves last_nonce.
Decided(a, ix, ts) ==
    [a EXCEPT !.ring = Recent(Append(@, [triple |-> ix.triple, kind |-> ix.kind, ts |-> ts])),
              !.paid = @ + IF ix.kind = "paid" THEN 1 ELSE 0,
              !.refused = @ + IF ix.kind = "refused" THEN 1 ELSE 0,
              !.last = IF ix.kind = "paid" THEN ix.triple ELSE @]

Possible(a, ix) == ix.kind = "refused" \/ ix.triple > a.last

LastSlot == IF chain = <<>> THEN 0 ELSE chain[Len(chain)].slot

\* Blocks are three seconds apart: farther than SAME_CHARGE_CLOCK_SKEW_S.
TimeOf(slot) == 3 * slot

\* The merchant closes its token account or gives it away.  That moves a chain that a file
\* was made of, like any transaction.
AccountGivenAway ==
    /\ verdict = NoVerdict /\ held /\ odd < bound.oddities
    /\ held' = FALSE /\ genuine' = FALSE /\ odd' = odd + 1
    /\ UNCHANGED <<chain, account, file, hole, read, verdict, bound>>

\* A transaction lands, in a slot of its own or, oddly, in the last one.  The block time of a
\* slot is the clock its instructions saw or, oddly, a second later.  It moves a chain that a
\* file was made of.
LandTx(ixs, next, oddity) ==
    /\ verdict = NoVerdict /\ Len(chain) < bound.txs
    /\ \E same, drift \in {0, 1} :
        LET slot == LastSlot + 1 - same
            time == IF same = 1 THEN chain[Len(chain)].time ELSE TimeOf(slot) + drift
            race == IF file.form = "none" THEN 0 ELSE 1
            cost == odd + oddity + same + drift + race
        IN  /\ cost <= bound.oddities /\ slot > 0 /\ same + drift < 2
            /\ odd' = cost
            /\ chain' = Append(chain, [ixs |-> ixs, slot |-> slot, time |-> time,
                                       under |-> account.terms])
            /\ account' = next[TimeOf(slot)]
            /\ genuine' = (genuine /\ race = 0)
    /\ UNCHANGED <<held, file, hole, read, verdict, bound>>

TxTimes == {TimeOf(s) : s \in 0..bound.txs}

LandOpen == \E t \in RuleTerms :
    account.terms = Nothing /\ LandTx(<<OpenIx(t)>>, [ts \in TxTimes |-> Opened(t)], 0)

LandClose == account.terms # Nothing /\ LandTx(<<CloseIx>>, [ts \in TxTimes |-> NoAccount], 0)

LandReopen == \E t \in RuleTerms :
    account.terms # Nothing /\ LandTx(<<CloseIx, OpenIx(t)>>, [ts \in TxTimes |-> Opened(t)], 1)

LandCharge == \E k \in bound.triples, kind \in {"paid", "refused"} :
    /\ account.terms # Nothing /\ Possible(account, ChargeIx(k, kind))
    /\ LandTx(<<ChargeIx(k, kind)>>, [ts \in TxTimes |-> Decided(account, ChargeIx(k, kind), ts)], 0)

\* A charge to an account that is not the merchant's is refused.
LandMisdirected == \E k \in bound.triples :
    LET ix == Astray(ChargeIx(k, "refused"))
    IN  /\ account.terms # Nothing
        /\ LandTx(<<ix>>, [ts \in TxTimes |-> Decided(account, ix, ts)], 1)

\* Two charges in one transaction.
LandTwo == \E k, l \in bound.triples, kind, other \in {"paid", "refused"} :
    LET first == ChargeIx(k, kind)
        second == ChargeIx(l, other)
        after(ts) == Decided(account, first, ts)
    IN  /\ account.terms # Nothing /\ Possible(account, first) /\ Possible(after(0), second)
        /\ LandTx(<<first, second>>, [ts \in TxTimes |-> Decided(after(ts), second, ts)], 1)

-----------------------------------------------------------------------------
(* What a node answers, and how it is decoded                              *)

\* What may be missing: the body of a transaction, its logs, their end with or without the
\* first text line, its block time, an inner instruction that cannot be read, or a signature
\* of the listing.
NoHole == [what |-> "none", sig |-> Nothing]
Holes(n) == [what : {"body", "logs", "cut", "text", "time", "inner", "listing"}, sig : 1..n]

Has(h, what, sig) == h.what = what /\ h.sig = sig

\* A block time that is not known is null.
NoTime == -1
BlockTime(h, sig) == IF Has(h, "time", sig) THEN NoTime ELSE chain[sig].time

\* parseChargeFromTx
ChargesIn(sig) == SelectSeq(chain[sig].ixs, LAMBDA ix : ix.op = "charge")

\* mandateLifecycle
OpensIn(sig) == Len(SelectSeq(chain[sig].ixs, LAMBDA ix : ix.op = "open"))
ClosesIn(sig) == Len(SelectSeq(chain[sig].ixs, LAMBDA ix : ix.op = "close"))
MarksTenure(sig) == OpensIn(sig) + ClosesIn(sig) > 0
TermsOpenedIn(sig) ==
    LET ixs == chain[sig].ixs IN ixs[CHOOSE i \in DOMAIN ixs : ixs[i].op = "open"].terms

Truncated(h, sig) == Has(h, "cut", sig) \/ Has(h, "text", sig)

\* linesForProgram and decodeEventsFromLogs: the events of the program's own frames.
EventsIn(h, sig) == IF Has(h, "logs", sig) \/ Truncated(h, sig) THEN <<>> ELSE ChargesIn(sig)

\* chargeLogDecisions: the text lines, which name neither mandate nor nonce.
TextsIn(h, sig) ==
    IF Has(h, "text", sig) /\ ChargesIn(sig) # <<>> THEN SubSeq(ChargesIn(sig), 1, 1)
    ELSE EventsIn(h, sig)

\* bindByTriple
BindByTriple(items, triple) == SelectSeq(items, LAMBDA item : item.triple = triple)

\* boundVetoDecision: exactly one event of the triple, else an error, or "none" without events.
BoundDecision(h, sig, triple) ==
    LET matches == BindByTriple(EventsIn(h, sig), triple)
    IN  IF EventsIn(h, sig) = <<>> THEN "none"
        ELSE IF Len(matches) # 1 THEN "error"
        ELSE matches[1].kind

Distance(row, time) == IF row.ts >= time THEN row.ts - time ELSE time - row.ts

\* ringEntryForSignature: the row nearest to the block time; a tie binds only rows that
\* agree, and without a block time only a single row binds.
Nearest(rows, time) ==
    LET least == Min({Distance(rows[i], time) : i \in DOMAIN rows})
        tied == SelectSeq(rows, LAMBDA row : Distance(row, time) = least)
    IN  IF time = NoTime THEN [row |-> rows[1], error |-> Len(rows) > 1]
        ELSE IF \E i \in DOMAIN tied : tied[i] # tied[1] THEN [row |-> tied[1], error |-> TRUE]
        ELSE [row |-> tied[1], error |-> FALSE]

\* ringRowForLogKind: a nearer row of the other kind is a different charge.
RowForKind(rows, time, kind) ==
    LET picked == Nearest(rows, time)
        same == SelectSeq(rows, LAMBDA row : row.kind = kind)
    IN  IF picked.error \/ picked.row.kind = kind \/ same = <<>> THEN picked
        ELSE Nearest(same, time)

-----------------------------------------------------------------------------
(* Which opening covered a signature                                       *)

\* listMandateSignatures: the first n signatures, as listed.
Listed(h, n) == {sig \in 1..n : ~Has(h, "listing", sig)}

\* mustReadMandateTenure, newest page first down to the record: does one open or close it.
MustReadTenure(h, pages, sig) ==
    LET above == {p \in pages : p >= sig /\ chain[p].slot >= chain[sig].slot}
        telling == {p \in above : Has(h, "body", p) \/ Has(h, "inner", p) \/ MarksTenure(p)}
    IN  IF telling = {} THEN "no"
        ELSE IF Has(h, "body", Max(telling)) THEN "gap"
        ELSE "yes"

\* The last page before p that opens or closes, or None.
MarkBefore(pages, p) == Max({Nothing} \union {m \in pages : m < p /\ MarksTenure(m)})
OpenAt(p) == p # Nothing /\ OpensIn(p) = 1

\* closedMandateHistory, oldest page first: a missing body is a gap; a page that cannot be
\* read, or that does not take its turn in open, close, open, makes the history ambiguous.
OutOfTurn(pages, p) ==
    \/ OpensIn(p) + ClosesIn(p) > 1
    \/ OpensIn(p) = 1 /\ OpenAt(MarkBefore(pages, p))
    \/ ClosesIn(p) = 1 /\ ~OpenAt(MarkBefore(pages, p))

WalkHistory(h, pages) ==
    LET trouble == {p \in pages : Has(h, "body", p) \/ Has(h, "inner", p) \/ OutOfTurn(pages, p)}
    IN  IF trouble = {} THEN "whole"
        ELSE IF Has(h, "body", Min(trouble)) THEN "gap"
        ELSE "failed"

\* The opening that was still open when the page was reached, or None.
CoveredBy(pages, p) == IF OpenAt(MarkBefore(pages, p)) THEN MarkBefore(pages, p) ELSE Nothing

LiveLimits(a) == [ok |-> "ok", terms |-> a.terms, fromOpening |-> FALSE, superseded |-> FALSE]
OpeningLimits(p, superseded) ==
    [ok |-> "ok", terms |-> TermsOpenedIn(p), fromOpening |-> TRUE, superseded |-> superseded]
NoLimits(why) == [ok |-> why, terms |-> Nothing, fromOpening |-> FALSE, superseded |-> FALSE]

\* decideRecordTenure after the walk: of a live account the pages are known to list the
\* signature, and a walk covers only what it lists.
TenureFromWalk(a, h, pages, sig) ==
    LET live == a.terms # Nothing
        opens == {p \in pages : OpenAt(p)}
        belowLatest == \E p \in opens : chain[sig].slot < chain[p].slot
        covered == IF sig \in pages THEN CoveredBy(pages, sig) ELSE Nothing
        current == MarkBefore(pages, Len(chain) + 1)
    IN  IF WalkHistory(h, pages) # "whole" THEN NoLimits(WalkHistory(h, pages))
        ELSE IF live /\ Cardinality(opens) < 2 /\ ~belowLatest THEN LiveLimits(a)
        ELSE IF covered = Nothing THEN NoLimits("failed")
        ELSE IF live /\ covered = current THEN LiveLimits(a)
        ELSE OpeningLimits(covered, live)

\* The live account stands in for the listing.
MutDecideTenure(a, h, pages, sig) ==
    IF a.terms = Nothing THEN TenureFromWalk(a, h, pages, sig) ELSE LiveLimits(a)

\* decideRecordTenure
DecideTenure(a, h, pages, sig) ==
    IF a.terms = Nothing THEN TenureFromWalk(a, h, pages, sig)
    ELSE IF sig \notin pages THEN NoLimits("failed")
    ELSE CASE MustReadTenure(h, pages, sig) = "gap" -> NoLimits("gap")
           [] MustReadTenure(h, pages, sig) = "no" -> LiveLimits(a)
           [] OTHER -> TenureFromWalk(a, h, pages, sig)

-----------------------------------------------------------------------------
(* The indexer: decisions of the transactions in a window of block times   *)

Everything == [from |-> Nothing, to |-> Nothing]
InWindow(time, w) == (w.from = Nothing \/ time >= w.from) /\ (w.to = Nothing \/ time <= w.to)

\* listProgramSignatures and fetchTransactions: what has no block time is read as well.
Fetched(h, n, w) ==
    {sig \in Listed(h, n) : Has(h, "time", sig) \/ InWindow(chain[sig].time, w)}

\* nullLogBodyInvokesProgram: every transaction listed here invokes the program.
LogBodyMissing(h, sig) == Has(h, "logs", sig)

\* ListedTransactionMissingError, ListedLogBodyMissingError
Unread(h, n, w) == \E sig \in Fetched(h, n, w) : Has(h, "body", sig) \/ LogBodyMissing(h, sig)

\* decisionsFromTx: the events, or without any the first charge with its text line.
DecisionsIn(h, sig) ==
    IF EventsIn(h, sig) # <<>> THEN EventsIn(h, sig) ELSE TextsIn(h, sig)

\* fetchDecisionHistory and filterIndexed: the transactions of the window that decided
\* something.
Population(h, n, w) ==
    {sig \in Fetched(h, n, w) :
        DecisionsIn(h, sig) # <<>> /\ (w = Everything \/ ~Has(h, "time", sig))}

-----------------------------------------------------------------------------
(* tools/export.ts                                                         *)

RecordOf(sig, triple, kind, ts, terms) ==
    [sig |-> sig, triple |-> triple, kind |-> kind, ts |-> ts, terms |-> terms]
NoRecord == RecordOf(Nothing, Nothing, "none", 0, Nothing)

NoFile == [form |-> "none", window |-> Everything, rows |-> <<>>]

\* A record of a transaction without a block time has the time zero.
WrittenTime(h, sig) == IF Has(h, "time", sig) THEN 0 ELSE chain[sig].time

\* The entry of a single record: from the log when the ring is another tenure's, from the
\* first text line when the ring has no row of the triple, else from the ring.
EntryOf(h, sig, triple, fromOpening) ==
    LET matches == BindByTriple(account.ring, triple)
        logged == BoundDecision(h, sig, triple)
        row == RowForKind(matches, BlockTime(h, sig), logged)
        nothing == [kind |-> "none", ts |-> 0]
    IN  IF fromOpening
        THEN IF logged \in {"none", "error"} THEN nothing ELSE [kind |-> logged, ts |-> WrittenTime(h, sig)]
        ELSE IF matches = <<>>
        THEN IF TextsIn(h, sig) = <<>> THEN nothing
             ELSE [kind |-> TextsIn(h, sig)[1].kind, ts |-> WrittenTime(h, sig)]
        ELSE IF logged = "error" \/ row.error THEN nothing
        ELSE [kind |-> row.row.kind, ts |-> row.row.ts]

\* recordFromSignature, or NoRecord where it throws.
RecordFromSignature(h, sig, triple) ==
    LET tenure == DecideTenure(account, h, Listed(h, Len(chain)), sig)
        entry == EntryOf(h, sig, triple, tenure.fromOpening)
    IN  IF \/ Has(h, "body", sig) \/ Len(BindByTriple(ChargesIn(sig), triple)) # 1
           \/ tenure.ok # "ok" \/ entry.kind = "none"
        THEN NoRecord
        ELSE RecordOf(sig, triple, entry.kind, entry.ts, tenure.terms)

\* matchingRingEntry, in overlayRing: the time of the ring's row of this kind, else the block's.
OverlaidTime(h, d, sig, fromOpening) ==
    LET hits == SelectSeq(account.ring, LAMBDA row : row.triple = d.triple /\ row.kind = d.kind)
        picked == Nearest(hits, BlockTime(h, sig))
    IN  IF fromOpening \/ hits = <<>> \/ picked.error THEN WrittenTime(h, sig) ELSE picked.row.ts

\* recordsFromIndexedDecisions for one transaction.
RecordsOf(h, sig) ==
    LET tenure == DecideTenure(account, h, Listed(h, Len(chain)), sig)
        record(d) == RecordOf(sig, d.triple, d.kind, OverlaidTime(h, d, sig, tenure.fromOpening),
                            tenure.terms)
        found == DecisionsIn(h, sig)
    IN  [i \in DOMAIN found |-> record(found[i])]

\* recordsFromIndexer reads the whole history and filters it, by time and perhaps by kind.
Exported(h, w, kinds) ==
    LET wanted(sig) == SelectSeq(RecordsOf(h, sig), LAMBDA r : r.kind \in kinds)
        sigs == SelectSeq([i \in 1..Len(chain) |-> i], LAMBDA sig : sig \in Population(h, Len(chain), w))
    IN  FlattenSeq([i \in DOMAIN sigs |-> wanted(sigs[i])])

ExportThrows(h, w) ==
    \/ Unread(h, Len(chain), Everything)
    \/ \E sig \in Population(h, Len(chain), w) :
        DecideTenure(account, h, Listed(h, Len(chain)), sig).ok # "ok"

\* The node of the export may have a hole, and the one of the verification another.
Write(f, h, oddity) ==
    LET cost == odd + oddity + IF h = NoHole THEN 0 ELSE 1
    IN  /\ cost <= bound.oddities
        /\ file' = f /\ genuine' = (cost = odd) /\ odd' = cost
        /\ UNCHANGED <<chain, account, held, hole, read, verdict, bound>>

HolesNow == {NoHole} \union IF odd < bound.oddities THEN Holes(Len(chain)) ELSE {}

\* --signature, as JSON; as CSV it is a bundle with the scope of the rule.
ExportOne(form) ==
    file = NoFile /\ form \in bound.forms /\ \E sig \in 1..Len(chain), triple \in Triples, h \in HolesNow :
        LET r == RecordFromSignature(h, sig, triple)
        IN  /\ r # NoRecord
            /\ Write([form |-> form, window |-> Everything, rows |-> <<r>>], h,
                     IF form = "rule" THEN 1 ELSE 0)

\* --mandate, and --from or --to for a range, of the mandate or of the whole program.
Windows ==
    LET times == {chain[sig].time : sig \in 1..Len(chain)}
    IN  [from : times, to : {Nothing}] \union [from : {Nothing}, to : times]

ExportBundle(form, w) ==
    file = NoFile /\ form \in bound.forms /\ \E kinds \in {{"paid"}, {"paid", "refused"}}, h \in HolesNow :
        /\ ~ExportThrows(h, w)
        /\ Write([form |-> form, window |-> w, rows |-> Exported(h, w, kinds)], h,
                 2 - Cardinality(kinds))

\* A file may have been changed since, into one that parseRecord and parseBundle still read:
\* a row dropped, repeated or taken from elsewhere, or one of its fields.
Changed(r) ==
    {[r EXCEPT !.kind = IF @ = "paid" THEN "refused" ELSE "paid"]}
    \union {[r EXCEPT !.triple = k] : k \in Triples}
    \union {[r EXCEPT !.terms = t] : t \in RuleTerms}
    \union {[r EXCEPT !.ts = chain[sig].time] : sig \in 1..Len(chain)}
    \union {[r EXCEPT !.sig = sig] : sig \in 1..Len(chain)}

Edits(rows) ==
    {RemoveAt(rows, i) : i \in DOMAIN rows}
    \union {Append(rows, rows[i]) : i \in DOMAIN rows}
    \union {ReplaceAt(rows, i, RecordFromSignature(NoHole, sig, k)) :
                i \in DOMAIN rows, sig \in 1..Len(chain), k \in Triples}
    \union UNION {{ReplaceAt(rows, i, r) : r \in Changed(rows[i])} : i \in DOMAIN rows}

Edit ==
    /\ file # NoFile /\ read.step = "none" /\ odd < bound.oddities
    /\ \E rows \in Edits(file.rows) \ {file.rows} :
        /\ \A i \in DOMAIN rows : rows[i] # NoRecord
        /\ file.form = "single" => Len(rows) = 1
        /\ file' = [file EXCEPT !.rows = rows]
    /\ genuine' = FALSE /\ odd' = odd + 1
    /\ UNCHANGED <<chain, account, held, hole, read, verdict, bound>>

-----------------------------------------------------------------------------
(* tools/verify.ts, one record                                             *)

SAME_CHARGE_CLOCK_SKEW_S == 2

\* A ring row is evidence for this record: the one picked has its fields, and landed when the
\* transaction did, if the node knows when that was; the log names one decision, of the same
\* kind.
RowConfirms(r, rows, logged) ==
    LET time == BlockTime(hole, r.sig)
        picked == RowForKind(rows, time, logged)
    IN  /\ ~picked.error
        /\ r.ts = picked.row.ts /\ r.kind = picked.row.kind /\ r.triple = picked.row.triple
        /\ time = NoTime \/ Distance(picked.row, time) <= SAME_CHARGE_CLOCK_SKEW_S
        /\ logged = r.kind

\* The ring has no row of this decision any more: the log has to name it, and the time is
\* compared if the node knows it.
LogConfirms(r, logged) ==
    logged = r.kind /\ BlockTime(hole, r.sig) \in {NoTime, r.ts}

\* tokenAccountOwner: the account that was charged to is the merchant's, now.
DestinationIsMerchants(charge) == charge.to = "merchant" /\ held

\* checkRecord after the instruction is bound: "ok", "failed" or "gap".
CheckAgainst(r, charge, limits) ==
    LET rows == IF limits.superseded THEN <<>> ELSE BindByTriple(read.ledger.ring, charge.triple)
        logged == BoundDecision(hole, r.sig, charge.triple)
        rolledOff == /\ logged \notin {"none", "error"} /\ rows # <<>>
                     /\ \A i \in DOMAIN rows : rows[i].kind # logged
    IN  IF limits.ok # "ok" THEN limits.ok
        ELSE IF read.ledger.terms = Nothing /\ ~limits.fromOpening THEN "failed"
        ELSE IF /\ r.triple = charge.triple /\ r.terms = limits.terms
                /\ DestinationIsMerchants(charge)
                /\ IF rows = <<>> \/ rolledOff THEN LogConfirms(r, logged)
                   ELSE RowConfirms(r, rows, logged)
        THEN "ok"
        ELSE "failed"

\* checkRecord
CheckRecord(r) ==
    LET charges == ChargesIn(r.sig)
        matched == BindByTriple(charges, r.triple)
        charge == IF matched = <<>> THEN charges[1] ELSE matched[1]
    IN  IF \/ Has(hole, "body", r.sig) \/ charges = <<>>
           \/ Len(matched) # 1 /\ Len(charges) # 1
        THEN "failed"
        ELSE CheckAgainst(r, charge, DecideTenure(read.account, hole, Listed(hole, read.listed), r.sig))

-----------------------------------------------------------------------------
(* tools/verify.ts, a bundle                                               *)

RowsWith(P(_)) == Cardinality({i \in DOMAIN file.rows : P(file.rows[i])})

\* bundleFailures: a signature that appears more than once.
Repeated == \E i, j \in DOMAIN file.rows : i # j /\ file.rows[i].sig = file.rows[j].sig

\* ledgerRowFailures: a row of the ring in scope is in the file as often as on the ring.
SameEntry(r, row) == r.triple = row.triple /\ r.kind = row.kind /\ r.ts = row.ts
LedgerRowsMissing ==
    LET ring == read.ledger.ring
    IN  \E i \in DOMAIN ring :
            /\ InWindow(ring[i].ts, file.window)
            /\ RowsWith(LAMBDA r : SameEntry(r, ring[i]))
                 # Cardinality({j \in DOMAIN ring : ring[j] = ring[i]})

\* rulePopulationFailures
RuleFails ==
    \/ read.account.terms = Nothing \/ read.ledger.terms = Nothing
    \/ LedgerRowsMissing
    \/ RowsWith(LAMBDA r : r.kind = "paid") # read.account.paid
    \/ RowsWith(LAMBDA r : r.kind = "refused") # read.account.refused

InScope == {i \in DOMAIN file.rows : InWindow(file.rows[i].ts, file.window)}

\* A scope that names the mandate reads its account first; then the history of the window,
\* in which a missing body is a gap.
RangeGap ==
    /\ file.form = "range" => read.account.terms # Nothing
    /\ Unread(hole, read.upto, file.window)

\* truncatedForScope: a log that ends with "Log truncated", of a transaction that names it.
TruncatedInScope == \E sig \in Fetched(hole, read.upto, file.window) : Truncated(hole, sig)

\* undecodableChargeFailures: a charge that left no decision the indexer could attribute.
UndecodableCharge ==
    \E sig \in Fetched(hole, read.upto, file.window) \ Population(hole, read.upto, file.window) :
        ChargesIn(sig) # <<>>

\* dateRangePopulationFailures
RangeFails ==
    \/ file.form = "range" /\ (read.account.terms = Nothing \/ read.ledger.terms = Nothing)
    \/ InScope # DOMAIN file.rows
    \/ {file.rows[i].sig : i \in InScope} # Population(hole, read.upto, file.window)
    \/ file.form = "range" /\ LedgerRowsMissing
    \/ TruncatedInScope
    \/ UndecodableCharge

\* assessBundle: gaps of the population first, then the first row that cannot be checked.
AssessBundle ==
    LET rows == {CheckRecord(file.rows[i]) : i \in DOMAIN file.rows}
        fails == Repeated \/ IF file.form = "rule" THEN RuleFails ELSE RangeFails
    IN  IF (file.form # "rule" /\ RangeGap) \/ "gap" \in rows THEN 3
        ELSE IF fails \/ "failed" \in rows THEN 1
        ELSE 0

\* assessRecord
AssessRecord == CASE CheckRecord(file.rows[1]) = "gap" -> 3
                  [] CheckRecord(file.rows[1]) = "failed" -> 1
                  [] OTHER -> 0

\* The reads, in the order of the code; the chain may move between them.
ReadOrder ==
    CASE file.form = "single" -> <<"start", "account", "listing", "ledger">>
      [] file.form = "rule" -> <<"start", "account", "ledger", "listing">>
      [] file.form = "range" -> <<"start", "account", "history", "ledger", "listing">>
      [] OTHER -> <<"start", "history", "account", "listing", "ledger">>

NextRead == LET i == CHOOSE i \in DOMAIN ReadOrder : ReadOrder[i] = read.step
            IN  IF i = Len(ReadOrder) THEN "done" ELSE ReadOrder[i + 1]

NoRead == [step |-> "none", account |-> NoAccount, ledger |-> NoAccount, upto |-> 0, listed |-> 0,
           since |-> 0]

\* main: a file, a node with or without a hole.
StartVerify ==
    /\ file # NoFile /\ read.step = "none"
    /\ hole' \in HolesNow
    /\ odd' = odd + IF hole' = NoHole THEN 0 ELSE 1
    /\ read' = [read EXCEPT !.step = "start"]
    /\ UNCHANGED <<chain, account, held, file, genuine, verdict, bound>>

\* fetchMandate, fetchLedger, fetchDecisionHistory, listMandateSignatures
Read ==
    /\ read.step \notin {"none", "done"} /\ verdict = NoVerdict
    /\ read' = CASE NextRead = "account" -> [read EXCEPT !.step = NextRead, !.account = account,
                                                         !.since = Len(chain)]
                 [] NextRead = "ledger" -> [read EXCEPT !.step = NextRead, !.ledger = account]
                 [] NextRead = "history" -> [read EXCEPT !.step = NextRead, !.upto = Len(chain)]
                 [] NextRead = "listing" -> [read EXCEPT !.step = NextRead, !.listed = Len(chain)]
                 [] OTHER -> [read EXCEPT !.step = "done"]
    /\ verdict' = IF NextRead # "done" THEN verdict
                  ELSE IF file.form = "single" THEN AssessRecord ELSE AssessBundle
    /\ UNCHANGED <<chain, account, held, file, genuine, hole, odd, bound>>

\* A call fails after its retries, on every endpoint: not a verdict.
ReadFails ==
    /\ read.step \notin {"none", "done"} /\ verdict = NoVerdict /\ odd < bound.oddities
    /\ verdict' = 3 /\ odd' = odd + 1
    /\ UNCHANGED <<chain, account, held, file, genuine, hole, read, bound>>

-----------------------------------------------------------------------------
(* The specification                                                       *)

RecordsInit ==
    /\ chain = <<>> /\ account = NoAccount /\ held = TRUE
    /\ file = NoFile /\ genuine = FALSE /\ hole = NoHole
    /\ read = NoRead /\ verdict = NoVerdict /\ odd = 0
    /\ bound \in Bounds

RecordsNext ==
    \/ LandOpen \/ LandClose \/ LandReopen \/ LandCharge \/ LandMisdirected \/ LandTwo
    \/ AccountGivenAway
    \/ ExportOne("single") \/ ExportOne("rule") \/ ExportBundle("rule", Everything)
    \/ \E w \in Windows : ExportBundle("range", w) \/ ExportBundle("program", w)
    \/ Edit \/ StartVerify \/ Read \/ ReadFails

RecordsSpec == RecordsInit /\ [][RecordsNext]_recordVars

-----------------------------------------------------------------------------
(* What a reader of the verdict may rely on                                *)

RowIsTrue(r) ==
    /\ r.terms = chain[r.sig].under
    /\ \E j \in DOMAIN ChargesIn(r.sig) :
        ChargesIn(r.sig)[j].triple = r.triple /\ ChargesIn(r.sig)[j].kind = r.kind
    /\ \/ Distance(r, chain[r.sig].time) <= SAME_CHARGE_CLOCK_SKEW_S
       \/ Has(hole, "time", r.sig)

\* A confirmed row states a decision that its transaction made, with the limits of the
\* opening it was made under, whatever the chain did between the reads; of a node whose
\* listing is complete.  Its time is that of the transaction, unless the node does not know
\* it: then nothing compares it (checkRecord with a null block time).
ConfirmedIsTrue ==
    verdict = 0 /\ hole.what # "listing" => \A i \in DOMAIN file.rows : RowIsTrue(file.rows[i])

\* A confirmed range has every decision of its window, each once; a confirmed rule that was
\* opened once has every decision it had made when its account was read.
RowsFor(sig) == RowsWith(LAMBDA r : r.sig = sig)
ConfirmedIsComplete ==
    verdict = 0 =>
        \A sig \in 1..Len(chain) :
            \/ hole.what = "listing" /\ hole.sig = sig
            \/ RowsFor(sig) = Len(ChargesIn(sig))
            \/ file.form = "single"
            \/ file.form = "rule" /\ (sig > read.since \/ \E p \in 2..read.since : OpensIn(p) > 0)
            \/ /\ file.form \in {"range", "program"}
               /\ sig > read.upto \/ ~InWindow(chain[sig].time, file.window)

\* One charge in each transaction, no triple decided twice, and the clock of every block.
Plain ==
    /\ \A sig \in 1..Len(chain) : Len(ChargesIn(sig)) < 2 /\ chain[sig].time = TimeOf(chain[sig].slot)
    /\ \A p, q \in 1..Len(chain) : p # q /\ ChargesIn(p) # <<>> /\ ChargesIn(q) # <<>>
           => ChargesIn(p)[1].triple # ChargesIn(q)[1].triple

\* Every charge of the file went to a token account that the merchant still holds.
Directed ==
    held /\ \A i \in DOMAIN file.rows : \A j \in DOMAIN ChargesIn(file.rows[i].sig) :
        ChargesIn(file.rows[i].sig)[j].to = "merchant"

\* The verdict of a file that is as exported, on a plain history of charges to the merchant,
\* is not a rejection: a body or a log that the node cannot give for a range is no verdict.
\* A rule, and a range that names its mandate, need the account open, and a rule its first
\* opening.
GenuineIsNotRejected ==
    /\ genuine /\ Plain /\ Directed /\ read.step = "done"
    /\ file.form \in {"rule", "range"} => account.terms # Nothing
    /\ file.form = "rule" => \A p \in 2..Len(chain) : OpensIn(p) = 0
    /\ hole = NoHole \/ (file.form \in {"range", "program"} /\ hole.what \in {"body", "logs"})
    => verdict # 1

\* What the docs say: a genuine record is confirmed (DECISION_RECORD.md), here on a plain
\* history, read without a hole, while the merchant holds its account.
GenuineIsConfirmed ==
    /\ genuine /\ Plain /\ held /\ hole = NoHole
    /\ file.form = "single" /\ read.step = "done"
    => verdict = 0

=============================================================================
