---------------------------- MODULE HoldPreview ----------------------------
(***************************************************************************)
(* What the phone (app/lib/holdRead.ts) and the SDK (sdk/src/hold.ts) say  *)
(* will become of a withdrawal, computed from the accounts they read, next *)
(* to what the program does with it (HoldVault).                           *)
(***************************************************************************)
EXTENDS HoldVault

\* decodeHoldVault: the rows of the array whose status is WITHDRAWAL_PENDING, and the first
\* knownLen known destinations, of the account as it is now.
ReadAccount == [vault EXCEPT !.pending = {row \in @ : row.id # 0}]

\* shareCap of holdRead.ts
AppShareCap(amount, bps) ==
    (amount \div HOLD_BPS_DENOMINATOR) * bps
        + ((amount % HOLD_BPS_DENOMINATOR) * bps) \div HOLD_BPS_DENOMINATOR

\* The buckets of the last day and the amount asked for.
DailyNext(account, amount) ==
    LET hour == now \div BUCKET_SECS
        recent == {s \in BucketSlots : account.daily_buckets[s].hour >= hour - WINDOW_HOURS}
    IN amount + MapThenSumSet(LAMBDA s : account.daily_buckets[s].amount, recent)

\* Mutant: the preview forgets that delayed payments count.
MutReasons(account, destination, amount) ==
    {r \in {"frozen", "new_address", "over_daily_limit", "over_share"} :
        \/ r = "frozen" /\ account.frozen
        \/ r = "new_address" /\ destination \notin account.known
        \/ r = "over_daily_limit" /\ amount > account.rules.daily_limit
        \/ r = "over_share" /\ amount > AppShareCap(balance, account.rules.big_share_bps)}

\* The rules that keep a withdrawal from being paid at once.
Reasons(account, destination, amount) ==
    LET daily == DailyNext(account, amount) IN
    {r \in {"frozen", "new_address", "over_daily_limit", "over_share"} :
        \/ r = "frozen" /\ account.frozen
        \/ r = "new_address" /\ destination \notin account.known
        \/ r = "over_daily_limit" /\ (daily > U64_MAX \/ daily > account.rules.daily_limit)
        \/ r = "over_share" /\ daily > AppShareCap(balance, account.rules.big_share_bps)}

Outlook(outcome, reason, unlock) == [outcome |-> outcome, reason |-> reason, unlock |-> unlock]

\* holdWithdrawalOutlook
HoldWithdrawalOutlook(account, destination, amount) ==
    CASE amount > balance -> Outlook("refused", "INSUFFICIENT_FUNDS", 0)
      [] amount <= balance /\ Reasons(account, destination, amount) = {} ->
            Outlook("at_once", "NONE", 0)
      [] OTHER ->
            IF Cardinality(account.pending) >= HOLD_PENDING_CAPACITY
            THEN Outlook("refused", "PENDING_FULL", 0)
            ELSE Outlook("held", "NONE", now + account.rules.delay_secs)

\* What the program made of a withdrawal, as the record and the rows tell it after the step.
Outcome(e) ==
    CASE e.kind = "PAID" -> Outlook("at_once", "NONE", 0)
      [] e.kind = "REFUSED" -> Outlook("refused", e.reason, 0)
      [] e.kind = "HELD" ->
            Outlook("held", "NONE", (CHOOSE row \in vault'.pending : row.id = e.id).unlock_at)

\* Whatever was paid, held, frozen, stopped or recovered before, a withdrawal ends the way the
\* phone and the SDK say it would when they read the accounts just before it: at once, held
\* until the same second, or refused for the same reason (withdraw, can_pay_now).
PreviewIsWhatHappens ==
    [][LET e == Newest(ledger') IN
        ledger' # ledger /\ e.kind \in {"PAID", "HELD", "REFUSED"}
                /\ e.id \in {0, vault.next_withdrawal_id} =>
            HoldWithdrawalOutlook(ReadAccount, e.destination, e.amount) = Outcome(e)]_vars

=============================================================================
