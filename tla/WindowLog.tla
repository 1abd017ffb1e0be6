------------------------------ MODULE WindowLog ------------------------------
(***************************************************************************)
(* The rolling window against what it stands for: every payment with the   *)
(* second it was made at. One window is written by a Hold vault            *)
(* (record_release) or by a trade rule (commit), on the chain's clock,     *)
(* which the code allows to step back.                                     *)
(***************************************************************************)
EXTENDS RollingWindow, Sequences

CONSTANTS
    Payouts,    \* amounts paid
    LogTime,    \* bound on the clock
    MaxPaid,    \* bound on the payments made
    MaxRewind   \* how far the clock may step back at once

ASSUME WindowLogAssumption ==
    /\ Payouts \subseteq 1 .. U64_MAX
    /\ LogTime \in Nat
    /\ MaxPaid \in Nat
    /\ MaxRewind \in Nat

Writers == {"hold", "trade"}

VARIABLES
    second,       \* the chain clock
    writer,    \* whose window it is
    buckets,   \* HoldVault.daily_buckets or TradeRule.buckets
    payments,       \* history: the payments, each with its second
    peak       \* history: the latest second seen

windowVars == <<second, writer, buckets, payments, peak>>

PaymentRows == [at : 0 .. LogTime, amount : Payouts]

\* The variables stay in their types: no bucket leaves u64 (saturating_add, checked_add).
WindowTypeOK ==
    /\ second \in 0 .. LogTime
    /\ writer \in Writers
    /\ buckets \in Buckets
    /\ payments \in Seq(PaymentRows)
    /\ peak \in second .. LogTime

WindowInit ==
    /\ second = 0
    /\ writer \in Writers
    /\ buckets = NoBuckets
    /\ payments = <<>>
    /\ peak = 0

LogPayment(amount) ==
    /\ Len(payments) < MaxPaid
    /\ payments' = Append(payments, [at |-> second, amount |-> amount])
    /\ UNCHANGED <<second, writer, peak>>

\* A released Hold payment: record_release never fails.
ReleaseHeld(amount) ==
    /\ writer = "hold"
    /\ buckets' = RecordRelease(buckets, amount, second)
    /\ LogPayment(amount)

\* A trade: the transaction fails when commit gives None.
TradeCommit(amount) ==
    /\ writer = "trade"
    /\ CanCommit(buckets, amount, second)
    /\ buckets' = Commit(buckets, amount, second)
    /\ LogPayment(amount)

WindowTick ==
    /\ second < LogTime
    /\ second' = second + 1
    /\ peak' = IF second' > peak THEN second' ELSE peak
    /\ UNCHANGED <<writer, buckets, payments>>

Rewind ==
    \E back \in 1 .. MaxRewind :
        /\ back <= second
        /\ second' = second - back
        /\ UNCHANGED <<writer, buckets, payments, peak>>

WindowNext ==
    \/ \E amount \in Payouts : ReleaseHeld(amount)
    \/ \E amount \in Payouts : TradeCommit(amount)
    \/ WindowTick
    \/ Rewind

WindowSpec == WindowInit /\ [][WindowNext]_windowVars

-----------------------------------------------------------------------------

\* What was paid from second `from` on, the seconds ahead of the clock included.
PaidOutSince(from) ==
    MapThenSumSet(LAMBDA i : payments[i].amount, {i \in DOMAIN payments : payments[i].at >= from})

\* Whether the window counts `sum`, up to the saturation of its buckets.
Counts(sum) == Spent(buckets, second) >= IF sum <= U64_MAX THEN sum ELSE U64_MAX

\* Whatever the clock does, everything paid in the day that ends at the latest second
\* seen is counted: neither the reuse of a bucket 25 hours later, nor a payment made while
\* the clock is behind, loses an amount (record_release and commit keep a live bucket).
CountsTheLastDay == Counts(PaidOutSince(peak - WINDOW_SECS + 1))

\* Payments that were made in the order of their seconds.
PaidInOrder == \A i \in DOMAIN payments : \A j \in 1 .. i : payments[j].at <= payments[i].at

\* Nothing is counted for more than the 25 hours the comment on `spent` names, so an
\* allowance always comes back. A Hold payment made on a rewound clock is the exception the
\* comment on record_release makes: it may share a later hour's bucket.
AgesOut ==
    writer = "trade" \/ PaidInOrder =>
        Spent(buckets, second) <= PaidOutSince(second - WINDOW_SECS - BUCKET_SECS + 1)

\* The buckets are the day: they count everything in it, and nothing long past it.
WindowIsTheDay == WindowTypeOK /\ CountsTheLastDay /\ AgesOut

=============================================================================
