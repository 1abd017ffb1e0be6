---------------------------- MODULE RollingWindow ----------------------------
(***************************************************************************)
(* programs/veto/src/rolling_window.rs: what was paid in the last day,     *)
(* kept as one bucket per hour in a ring of WINDOW_HOURS + 1 buckets. Hold *)
(* vaults write it with record_release, which never fails; trade rules     *)
(* with commit, which refuses rather than lose an amount.                  *)
(***************************************************************************)
EXTENDS FiniteSetsExt, Integers

CONSTANTS
    BUCKET_SECS,    \* length of a bucket (one hour)
    WINDOW_HOURS,   \* buckets in a window (24)
    U64_MAX         \* where amounts saturate or overflow

ASSUME WindowAssumption ==
    /\ BUCKET_SECS \in Nat \ {0}
    /\ WINDOW_HOURS \in Nat \ {0}
    /\ U64_MAX \in Nat

BUCKET_COUNT == WINDOW_HOURS + 1

WINDOW_SECS == WINDOW_HOURS * BUCKET_SECS

BucketSlots == 0 .. BUCKET_COUNT - 1

\* TradeBucket
Buckets == [BucketSlots -> [hour : Int, amount : 0 .. U64_MAX]]

NoBuckets == [s \in BucketSlots |-> [hour |-> 0, amount |-> 0]]

Hour(t) == t \div BUCKET_SECS

SlotOf(t) == Hour(t) % BUCKET_COUNT

\* Mutant: the oldest hour is left out.
MutDropOldestHour(buckets, t) ==
    MapThenSumSet(LAMBDA s : buckets[s].amount,
                  {s \in BucketSlots : buckets[s].hour > Hour(t) - WINDOW_HOURS})

\* spent, as a number; the code returns None when the sum leaves u64.
Spent(buckets, t) ==
    MapThenSumSet(LAMBDA s : buckets[s].amount,
                  {s \in BucketSlots : buckets[s].hour >= Hour(t) - WINDOW_HOURS})

\* Mutant: the sum is not saturated.
MutPlainAdd(a, b) == a + b

\* A saturating sum.
SatAdd(a, b) == IF a + b <= U64_MAX THEN a + b ELSE U64_MAX

\* Whether record_release starts the bucket afresh.
ReleaseResets(bucket, hour) == bucket.amount = 0 \/ bucket.hour < hour - WINDOW_HOURS

\* record_release
RecordRelease(buckets, amount, t) ==
    LET old == buckets[SlotOf(t)]
        base == IF ReleaseResets(old, Hour(t)) THEN [hour |-> Hour(t), amount |-> 0] ELSE old
    IN [buckets EXCEPT ![SlotOf(t)] = [base EXCEPT !.amount = SatAdd(@, amount)]]

\* commit gives None: another hour still in the window, or ahead of the clock, holds the
\* slot, or the amount leaves u64.
CanCommit(buckets, amount, t) ==
    LET old == buckets[SlotOf(t)] IN
    IF old.hour = Hour(t) THEN old.amount + amount <= U64_MAX
    ELSE /\ old.amount = 0 \/ old.hour < Hour(t) - WINDOW_HOURS
         /\ amount <= U64_MAX

\* commit
Commit(buckets, amount, t) ==
    LET old == buckets[SlotOf(t)]
        held == IF old.hour = Hour(t) THEN old.amount ELSE 0
    IN [buckets EXCEPT ![SlotOf(t)] = [hour |-> Hour(t), amount |-> held + amount]]

=============================================================================
