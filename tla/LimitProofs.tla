----------------------------- MODULE LimitProofs -----------------------------
(***************************************************************************)
(* Limits, from the form in which they are typed to the memories in which  *)
(* they are kept.                                                          *)
(*                                                                         *)
(* The reader of a ledger sees the newest decisions, for any capacity, any *)
(* saturation point of the u32 total at or above it, and any decisions:    *)
(* the invariant compares what is decoded with the log, entry by entry.    *)
(* The buckets of a rolling day count what was paid in it, for any bucket  *)
(* and window length, any amounts and any rewinds of the clock: the        *)
(* invariant compares each bucket with the payments that fall into it.     *)
(*                                                                         *)
(* The forms in which an owner makes a rule are for any request,           *)
(* templates, addresses, mints and typed amounts, and any number of edits, *)
(* forms and days. What is opened was captured when the finger went down,  *)
(* so the argument is about what a card can hold at that moment: whatever  *)
(* was nudged, typed, dated or scanned, its amounts are within their       *)
(* ceilings, and text left in a field is either the amount itself or an    *)
(* error that stops the hold.                                              *)
(*                                                                         *)
(* Trade rules are for any pools, limits, floors, fees, amounts and        *)
(* rewinds of the clock: what a rule counts is what left the owner's       *)
(* account, the day and the floor are kept, and the quote the program      *)
(* checks before a swap is what the swap then gives, to the unit.          *)
(***************************************************************************)
EXTENDS LedgerLog, WindowLog, Approval, Trade, CommonProofs

-----------------------------------------------------------------------------
(* The ledger                                                              *)

LogInv ==
    /\ LogTypeOK
    /\ FilledInOrder(ring)
    /\ ring.total = IF Len(history) < U32_MAX THEN Len(history) ELSE U32_MAX
    /\ \A i \in 1 .. Occupied(ring) :
           Decode(ring)[i] = history[Len(history) - Occupied(ring) + i]

LEMMA LogInvInit == LogInit => LogInv
  <1> SUFFICES ASSUME LogInit PROVE LogInv
    OBVIOUS
  <1>1. ring \in Ring(Entries) /\ history \in Seq(Entries)
    BY EmptyRingType DEF LogInit
  <1>2. Len(history) = 0 /\ ring.total = 0 /\ ring.head = 0
    BY DEF LogInit, EmptyRing
  <1>3. 1 .. Occupied(ring) = {}
    BY <1>2, RingAssumption DEF Occupied
  <1> QED
    BY <1>1, <1>2, <1>3, RingAssumption DEF LogInv, LogTypeOK, FilledInOrder

LEMMA LogInvStep == LogInv /\ [LogNext]_logVars => LogInv'
  <1> SUFFICES ASSUME LogInv, [LogNext]_logVars PROVE LogInv'
    OBVIOUS
  <1>1. CASE UNCHANGED logVars
    BY <1>1 DEF logVars, LogInv, LogTypeOK, FilledInOrder
  <1>2. ASSUME NEW e \in Entries, WriteEntry(e) PROVE LogInv'
    <2> DEFINE n == Len(history)
               k == Occupied(ring)
    <2>1. ring \in Ring(Entries) /\ history \in Seq(Entries) /\ FilledInOrder(ring)
      BY DEF LogInv, LogTypeOK
    <2>2. /\ LEDGER_CAPACITY \in Nat \ {0} /\ U32_MAX \in Nat /\ LEDGER_CAPACITY <= U32_MAX
          /\ n \in Nat
          /\ ring.total = IF n < U32_MAX THEN n ELSE U32_MAX
      BY <2>1, RingAssumption DEF LogInv
    <2>3. /\ ring' = Record(ring, e) /\ ring' \in Ring(Entries)
          /\ ring'.total = SatInc(ring.total)
      BY <1>2, <2>1, RecordFields DEF WriteEntry
    <2>4. /\ history' \in Seq(Entries) /\ Len(history') = n + 1
          /\ history'[n + 1] = e
          /\ \A i \in 1 .. n : history'[i] = history[i]
      BY <1>2, <2>1 DEF WriteEntry
    <2>5. ring'.total = IF n + 1 < U32_MAX THEN n + 1 ELSE U32_MAX
      BY <2>2, <2>3 DEF SatInc
    <2>6. /\ k = (IF n < LEDGER_CAPACITY THEN n ELSE LEDGER_CAPACITY)
          /\ Displaced(ring) = (IF n < LEDGER_CAPACITY THEN 0 ELSE 1)
      BY <2>2 DEF Occupied, Displaced
    <2> DEFINE m == k + 1 - Displaced(ring)
    <2>7. /\ Decode(ring')[m] = e /\ Occupied(ring') = m
          /\ \A i \in 1 .. m - 1 : Decode(ring')[i] = Decode(ring)[i + Displaced(ring)]
          /\ FilledInOrder(ring')
      BY <2>1, <2>3, DecodeRecord
    <2>8. ASSUME NEW i \in 1 .. Occupied(ring')
          PROVE  Decode(ring')[i] = history'[Len(history') - Occupied(ring') + i]
      <3>1. CASE i = m
        <4>0. m \in Int
          BY <2>2, <2>6
        <4>1. n + 1 - m + m = n + 1
          <5> HIDE DEF m
          <5> QED
            BY <2>2, <4>0
        <4> QED
          BY <2>4, <2>7, <3>1, <4>1
      <3>2. CASE i # m
        <4> DEFINE j == i + Displaced(ring)
        <4>1. /\ i \in 1 .. m - 1 /\ j \in 1 .. k
              /\ n - k + j = n + 1 - m + i /\ n - k + j \in 1 .. n
          BY <2>2, <2>6, <2>7, <3>2
        <4>2. Decode(ring)[j] = history[n - k + j]
          BY <4>1 DEF LogInv
        <4> HIDE DEF j
        <4>3. Decode(ring')[i] = Decode(ring)[j]
          BY <2>7, <4>1 DEF j
        <4>4. Len(history') - Occupied(ring') + i = n - k + j
          <5> DEFINE seen == Occupied(ring')
                     long == Len(history')
          <5>1. long = n + 1 /\ seen = m
            BY <2>4, <2>7
          <5>2. n + 1 - m + i = n - k + j
            BY <4>1
          <5>3. n \in Int /\ m \in Int /\ k \in Int /\ j \in Int /\ i \in Int
            BY <2>2, <2>6, <4>1
          <5> HIDE DEF m, k, n, seen, long
          <5>4. long - seen + i = n - k + j
            BY <5>1, <5>2, <5>3
          <5> QED
            BY <5>4 DEF seen, long
        <4>5. history'[n - k + j] = history[n - k + j]
          BY <2>4, <4>1
        <4> QED
          BY <4>2, <4>3, <4>4, <4>5
      <3> QED
        BY <3>1, <3>2
    <2>9. ring'.total = IF Len(history') < U32_MAX THEN Len(history') ELSE U32_MAX
      BY <2>4, <2>5
    <2> QED
      BY <2>3, <2>4, <2>7, <2>8, <2>9 DEF LogInv, LogTypeOK
  <1> QED
    BY <1>1, <1>2 DEF LogNext

\* A reader of a ledger account sees exactly the newest LEDGER_CAPACITY decisions, oldest
\* first, through every wrap of the ring and after total has saturated (Ledger::record,
\* decodeLedgerAccount).
THEOREM ReadersSeeTheNewest == LogSpec => []ReaderSeesRecentLog
  <1>1. LogInv => ReaderSeesRecentLog
    <2> SUFFICES ASSUME LogInv PROVE Decode(ring) = LastEntries(LEDGER_CAPACITY)
      BY DEF ReaderSeesRecentLog
    <2> DEFINE C == LEDGER_CAPACITY
               n == Len(history)
    <2>1. /\ C \in Nat \ {0} /\ n \in Nat /\ C <= U32_MAX /\ U32_MAX \in Nat
          /\ history \in Seq(Entries)
      BY RingAssumption DEF LogInv, LogTypeOK
    <2>2. Occupied(ring) = IF n < C THEN n ELSE C
      BY <2>1 DEF LogInv, Occupied
    <2>3. Decode(ring) = [i \in 1 .. Occupied(ring) |-> history[n - Occupied(ring) + i]]
      <3>1. Decode(ring) = [i \in 1 .. Occupied(ring) |-> Decode(ring)[i]]
        BY DEF Decode
      <3> QED
        BY <3>1 DEF LogInv
    <2>4. CASE n <= C
      <3>1. Occupied(ring) = n /\ \A i \in 1 .. n : n - n + i = i
        BY <2>1, <2>2, <2>4
      <3>2. history = [i \in 1 .. n |-> history[i]]
        BY <2>1
      <3> QED
        BY <2>3, <2>4, <3>1, <3>2 DEF LastEntries
    <2>5. CASE n > C
      <3>1. Occupied(ring) = C
        BY <2>1, <2>2, <2>5
      <3> DEFINE s == SubSeq(history, n - C + 1, n)
      <3>2. /\ s \in Seq(Entries) /\ Len(s) = C
            /\ \A i \in 1 .. C : s[i] = history[n - C + i]
        BY <2>1, <2>5
      <3> HIDE DEF s
      <3>3. s = [i \in 1 .. C |-> history[n - C + i]]
        BY <2>1, <3>2
      <3>4. LastEntries(C) = s
        BY <2>1, <2>5 DEF LastEntries, s
      <3> QED
        BY <2>3, <3>1, <3>3, <3>4
    <2> QED
      BY <2>1, <2>4, <2>5
  <1> QED
    BY <1>1, LogInvInit, LogInvStep, PTL DEF LogSpec

-----------------------------------------------------------------------------
(* The rolling day                                                         *)

\* The amounts of the payments.
Amount == [i \in DOMAIN payments |-> payments[i].amount]

\* The payments of the last day that fall into a slot.
LastDay(s) ==
    {i \in DOMAIN payments : payments[i].at > peak - WINDOW_SECS /\ SlotOf(payments[i].at) = s}

\* The payments of the hour a bucket carries.
OfItsHour(s) ==
    {i \in DOMAIN payments :
        Hour(payments[i].at) = buckets[s].hour /\ SlotOf(payments[i].at) = s}

\* A bucket of the last day carries the hour of its payments or a later one, and holds what
\* they add up to, unless it is saturated.
DayInv ==
    /\ WindowTypeOK
    /\ \A i \in DOMAIN payments :
        /\ payments[i].at <= peak
        /\ payments[i].at > peak - WINDOW_SECS =>
            buckets[SlotOf(payments[i].at)].hour >= Hour(payments[i].at)
    /\ \A s \in BucketSlots :
        /\ buckets[s].amount = U64_MAX \/ Total(Amount, LastDay(s)) <= buckets[s].amount
        /\ buckets[s].amount # 0 => buckets[s].hour % BUCKET_COUNT = s

\* A bucket holds no more than what was paid in the hour it carries. One that a Hold vault
\* writes carries the hour of a payment.
AgeInv ==
    writer = "trade" \/ PaidInOrder =>
        \A s \in BucketSlots :
            /\ buckets[s].amount <= Total(Amount, OfItsHour(s))
            /\ writer = "hold" /\ buckets[s].amount # 0 =>
                   \E i \in DOMAIN payments : Hour(payments[i].at) = buckets[s].hour

\* What the proofs need of the types.
LEMMA WindowLogTypes ==
    ASSUME WindowTypeOK
    PROVE  /\ second \in Nat /\ peak \in Nat /\ second <= peak
           /\ Hour(second) \in Int /\ SlotOf(second) \in BucketSlots
           /\ payments \in Seq(PaymentRows) /\ IsFiniteSet(DOMAIN payments)
           /\ DOMAIN payments = 1 .. Len(payments) /\ Len(payments) \in Nat
           /\ \A i \in DOMAIN payments :
                /\ payments[i].at \in Nat /\ Hour(payments[i].at) \in Int
                /\ SlotOf(payments[i].at) \in BucketSlots
                /\ payments[i].amount \in Nat /\ payments[i].amount > 0
                /\ Amount[i] = payments[i].amount
           /\ \A s \in BucketSlots :
                /\ buckets[s].hour \in Int /\ buckets[s].amount \in 0 .. U64_MAX
                /\ buckets[s].amount \in Nat
           /\ U64_MAX \in Nat /\ WINDOW_HOURS \in Nat
  <1>1. second \in Nat /\ peak \in Nat /\ second <= peak
    BY WindowLogAssumption DEF WindowTypeOK
  <1>2. payments \in Seq(PaymentRows)
    BY DEF WindowTypeOK
  <1>3. DOMAIN payments = 1 .. Len(payments) /\ Len(payments) \in Nat
    BY <1>2
  <1>4. IsFiniteSet(DOMAIN payments)
    BY <1>3, FS_Interval
  <1>5. U64_MAX \in Nat /\ WINDOW_HOURS \in Nat
    BY WindowAssumption
  <1>6. ASSUME NEW i \in DOMAIN payments
        PROVE  payments[i].at \in Nat /\ payments[i].amount \in Nat /\ payments[i].amount > 0
    <2>1. payments[i] \in PaymentRows
      BY <1>2, <1>3
    <2>2. payments[i].at \in 0 .. LogTime /\ payments[i].amount \in Payouts
      BY <2>1 DEF PaymentRows
    <2>3. payments[i].amount \in 1 .. U64_MAX
      BY <2>2, WindowLogAssumption
    <2> QED BY <1>5, <2>2, <2>3, WindowLogAssumption
  <1>7. \A s \in BucketSlots : /\ buckets[s].hour \in Int /\ buckets[s].amount \in 0 .. U64_MAX
                               /\ buckets[s].amount \in Nat
    BY <1>5 DEF WindowTypeOK, Buckets
  <1>8. /\ Hour(second) \in Int /\ SlotOf(second) \in BucketSlots
        /\ \A i \in DOMAIN payments : /\ Hour(payments[i].at) \in Int
                                     /\ SlotOf(payments[i].at) \in BucketSlots
    BY <1>1, <1>6, BucketsFinite
  <1>9. \A i \in DOMAIN payments : Amount[i] = payments[i].amount
    BY DEF Amount
  <1> QED
    BY <1>1, <1>2, <1>3, <1>4, <1>5, <1>6, <1>7, <1>8, <1>9

\* What a sum over payments is a sum of.
LEMMA PaidOutIsTotal ==
    ASSUME WindowTypeOK, NEW from
    PROVE  PaidOutSince(from) = Total(Amount, {i \in DOMAIN payments : payments[i].at >= from})
  <1> DEFINE S == {i \in DOMAIN payments : payments[i].at >= from}
             f == [i \in S |-> payments[i].amount]
  <1>1. PaidOutSince(from) = Total(f, S)
    BY AmountsAreTotal DEF PaidOutSince
  <1>2. IsFiniteSet(S) /\ \A i \in S : f[i] = Amount[i]
    BY WindowLogTypes, FS_Subset
  <1>3. Total(f, S) = Total(Amount, S)
    <2> HIDE DEF S, f
    <2> QED BY <1>2, TotalSame
  <1> QED
    BY <1>1, <1>3

\* A bucket of the last day is in the window, also of a clock that was set back.
LEMMA LastDayIsInWindow ==
    ASSUME DayInv, NEW i \in DOMAIN payments, payments[i].at > peak - WINDOW_SECS
    PROVE  buckets[SlotOf(payments[i].at)].hour >= Hour(second) - WINDOW_HOURS
  <1>1. WindowTypeOK /\ payments[i].at <= peak
    BY DEF DayInv
  <1>2. Hour(payments[i].at) >= Hour(peak) - WINDOW_HOURS
    <2>1. payments[i].at \in Nat /\ peak \in Nat /\ WINDOW_SECS \in Int
      BY <1>1, WindowLogTypes, WindowAssumption DEF WINDOW_SECS
    <2> DEFINE t == payments[i].at
    <2>2. t \in Nat /\ t <= peak /\ t >= peak - WINDOW_SECS
      BY <1>1, <2>1
    <2> HIDE DEF t
    <2>3. Hour(t) >= Hour(peak) - WINDOW_HOURS
      BY <2>1, <2>2, HoursOfADay
    <2> QED BY <2>3 DEF t
  <1>3. Hour(second) <= Hour(peak) /\ Hour(peak) \in Int
    BY <1>1, WindowLogTypes, HoursOfADay, BucketsFinite
  <1>4. buckets[SlotOf(payments[i].at)].hour >= Hour(payments[i].at)
    BY DEF DayInv
  <1> QED
    BY <1>1, <1>2, <1>3, <1>4, WindowLogTypes

\* One more payment, and the sums over the payments.
LEMMA OneMorePaid ==
    ASSUME WindowTypeOK, NEW amount \in Payouts, NEW n, n = Len(payments) + 1,
           payments' = Append(payments, [at |-> second, amount |-> amount])
    PROVE  /\ payments' \in Seq(PaymentRows)
           /\ n \notin DOMAIN payments /\ DOMAIN payments' = DOMAIN payments \union {n}
           /\ payments'[n].at = second /\ payments'[n].amount = amount
           /\ \A i \in DOMAIN payments : i \in 1 .. n - 1 /\ payments'[i] = payments[i]
           /\ amount \in Nat /\ amount > 0 /\ amount <= U64_MAX
           /\ \A S \in SUBSET DOMAIN payments :
                /\ Total(Amount', S) = Total(Amount, S)
                /\ Total(Amount', S \union {n}) = Total(Amount, S) + amount
                /\ Total(Amount, S) \in Nat
  <1>1. /\ payments \in Seq(PaymentRows) /\ IsFiniteSet(DOMAIN payments)
        /\ DOMAIN payments = 1 .. Len(payments) /\ Len(payments) \in Nat
        /\ \A i \in DOMAIN payments : Amount[i] = payments[i].amount /\ Amount[i] \in Nat
    BY WindowLogTypes
  <1>2. [at |-> second, amount |-> amount] \in PaymentRows
    BY DEF PaymentRows, WindowTypeOK
  <1>3. /\ payments' \in Seq(PaymentRows)
        /\ n \notin DOMAIN payments /\ DOMAIN payments' = DOMAIN payments \union {n}
        /\ payments'[n] = [at |-> second, amount |-> amount]
        /\ \A i \in DOMAIN payments : i \in 1 .. n - 1 /\ payments'[i] = payments[i]
    BY <1>1, <1>2
  <1>4. amount \in 1 .. U64_MAX /\ U64_MAX \in Nat
    BY WindowLogAssumption, WindowAssumption
  <1>5. Amount'[n] = amount /\ \A i \in DOMAIN payments : Amount'[i] = Amount[i]
    BY <1>3 DEF Amount
  <1>6. ASSUME NEW S \in SUBSET DOMAIN payments
        PROVE  /\ Total(Amount', S) = Total(Amount, S)
               /\ Total(Amount', S \union {n}) = Total(Amount, S) + amount
               /\ Total(Amount, S) \in Nat
    <2> DEFINE f == Amount
               g == Amount'
    <2>1. IsFiniteSet(S) /\ n \notin S
      BY <1>1, <1>3, FS_Subset
    <2>2. \A i \in S : g[i] = f[i] /\ f[i] \in Nat /\ g[i] \in Int
      BY <1>1, <1>5
    <2>3. g[n] = amount /\ g[n] \in Int
      BY <1>4, <1>5
    <2> HIDE DEF f, g
    <2>4. Total(g, S) = Total(f, S)
      BY <2>1, <2>2, TotalSame
    <2>5. Total(f, S) \in Nat
      BY <2>1, <2>2, TotalNat
    <2>6. Total(g, S \union {n}) = Total(g, S) + g[n]
      BY <2>1, <2>2, <2>3, TotalAdd
    <2> QED BY <2>3, <2>4, <2>5, <2>6 DEF f, g
  <1>7. payments'[n].at = second /\ payments'[n].amount = amount
    BY <1>3
  <1>8. amount \in Nat /\ amount > 0 /\ amount <= U64_MAX
    BY <1>4
  <1> HIDE DEF Amount
  <1> QED
    BY <1>3, <1>6, <1>7, <1>8

\* What record_release and commit do to the bucket of the hour: it is started afresh when it
\* is empty or older than the window, and else holds more of an hour that is not over.
Paid(amount) ==
    LET z == SlotOf(second)
        old == buckets[z]
        new == buckets'[z]
    IN /\ buckets' \in Buckets
       /\ \A s \in BucketSlots : s # z => buckets'[s] = buckets[s]
       /\ \/ /\ old.amount = 0 \/ old.hour < Hour(second) - WINDOW_HOURS
             /\ new.hour = Hour(second)
             /\ new.amount = amount
          \/ /\ old.hour >= Hour(second)
             /\ old.hour >= Hour(second) - WINDOW_HOURS
             /\ (writer = "hold" /\ old.amount # 0) \/ old.hour = Hour(second)
             /\ new.hour = old.hour
             /\ new.amount = SatAdd(old.amount, amount)

\* Slots and hours.
LEMMA SlotOfHour ==
    ASSUME NEW t \in Int
    PROVE  Hour(t) % BUCKET_COUNT = SlotOf(t)
  BY DEF SlotOf

LEMMA ReleasePays ==
    ASSUME DayInv, NEW amount \in Payouts, ReleaseHeld(amount)
    PROVE  Paid(amount)
  <1> DEFINE z == SlotOf(second)
             old == buckets[z]
             h == Hour(second)
  <1>1. /\ z \in BucketSlots /\ h \in Int /\ old.hour \in Int /\ old.amount \in 0 .. U64_MAX
        /\ WINDOW_HOURS \in Nat /\ U64_MAX \in Nat /\ second \in Int
        /\ buckets \in Buckets /\ h % BUCKET_COUNT = z
    BY WindowLogTypes, SlotOfHour DEF DayInv, WindowTypeOK
  <1>2. amount \in 1 .. U64_MAX
    BY WindowLogAssumption
  <1>3. buckets' = RecordRelease(buckets, amount, second) /\ writer = "hold"
    BY DEF ReleaseHeld
  <1>4. CASE ReleaseResets(old, h)
    <2>1. SatAdd(0, amount) = amount
      BY <1>1, <1>2 DEF SatAdd
    <2> DEFINE fresh == [hour |-> h, amount |-> 0]
    <2>2. buckets' = [buckets EXCEPT ![z] = [fresh EXCEPT !.amount = SatAdd(@, amount)]]
      BY <1>3, <1>4 DEF RecordRelease
    <2>3. [fresh EXCEPT !.amount = SatAdd(@, amount)] = [hour |-> h, amount |-> amount]
      BY <2>1
    <2>4. buckets' = [buckets EXCEPT ![z] = [hour |-> h, amount |-> amount]]
      BY <2>2, <2>3
    <2> QED
      BY <1>1, <1>2, <1>4, <2>4 DEF Paid, ReleaseResets, Buckets
  <1>5. CASE ~ReleaseResets(old, h)
    <2>1. old.amount # 0 /\ old.hour >= h - WINDOW_HOURS
      BY <1>1, <1>5 DEF ReleaseResets
    <2>2. old.hour % BUCKET_COUNT = z
      BY <1>1, <2>1 DEF DayInv
    <2>3. old.hour >= h
      BY <1>1, <2>1, <2>2, SameSlotSameHour
    <2>4. buckets' = [buckets EXCEPT ![z] = [old EXCEPT !.amount = SatAdd(@, amount)]]
      BY <1>3, <1>5 DEF RecordRelease
    <2>5. SatAdd(old.amount, amount) \in 0 .. U64_MAX
      BY <1>1, <1>2 DEF SatAdd
    <2>6. old \in [hour : Int, amount : 0 .. U64_MAX]
      BY <1>1 DEF Buckets
    <2>7. /\ buckets' \in Buckets
          /\ buckets'[z] = [old EXCEPT !.amount = SatAdd(old.amount, amount)]
          /\ \A s \in BucketSlots : s # z => buckets'[s] = buckets[s]
      BY <1>1, <2>4, <2>5, <2>6 DEF Buckets
    <2> QED
      BY <1>3, <2>1, <2>3, <2>6, <2>7 DEF Paid
  <1> QED
    BY <1>4, <1>5

LEMMA CommitPays ==
    ASSUME DayInv, NEW amount \in Payouts, TradeCommit(amount)
    PROVE  Paid(amount)
  <1> DEFINE z == SlotOf(second)
             old == buckets[z]
             h == Hour(second)
  <1>1. /\ z \in BucketSlots /\ h \in Int /\ old.hour \in Int /\ old.amount \in 0 .. U64_MAX
        /\ WINDOW_HOURS \in Nat /\ U64_MAX \in Nat
        /\ buckets \in Buckets /\ old \in [hour : Int, amount : 0 .. U64_MAX]
    BY WindowLogTypes DEF DayInv, WindowTypeOK, Buckets
  <1>2. amount \in 1 .. U64_MAX
    BY WindowLogAssumption
  <1>3. buckets' = Commit(buckets, amount, second) /\ CanCommit(buckets, amount, second)
    BY DEF TradeCommit
  <1>4. CASE old.hour = h
    <2>1. old.amount + amount <= U64_MAX
      BY <1>3, <1>4 DEF CanCommit
    <2>2. SatAdd(old.amount, amount) = old.amount + amount /\ old.amount + amount \in 0 .. U64_MAX
      BY <1>1, <1>2, <2>1 DEF SatAdd
    <2>3. buckets' = [buckets EXCEPT ![z] = [hour |-> h, amount |-> old.amount + amount]]
      BY <1>3, <1>4 DEF Commit
    <2> QED
      BY <1>1, <1>4, <2>2, <2>3 DEF Paid, Buckets
  <1>5. CASE old.hour # h
    <2>1. old.amount = 0 \/ old.hour < h - WINDOW_HOURS
      BY <1>3, <1>5 DEF CanCommit
    <2>2. buckets' = [buckets EXCEPT ![z] = [hour |-> h, amount |-> 0 + amount]]
      BY <1>3, <1>5 DEF Commit
    <2> QED
      BY <1>1, <1>2, <2>1, <2>2 DEF Paid, Buckets
  <1> QED
    BY <1>4, <1>5

\* A payment keeps the day: a bucket started afresh held nothing of it.
LEMMA PaymentKeepsDay ==
    ASSUME DayInv, NEW amount \in Payouts, Paid(amount), LogPayment(amount),
           NEW z, z = SlotOf(second), NEW n, n = Len(payments) + 1
    PROVE  DayInv'
  <1> DEFINE old == buckets[z]
  <1>0. WindowTypeOK
    BY DEF DayInv
  <1>1. /\ z \in BucketSlots /\ Hour(second) \in Int /\ old.hour \in Int
        /\ old.amount \in 0 .. U64_MAX /\ old.amount \in Nat
        /\ WINDOW_HOURS \in Nat /\ U64_MAX \in Nat
        /\ second \in Nat /\ peak \in Nat /\ second <= peak
        /\ Hour(second) % BUCKET_COUNT = z
    BY <1>0, WindowLogTypes, SlotOfHour
  <1>2. /\ payments' = Append(payments, [at |-> second, amount |-> amount])
        /\ second' = second /\ peak' = peak /\ writer' = writer
    BY DEF LogPayment
  <1>3. /\ payments' \in Seq(PaymentRows)
        /\ n \notin DOMAIN payments /\ DOMAIN payments' = DOMAIN payments \union {n}
        /\ payments'[n].at = second /\ payments'[n].amount = amount
        /\ \A i \in DOMAIN payments : payments'[i] = payments[i]
        /\ amount \in Nat /\ amount > 0 /\ amount <= U64_MAX
        /\ \A S \in SUBSET DOMAIN payments :
             /\ Total(Amount', S) = Total(Amount, S)
             /\ Total(Amount', S \union {n}) = Total(Amount, S) + amount
             /\ Total(Amount, S) \in Nat
    BY <1>0, <1>2, OneMorePaid, ZenonT(40)
  <1>4. /\ buckets' \in Buckets
        /\ \A s \in BucketSlots : s # z => buckets'[s] = buckets[s]
    BY DEF Paid
  <1>5. WindowTypeOK'
    BY <1>0, <1>2, <1>3, <1>4 DEF WindowTypeOK
  <1>6. \A s \in BucketSlots : LastDay(s) \in SUBSET DOMAIN payments
    BY DEF LastDay
  <1>7. \A s \in BucketSlots : s # z => LastDay(s)' = LastDay(s)
    BY <1>2, <1>3 DEF LastDay
  <1>8. LastDay(z)' = LastDay(z) \/ LastDay(z)' = LastDay(z) \union {n}
    BY <1>2, <1>3 DEF LastDay
  <1>12. /\ Total(Amount, LastDay(z)) \in Nat /\ Total(Amount', LastDay(z)') \in Nat
         /\ Total(Amount', LastDay(z)') <= Total(Amount, LastDay(z)) + amount
    <2> DEFINE S == LastDay(z)
               R == LastDay(z)'
               f == Amount
               g == Amount'
    <2>1. /\ Total(g, S) = Total(f, S) /\ Total(g, S \union {n}) = Total(f, S) + amount
          /\ Total(f, S) \in Nat
      <3>1. S \in SUBSET DOMAIN payments
        BY <1>1, <1>6
      <3> HIDE DEF S
      <3> QED BY <1>3, <3>1
    <2>2. R = S \/ R = S \union {n}
      BY <1>8
    <2>4. amount \in Nat
      BY <1>3
    <2> HIDE DEF S, R, f, g
    <2>5. Total(g, R) = Total(f, S) \/ Total(g, R) = Total(f, S) + amount
      BY <2>1, <2>2
    <2>3. Total(g, R) \in Nat /\ Total(g, R) <= Total(f, S) + amount
      BY <2>1, <2>4, <2>5
    <2> QED BY <2>1, <2>3 DEF S, R, f, g
  <1>9. ASSUME old.amount = 0 \/ old.hour < Hour(second) - WINDOW_HOURS
        PROVE  LastDay(z) = {}
    <2> SUFFICES ASSUME NEW i \in LastDay(z) PROVE FALSE
      OBVIOUS
    <2>1. i \in DOMAIN payments /\ payments[i].at > peak - WINDOW_SECS /\ SlotOf(payments[i].at) = z
      BY DEF LastDay
    <2>2. old.hour >= Hour(second) - WINDOW_HOURS
      BY <2>1, LastDayIsInWindow
    <2>3. old.amount = 0
      BY <1>1, <1>9, <2>2
    <2>4. Total(Amount, LastDay(z)) <= 0
      BY <1>1, <1>3, <2>3 DEF DayInv
    <2>5. Amount[i] <= Total(Amount, LastDay(z))
      <3>1. IsFiniteSet(LastDay(z)) /\ \A k \in LastDay(z) : Amount[k] \in Nat
        BY <1>0, WindowLogTypes, FS_Subset DEF LastDay
      <3> DEFINE f == Amount
      <3> HIDE DEF f
      <3> QED BY <3>1, TotalNat DEF f
    <2>6. Amount[i] > 0 /\ Amount[i] \in Nat
      BY <1>0, <2>1, WindowLogTypes
    <2>7. Total(Amount, LastDay(z)) \in Nat
      BY <1>1, <1>3, <1>6
    <2> QED BY <2>4, <2>5, <2>6, <2>7
  <1>13. \A s \in BucketSlots : s # z =>
            /\ buckets'[s].amount = U64_MAX \/ Total(Amount', LastDay(s)') <= buckets'[s].amount
            /\ buckets'[s].amount # 0 => buckets'[s].hour % BUCKET_COUNT = s
    <2> SUFFICES ASSUME NEW s \in BucketSlots, s # z
                 PROVE  /\ \/ buckets'[s].amount = U64_MAX
                           \/ Total(Amount', LastDay(s)') <= buckets'[s].amount
                        /\ buckets'[s].amount # 0 => buckets'[s].hour % BUCKET_COUNT = s
      OBVIOUS
    <2>1. buckets'[s] = buckets[s] /\ LastDay(s)' = LastDay(s)
      BY <1>4, <1>7
    <2>2. Total(Amount', LastDay(s)) = Total(Amount, LastDay(s))
      BY <1>3, <1>6
    <2> QED BY <2>1, <2>2 DEF DayInv
  <1>10. CASE /\ old.amount = 0 \/ old.hour < Hour(second) - WINDOW_HOURS
              /\ buckets'[z].hour = Hour(second)
              /\ buckets'[z].amount = amount
    <2>1. LastDay(z) = {}
      BY <1>9, <1>10
    <2>2. Total(Amount, {}) = 0
      BY TotalEmpty
    <2>3. Total(Amount', LastDay(z)') <= amount
      BY <1>3, <1>12, <2>1, <2>2
    <2>4. buckets'[z].amount = U64_MAX \/ Total(Amount', LastDay(z)') <= buckets'[z].amount
      BY <1>10, <2>3
    <2>5. \A i \in DOMAIN payments :
              payments[i].at > peak - WINDOW_SECS => SlotOf(payments[i].at) # z
      BY <2>1 DEF LastDay
    <2>6. \A i \in DOMAIN payments' :
              /\ payments'[i].at <= peak
              /\ payments'[i].at > peak - WINDOW_SECS =>
                     buckets'[SlotOf(payments'[i].at)].hour >= Hour(payments'[i].at)
      <3> SUFFICES ASSUME NEW i \in DOMAIN payments'
                   PROVE  /\ payments'[i].at <= peak
                          /\ payments'[i].at > peak - WINDOW_SECS =>
                                 buckets'[SlotOf(payments'[i].at)].hour >= Hour(payments'[i].at)
        OBVIOUS
      <3>1. CASE i \in DOMAIN payments
        <4>1. payments'[i] = payments[i] /\ SlotOf(payments[i].at) \in BucketSlots
          BY <1>0, <1>3, <3>1, WindowLogTypes
        <4>2. /\ payments[i].at <= peak
              /\ payments[i].at > peak - WINDOW_SECS =>
                     buckets[SlotOf(payments[i].at)].hour >= Hour(payments[i].at)
          BY <1>1, <3>1 DEF DayInv
        <4>3. payments[i].at > peak - WINDOW_SECS =>
                 buckets'[SlotOf(payments[i].at)] = buckets[SlotOf(payments[i].at)]
          BY <1>4, <2>5, <3>1, <4>1
        <4> QED
          BY <4>1, <4>2, <4>3
      <3>2. CASE i \notin DOMAIN payments
        BY <1>0, <1>1, <1>2, <1>3, <1>10, <3>2, WindowLogTypes DEF DayInv
      <3> QED
        BY <3>1, <3>2
    <2> QED
      BY <1>1, <1>2, <1>5, <1>10, <1>13, <2>4, <2>6 DEF DayInv
  <1>11. CASE /\ old.hour >= Hour(second)
              /\ (writer = "hold" /\ old.amount # 0) \/ old.hour = Hour(second)
              /\ buckets'[z].hour = old.hour
              /\ buckets'[z].amount = SatAdd(old.amount, amount)
    <2>1. old.amount = U64_MAX \/ Total(Amount, LastDay(z)) <= old.amount
      BY <1>1 DEF DayInv
    <2>2. buckets'[z].amount = U64_MAX \/ Total(Amount', LastDay(z)') <= buckets'[z].amount
      BY <1>1, <1>3, <1>11, <1>12, <2>1, SMTT(30) DEF SatAdd
    <2>3. \A i \in DOMAIN payments' :
              /\ payments'[i].at <= peak
              /\ payments'[i].at > peak - WINDOW_SECS =>
                     buckets'[SlotOf(payments'[i].at)].hour >= Hour(payments'[i].at)
      <3>1. ASSUME NEW i \in DOMAIN payments
            PROVE  buckets'[SlotOf(payments[i].at)].hour = buckets[SlotOf(payments[i].at)].hour
        BY <1>0, <1>4, <1>11, WindowLogTypes
      <3>2. buckets'[SlotOf(second)].hour >= Hour(second)
        BY <1>11
      <3> QED BY <1>1, <1>3, <3>1, <3>2 DEF DayInv
    <2>4. old.hour % BUCKET_COUNT = z
      BY <1>1, <1>11 DEF DayInv
    <2>5. \A s \in BucketSlots : s # z =>
            /\ buckets'[s].amount = U64_MAX \/ Total(Amount', LastDay(s)') <= buckets'[s].amount
            /\ buckets'[s].amount # 0 => buckets'[s].hour % BUCKET_COUNT = s
      BY <1>13
    <2> QED
      BY <1>2, <1>5, <1>11, <2>2, <2>3, <2>4, <2>5 DEF DayInv
  <1> QED
    BY <1>10, <1>11 DEF Paid

\* A payment adds no more to a bucket than to what was paid in the hour it carries.
LEMMA PaymentKeepsAge ==
    ASSUME DayInv, AgeInv, NEW amount \in Payouts, Paid(amount), LogPayment(amount),
           NEW z, z = SlotOf(second), NEW n, n = Len(payments) + 1
    PROVE  AgeInv'
  <1> DEFINE old == buckets[z]
  <1>0. WindowTypeOK
    BY DEF DayInv
  <1>1. /\ z \in BucketSlots /\ Hour(second) \in Int /\ old.hour \in Int
        /\ old.amount \in 0 .. U64_MAX /\ old.amount \in Nat
        /\ WINDOW_HOURS \in Nat /\ U64_MAX \in Nat
        /\ second \in Nat
        /\ Hour(second) % BUCKET_COUNT = z
        /\ DOMAIN payments = 1 .. Len(payments) /\ Len(payments) \in Nat
        /\ writer \in {"hold", "trade"}
    BY <1>0, WindowLogTypes, SlotOfHour DEF WindowTypeOK, Writers
  <1>2. /\ payments' = Append(payments, [at |-> second, amount |-> amount])
        /\ second' = second /\ writer' = writer
    BY DEF LogPayment
  <1>3. /\ n \notin DOMAIN payments /\ DOMAIN payments' = DOMAIN payments \union {n}
        /\ payments'[n].at = second
        /\ \A i \in DOMAIN payments : i \in 1 .. n - 1 /\ payments'[i] = payments[i]
        /\ amount \in Nat /\ amount <= U64_MAX
        /\ \A S \in SUBSET DOMAIN payments :
             /\ Total(Amount', S) = Total(Amount, S)
             /\ Total(Amount', S \union {n}) = Total(Amount, S) + amount
             /\ Total(Amount, S) \in Nat
    BY <1>0, <1>2, OneMorePaid, ZenonT(40)
  <1>4. /\ \A s \in BucketSlots : s # z => buckets'[s] = buckets[s]
        /\ \A s \in BucketSlots : OfItsHour(s) \in SUBSET DOMAIN payments
    BY DEF Paid, OfItsHour
  <1> SUFFICES ASSUME writer = "trade" \/ PaidInOrder'
               PROVE  \A s \in BucketSlots :
                        /\ buckets'[s].amount <= Total(Amount', OfItsHour(s)')
                        /\ writer = "hold" /\ buckets'[s].amount # 0 =>
                             \E i \in DOMAIN payments' : Hour(payments'[i].at) = buckets'[s].hour
    BY <1>2 DEF AgeInv
  <1>5. writer = "hold" => \A i \in DOMAIN payments : payments[i].at <= second
    BY <1>1, <1>3 DEF PaidInOrder
  <1>6. writer = "trade" \/ PaidInOrder
    <2>1. ASSUME PaidInOrder', NEW i \in DOMAIN payments, NEW j \in 1 .. i
          PROVE  payments[j].at <= payments[i].at
      <3>1. j \in DOMAIN payments /\ i \in DOMAIN payments'
        BY <1>1, <1>3, <2>1
      <3> QED BY <1>3, <2>1, <3>1 DEF PaidInOrder
    <2> QED BY <2>1 DEF PaidInOrder
  <1>7. \A s \in BucketSlots :
            /\ buckets[s].amount <= Total(Amount, OfItsHour(s))
            /\ writer = "hold" /\ buckets[s].amount # 0 =>
                   \E i \in DOMAIN payments : Hour(payments[i].at) = buckets[s].hour
    BY <1>6 DEF AgeInv
  <1>8. ASSUME NEW s \in BucketSlots, s # z
        PROVE  /\ buckets'[s].amount <= Total(Amount', OfItsHour(s)')
               /\ writer = "hold" /\ buckets'[s].amount # 0 =>
                    \E i \in DOMAIN payments' : Hour(payments'[i].at) = buckets'[s].hour
    <2>1. OfItsHour(s)' = OfItsHour(s)
      BY <1>3, <1>4, <1>8 DEF OfItsHour
    <2> QED BY <1>3, <1>4, <1>7, <1>8, <2>1
  <1>9. CASE /\ buckets'[z].hour = Hour(second)
             /\ buckets'[z].amount = amount
    <2>1. n \in OfItsHour(z)'
      BY <1>3, <1>9 DEF OfItsHour
    <2>2. OfItsHour(z)' \ {n} \in SUBSET DOMAIN payments
      BY <1>3 DEF OfItsHour
    <2>3. OfItsHour(z)' = (OfItsHour(z)' \ {n}) \union {n}
      BY <2>1
    <2>4. amount <= Total(Amount', OfItsHour(z)')
      <3> DEFINE R == OfItsHour(z)' \ {n}
      <3>1. Total(Amount', R \union {n}) = Total(Amount, R) + amount /\ Total(Amount, R) \in Nat
        <4> HIDE DEF R
        <4> QED BY <1>3, <2>2 DEF R
      <3>2. OfItsHour(z)' = R \union {n}
        BY <2>3
      <3> HIDE DEF R
      <3> QED BY <1>3, <3>1, <3>2
    <2> QED BY <1>3, <1>8, <1>9, <2>4
  <1>10. CASE /\ old.hour >= Hour(second) - WINDOW_HOURS
              /\ (writer = "hold" /\ old.amount # 0) \/ old.hour = Hour(second)
              /\ buckets'[z].hour = old.hour
              /\ buckets'[z].amount = SatAdd(old.amount, amount)
    <2>1. old.hour = Hour(second)
      <3> SUFFICES ASSUME writer = "hold", old.amount # 0 PROVE old.hour = Hour(second)
        BY <1>10
      <3>1. PICK i \in DOMAIN payments : Hour(payments[i].at) = old.hour
        BY <1>1, <1>7
      <3>2. payments[i].at \in Nat /\ payments[i].at <= second
        BY <1>0, <1>5, WindowLogTypes
      <3>3. old.hour <= Hour(second)
        BY <1>1, <3>1, <3>2, HoursOfADay
      <3>4. old.hour % BUCKET_COUNT = z
        BY <1>1 DEF DayInv
      <3> QED BY <1>1, <1>10, <3>3, <3>4, SameSlotSameHour
    <2>2. OfItsHour(z)' = OfItsHour(z) \union {n}
      BY <1>3, <1>10, <2>1 DEF OfItsHour
    <2>3. Total(Amount', OfItsHour(z)') = Total(Amount, OfItsHour(z)) + amount
      BY <1>1, <1>3, <1>4, <2>2
    <2>4. buckets'[z].amount <= old.amount + amount
      BY <1>1, <1>3, <1>10 DEF SatAdd
    <2>5. old.amount <= Total(Amount, OfItsHour(z)) /\ Total(Amount, OfItsHour(z)) \in Nat
      BY <1>1, <1>3, <1>4, <1>7
    <2>6. buckets'[z].amount \in Int
      BY <1>1, <1>3, <1>10 DEF SatAdd
    <2>7. buckets'[z].amount <= Total(Amount', OfItsHour(z)')
      <3> QED BY <1>1, <1>3, <2>3, <2>4, <2>5, <2>6
    <2>8. n \in DOMAIN payments' /\ Hour(payments'[n].at) = buckets'[z].hour
      BY <1>3, <1>10, <2>1
    <2> QED BY <1>8, <2>7, <2>8
  <1> QED
    BY <1>9, <1>10 DEF Paid

\* Time does not fill buckets: a later peak leaves fewer payments in the last day.
LEMMA ClockKeepsDay ==
    ASSUME DayInv, UNCHANGED <<writer, buckets, payments>>,
           second' \in 0 .. LogTime, peak' \in second' .. LogTime, peak <= peak'
    PROVE  DayInv'
  <1>0. WindowTypeOK
    BY DEF DayInv
  <1>1. WindowTypeOK' /\ peak \in Int /\ peak' \in Int /\ WINDOW_SECS \in Int
    BY <1>0, WindowAssumption, WindowLogAssumption DEF WindowTypeOK, WINDOW_SECS
  <1>2. \A i \in DOMAIN payments :
            payments[i].at <= peak' /\ (payments[i].at > peak' - WINDOW_SECS =>
                                            payments[i].at > peak - WINDOW_SECS)
    BY <1>0, <1>1, WindowLogTypes DEF DayInv
  <1>3. \A s \in BucketSlots : LastDay(s)' \subseteq LastDay(s)
    BY <1>2 DEF LastDay
  <1>4. Amount' = Amount
    BY DEF Amount
  <1>5. ASSUME NEW s \in BucketSlots
        PROVE  Total(Amount, LastDay(s)') <= Total(Amount, LastDay(s))
    <2> DEFINE f == Amount
               R == LastDay(s)'
               S == LastDay(s)
    <2>1. R \subseteq S /\ IsFiniteSet(S) /\ \A i \in S : f[i] \in Nat
      BY <1>0, <1>3, WindowLogTypes, FS_Subset DEF LastDay
    <2> HIDE DEF f, R, S
    <2>2. \A i \in S : f[i] \in Nat /\ f[i] <= f[i]
      BY <2>1
    <2>3. Total(f, R) <= Total(f, S)
      BY <2>1, <2>2, TotalMonotone
    <2> QED BY <2>3 DEF f, R, S
  <1>6. ASSUME NEW s \in BucketSlots
        PROVE  buckets[s].amount = U64_MAX \/ Total(Amount, LastDay(s)') <= buckets[s].amount
    <2>1. buckets[s].amount \in Int /\ Total(Amount, LastDay(s)) \in Int
             /\ Total(Amount, LastDay(s)') \in Int
      <3> DEFINE f == Amount
                 R == LastDay(s)'
                 S == LastDay(s)
      <3>1. R \subseteq S /\ IsFiniteSet(S) /\ \A i \in S : f[i] \in Int
        BY <1>0, <1>3, WindowLogTypes, FS_Subset DEF LastDay
      <3>2. buckets[s].amount \in Int
        BY <1>0, WindowLogTypes
      <3> HIDE DEF f, R, S
      <3>3. IsFiniteSet(R) /\ \A i \in R : f[i] \in Int
        BY <3>1, FS_Subset
      <3>4. Total(f, S) \in Int /\ Total(f, R) \in Int
        BY <3>1, <3>3, TotalInt
      <3> QED BY <3>2, <3>4 DEF f, R, S
    <2>2. buckets[s].amount = U64_MAX \/ Total(Amount, LastDay(s)) <= buckets[s].amount
      BY DEF DayInv
    <2> QED BY <1>5, <2>1, <2>2
  <1>7. \A i \in DOMAIN payments :
            payments[i].at > peak' - WINDOW_SECS =>
                buckets[SlotOf(payments[i].at)].hour >= Hour(payments[i].at)
    BY <1>2 DEF DayInv
  <1>8. \A s \in BucketSlots : buckets[s].amount # 0 => buckets[s].hour % BUCKET_COUNT = s
    BY DEF DayInv
  <1> QED
    BY <1>1, <1>2, <1>4, <1>6, <1>7, <1>8 DEF DayInv

\* Nor does it change what a bucket holds.
LEMMA ClockKeepsAge ==
    ASSUME AgeInv, UNCHANGED <<writer, buckets, payments>>
    PROVE  AgeInv'
  <1>1. Amount' = Amount /\ (PaidInOrder' <=> PaidInOrder)
        /\ \A s \in BucketSlots : OfItsHour(s)' = OfItsHour(s)
    BY DEF Amount, PaidInOrder, OfItsHour
  <1> QED
    BY <1>1 DEF AgeInv

LEMMA WindowStep == DayInv /\ AgeInv /\ [WindowNext]_windowVars => DayInv' /\ AgeInv'
  <1> SUFFICES ASSUME DayInv, AgeInv, [WindowNext]_windowVars PROVE DayInv' /\ AgeInv'
    OBVIOUS
  <1>1. ASSUME NEW amount \in Payouts, ReleaseHeld(amount) PROVE DayInv' /\ AgeInv'
    <2>1. Paid(amount) /\ LogPayment(amount)
      BY <1>1, ReleasePays DEF ReleaseHeld
    <2> QED BY <2>1, PaymentKeepsDay, PaymentKeepsAge
  <1>2. ASSUME NEW amount \in Payouts, TradeCommit(amount) PROVE DayInv' /\ AgeInv'
    <2>1. Paid(amount) /\ LogPayment(amount)
      BY <1>2, CommitPays DEF TradeCommit
    <2> QED BY <2>1, PaymentKeepsDay, PaymentKeepsAge
  <1>3. second \in 0 .. LogTime /\ peak \in second .. LogTime /\ LogTime \in Nat /\ MaxRewind \in Nat
    BY WindowLogAssumption DEF DayInv, WindowTypeOK
  <1>4. CASE WindowTick
    <2>1. UNCHANGED <<writer, buckets, payments>>
      BY <1>4 DEF WindowTick
    <2>2. second' \in 0 .. LogTime /\ peak' \in second' .. LogTime /\ peak <= peak'
      BY <1>3, <1>4 DEF WindowTick
    <2> QED BY <2>1, <2>2, ClockKeepsDay, ClockKeepsAge
  <1>5. CASE Rewind
    <2>1. UNCHANGED <<writer, buckets, payments>>
      BY <1>5 DEF Rewind
    <2>2. second' \in 0 .. LogTime /\ peak' \in second' .. LogTime /\ peak <= peak'
      BY <1>3, <1>5 DEF Rewind
    <2> QED BY <2>1, <2>2, ClockKeepsDay, ClockKeepsAge
  <1>6. CASE UNCHANGED windowVars
    <2>1. UNCHANGED <<writer, buckets, payments>>
      BY <1>6 DEF windowVars
    <2>2. second' \in 0 .. LogTime /\ peak' \in second' .. LogTime /\ peak <= peak'
      BY <1>3, <1>6 DEF windowVars
    <2> QED BY <2>1, <2>2, ClockKeepsDay, ClockKeepsAge
  <1> QED
    BY <1>1, <1>2, <1>4, <1>5, <1>6 DEF WindowNext

LEMMA WindowStart == WindowInit => DayInv /\ AgeInv
  <1> SUFFICES ASSUME WindowInit PROVE DayInv /\ AgeInv
    OBVIOUS
  <1>1. DOMAIN payments = {} /\ payments \in Seq(PaymentRows)
    BY DEF WindowInit
  <1>2. buckets \in Buckets /\ \A s \in BucketSlots : buckets[s].amount = 0 /\ buckets[s].hour = 0
    BY WindowAssumption DEF WindowInit, NoBuckets, Buckets
  <1>3. \A s : LastDay(s) = {} /\ OfItsHour(s) = {}
    BY <1>1 DEF LastDay, OfItsHour
  <1>4. Total(Amount, {}) = 0
    BY TotalEmpty
  <1>5. WindowTypeOK
    BY <1>1, <1>2, WindowLogAssumption DEF WindowInit, WindowTypeOK
  <1>6. \A s : Total(Amount, LastDay(s)) = 0 /\ Total(Amount, OfItsHour(s)) = 0
    BY <1>3, <1>4
  <1>7. DayInv
    BY <1>1, <1>2, <1>5, <1>6 DEF DayInv
  <1>8. AgeInv
    BY <1>1, <1>2, <1>6 DEF AgeInv
  <1> QED
    BY <1>7, <1>8

\* What was paid in the last day is in buckets of the window.
LEMMA WindowCounts == DayInv => CountsTheLastDay
  <1> SUFFICES ASSUME DayInv PROVE CountsTheLastDay
    OBVIOUS
  <1> DEFINE from == peak - WINDOW_SECS + 1
             D == {i \in DOMAIN payments : payments[i].at >= from}
             W == InWindow(buckets, second)
             f == Amount
             p == [i \in DOMAIN payments |-> SlotOf(payments[i].at)]
             g == [s \in BucketSlots |-> IF s \in W THEN buckets[s].amount ELSE 0]
             h == [s \in W |-> buckets[s].amount]
  <1>1. /\ WindowTypeOK /\ buckets \in Buckets
        /\ peak \in Int /\ WINDOW_SECS \in Int /\ U64_MAX \in Nat
    BY WindowAssumption, WindowLogTypes DEF DayInv, WindowTypeOK, WINDOW_SECS
  <1>2. PaidOutSince(from) = Total(f, D)
    BY <1>1, PaidOutIsTotal
  <1>3. /\ IsFiniteSet(D) /\ IsFiniteSet(BucketSlots) /\ IsFiniteSet(W) /\ W \subseteq BucketSlots
        /\ \A i \in D : f[i] \in Nat /\ p[i] \in BucketSlots
        /\ \A s \in BucketSlots : g[s] \in Nat
    BY <1>1, WindowLogTypes, BucketsFinite, FS_Subset DEF InWindow
  <1>4. Total(f, D) \in Nat
    <2> HIDE DEF f, D
    <2> QED BY <1>3, TotalNat
  <1>5. /\ Spent(buckets, second) = Total(h, W) /\ Spent(buckets, second) \in Nat
        /\ \A s \in W : buckets[s].amount <= Spent(buckets, second)
    BY <1>1, SpentIsTotal
  <1>6. CASE \E s \in W : buckets[s].amount = U64_MAX
    <2>1. Spent(buckets, second) >= U64_MAX
      BY <1>1, <1>5, <1>6
    <2> HIDE DEF D, f
    <2> QED BY <1>1, <1>2, <1>4, <1>5, <2>1 DEF CountsTheLastDay, Counts
  <1>7. CASE \A s \in W : buckets[s].amount # U64_MAX
    <2>1. ASSUME NEW s \in BucketSlots PROVE Total(f, {i \in D : p[i] = s}) <= g[s]
      <3>1. {i \in D : p[i] = s} = LastDay(s)
        BY <1>1, WindowLogTypes DEF LastDay
      <3>2. CASE s \in W
        <4>1. Total(f, LastDay(s)) <= g[s]
          BY <1>7, <3>2 DEF DayInv
        <4> QED BY <3>1, <4>1
      <3>3. CASE s \notin W
        <4>1. LastDay(s) = {}
          <5> SUFFICES ASSUME NEW i \in LastDay(s) PROVE FALSE
            OBVIOUS
          <5>1. i \in DOMAIN payments /\ payments[i].at > peak - WINDOW_SECS
                   /\ SlotOf(payments[i].at) = s
            BY DEF LastDay
          <5>2. buckets[s].hour >= Hour(second) - WINDOW_HOURS
            BY <5>1, LastDayIsInWindow
          <5> QED BY <3>3, <5>2 DEF InWindow
        <4>2. Total(f, {}) = 0 /\ g[s] = 0
          BY <3>3, TotalEmpty
        <4>3. {i \in D : p[i] = s} = {}
          BY <3>1, <4>1
        <4> DEFINE E == {i \in D : p[i] = s}
        <4>5. E = {}
          BY <4>3
        <4> HIDE DEF f, g, E
        <4>4. Total(f, E) <= g[s]
          BY <4>2, <4>5
        <4> QED BY <4>4 DEF E
      <3> QED BY <3>2, <3>3
    <2>2. Total(f, D) <= Total(g, BucketSlots)
      <3> HIDE DEF f, p, g, D
      <3> QED BY <1>3, <2>1, TotalGrouped
    <2>3. Total(g, W) = Total(g, BucketSlots)
      <3>1. \A s \in BucketSlots \ W : g[s] = 0
        OBVIOUS
      <3>2. \A s \in BucketSlots : g[s] \in Int
        <4> HIDE DEF g
        <4> QED BY <1>3
      <3> HIDE DEF g, W
      <3> QED BY <1>3, <3>1, <3>2, TotalZeros
    <2>4. Total(h, W) = Total(g, W)
      <3>1. \A s \in W : h[s] = g[s]
        BY <1>3
      <3> HIDE DEF g, h, W
      <3> QED BY <1>3, <3>1, TotalSame
    <2> HIDE DEF D, f, g, h, W
    <2> QED BY <1>1, <1>2, <1>4, <1>5, <2>2, <2>3, <2>4 DEF CountsTheLastDay, Counts
  <1> QED
    BY <1>6, <1>7

\* An hour that is in the window began less than a window and an hour ago.
LEMMA HourInWindow ==
    ASSUME NEW t \in Nat, NEW u \in Nat, Hour(t) >= Hour(u) - WINDOW_HOURS
    PROVE  t >= u - WINDOW_SECS - BUCKET_SECS + 1
  <1> DEFINE b == BUCKET_SECS
             h == Hour(t)
             k == Hour(u)
             w == WINDOW_HOURS
  <1>1. b \in Nat /\ b > 0 /\ w \in Nat
    BY WindowAssumption
  <1>2. /\ h \in Int /\ k \in Int
        /\ t = b * h + (t % b) /\ (t % b) \in 0 .. b - 1
        /\ u = b * k + (u % b) /\ (u % b) \in 0 .. b - 1
    BY <1>1 DEF Hour
  <1>3. WINDOW_SECS = b * w
    BY <1>1 DEF WINDOW_SECS
  <1> HIDE DEF b, h, k, w
  <1>4. k - w <= h
    BY <1>1, <1>2 DEF h, k, w
  <1>5. b * (k - w) <= b * h
    BY <1>1, <1>2, <1>4
  <1>6. b * (k - w) = b * k - b * w /\ b * h \in Int /\ b * k \in Int /\ b * w \in Int
    BY <1>1, <1>2
  <1>7. t >= u - b * w - b + 1
    BY <1>1, <1>2, <1>5, <1>6
  <1> QED
    BY <1>3, <1>7 DEF b

\* What the window counts was paid in it, or in the hour before it.
LEMMA WindowAges == WindowTypeOK /\ AgeInv => AgesOut
  <1> SUFFICES ASSUME WindowTypeOK, AgeInv, writer = "trade" \/ PaidInOrder
               PROVE  Spent(buckets, second)
                        <= PaidOutSince(second - WINDOW_SECS - BUCKET_SECS + 1)
    BY DEF AgesOut
  <1> DEFINE from == second - WINDOW_SECS - BUCKET_SECS + 1
             D == {i \in DOMAIN payments : payments[i].at >= from}
             W == InWindow(buckets, second)
             f == Amount
             p == [i \in DOMAIN payments |-> SlotOf(payments[i].at)]
             g == [s \in W |-> buckets[s].amount]
  <1>1. buckets \in Buckets /\ second \in Nat
    BY WindowLogTypes DEF WindowTypeOK
  <1>2. PaidOutSince(from) = Total(f, D)
    BY PaidOutIsTotal
  <1>3. /\ IsFiniteSet(D) /\ IsFiniteSet(W) /\ W \subseteq BucketSlots
        /\ \A i \in D : f[i] \in Nat
        /\ \A s \in W : g[s] \in Nat
    BY WindowLogTypes, BucketsFinite, FS_Subset DEF InWindow
  <1>4. Spent(buckets, second) = Total(g, W)
    BY <1>1, SpentIsTotal
  <1>5. ASSUME NEW s \in W PROVE g[s] <= Total(f, {i \in D : p[i] = s})
    <2>1. OfItsHour(s) \subseteq {i \in D : p[i] = s}
      <3> SUFFICES ASSUME NEW i \in OfItsHour(s) PROVE i \in D /\ p[i] = s
        OBVIOUS
      <3>1. i \in DOMAIN payments /\ Hour(payments[i].at) = buckets[s].hour
               /\ SlotOf(payments[i].at) = s
        BY DEF OfItsHour
      <3>2. Hour(payments[i].at) >= Hour(second) - WINDOW_HOURS /\ payments[i].at \in Nat
        BY <3>1, WindowLogTypes DEF InWindow
      <3>3. payments[i].at >= from
        BY <1>1, <3>2, HourInWindow
      <3> QED BY <3>1, <3>3
    <2>2. g[s] <= Total(f, OfItsHour(s))
      BY <1>3 DEF AgeInv
    <2> DEFINE R == OfItsHour(s)
               E == {i \in D : p[i] = s}
    <2>3. IsFiniteSet(E) /\ \A i \in E : f[i] \in Nat
      BY <1>3, FS_Subset
    <2>4. g[s] \in Nat
      BY <1>3
    <2>5. Total(f, R) <= Total(f, E) /\ Total(f, R) \in Nat /\ Total(f, E) \in Nat
      <3> HIDE DEF f, R, E
      <3>1. \A i \in E : f[i] \in Nat /\ f[i] <= f[i]
        BY <2>3
      <3> QED BY <2>1, <2>3, <3>1, TotalMonotone DEF R, E
    <2> HIDE DEF f, g, R, E
    <2> QED BY <2>2, <2>4, <2>5 DEF R, E
  <1>6. Total(g, W) <= Total(f, D)
    <2> HIDE DEF f, g, p, W, D
    <2> QED BY <1>3, <1>5, TotalSplit
  <1> QED
    BY <1>2, <1>4, <1>6

\* The buckets of a Hold vault or a trade rule are its day (spent, record_release, commit):
\* whatever the clock does, everything paid in the day up to the latest second is counted,
\* up to the saturation of u64, and nothing for longer than the window and an hour, but for
\* Hold payments on a clock that was set back.
THEOREM TheWindowIsTheDay == WindowSpec => []WindowIsTheDay
  <1>1. DayInv /\ AgeInv => WindowIsTheDay
    BY WindowCounts, WindowAges DEF WindowIsTheDay, DayInv
  <1> QED
    BY <1>1, WindowStart, WindowStep, PTL DEF WindowSpec

-----------------------------------------------------------------------------
(* What a card, a form, a draft and a hold are                             *)

\* Whoever a card can name.
Someone == Addresses \union {NoAddress, Request.agent, Request.payee}

\* An end chosen as days or as a date.
EndChoices == [kind : {"days"}, days : Int] \union [kind : {"date"}, at : Int]

\* The type of a card.
CardRecord ==
    [on : {TRUE}, request : BOOLEAN, template : Templates, agent : Someone, payee : Someone,
     cap : Int, max : Int, choice : EndChoices, draft : [max : Int, cap : Int],
     opened_at : Nat, done : BOOLEAN]

\* The ceiling of the total of a card whose decimals are known.
CeilingOf(c) == IF c.request THEN Request.cap ELSE 4 * TemplateLimits(c.template).cap

\* The total, and the ceiling of a payment.
CapOf(c) == IF c.cap # None THEN c.cap ELSE TemplateLimits(c.template).cap

MaxCeilingOf(c) == IF c.request THEN Least(Request.max, c.cap) ELSE CapOf(c)

\* The card of a request is within the request; text in a field is the amount or too much.
CardIsSound(c) ==
    /\ c \in CardRecord
    /\ c.request =>
          /\ c.agent = Request.agent /\ c.payee = Request.payee
          /\ c.cap \in 0 .. Request.cap /\ c.max \in 0 .. Request.max
    /\ ~c.request => c.cap \in {None} \union 0 .. CeilingOf(c)
    /\ c.draft.cap # None =>
          \/ c.cap = ParseLimitAmount(c.draft.cap)
          \/ ParseLimitAmount(c.draft.cap) > CeilingOf(c)
    /\ c.draft.max # None =>
          \/ c.max = ParseLimitAmount(c.draft.max)
          \/ ParseLimitAmount(c.draft.max) > MaxCeilingOf(c)
    /\ c.draft.cap \in {None} \union Nat /\ c.draft.max \in {None} \union Nat

\* The fields of a form.
SheetFields == {"on", "kind", "agent", "payee", "cap", "max", "days", "version", "done", "kept"}

\* A form that renews names the parties of the ending rule where they were not touched.
KeepsTheParties(s) ==
    /\ DOMAIN s = SheetFields /\ s.kind \in {"renew", "author", "apply", "write"}
    /\ s.kind = "renew" =>
          /\ "agent" \in s.kept => s.agent = Ending.agent
          /\ "payee" \in s.kept => s.payee = Ending.payee

\* The renewal screen edits amounts and days only.
DraftKeepsTheParties(r) ==
    /\ DOMAIN r = {"on", "base", "draft"}
    /\ DOMAIN r.draft = {"agent", "payee", "cap", "max", "days"}
    /\ r.draft.agent = Ending.agent /\ r.draft.payee = Ending.payee

\* What RulesAreOpenedAsShown says of an opened rule, said of what a hold captured.
HoldIsSound(h) ==
    /\ h.form = "request" =>
          /\ h.args.agent = Request.agent /\ h.args.payee = Request.payee /\ h.args.mint = Request.mint
          /\ h.args.cap \in 1 .. Request.cap /\ h.args.max \in 1 .. Request.max
          /\ h.args.until <= h.ceiling
    /\ h.scale = Mint => h.args = h.shown
    /\ h.form \in {"request", "template"} =>
          /\ h.seen.on /\ h.seen.payee = h.args.payee /\ h.seen.payee_account
          /\ h.seen.mint_readable /\ h.seen.network /\ h.seen.sol
          /\ h.seen.balance >= h.args.cap
    /\ h.form = "renew" =>
          /\ "agent" \in h.kept => h.args.agent = Ending.agent
          /\ "payee" \in h.kept => h.args.payee = Ending.payee

-----------------------------------------------------------------------------
(* The card                                                                *)

\* A template has a total and a payment.
LEMMA TemplateLimitsAreNat ==
    ASSUME NEW t \in Templates
    PROVE  TemplateLimits(t).cap \in Nat /\ TemplateLimits(t).max \in Nat
  <1>1. t.cap \in Nat /\ t.max \in Nat /\ Unit[Mint] \in Nat
    BY ApprovalAssumption
  <1>2. t.cap * Unit[Mint] \in Nat /\ t.max * Unit[Mint] \in Nat
    BY <1>1
  <1> QED
    BY <1>2 DEF TemplateLimits

\* The ceiling of a card, above what its template asks for.
LEMMA CeilingsAreNat ==
    ASSUME NEW c \in CardRecord
    PROVE  CeilingOf(c) \in Nat /\ (~c.request => TemplateLimits(c.template).cap <= CeilingOf(c))
  <1>1. c.template \in Templates
    BY DEF CardRecord
  <1>2. TemplateLimits(c.template).cap \in Nat /\ Request.cap \in Nat
    BY <1>1, TemplateLimitsAreNat, ApprovalAssumption
  <1> QED
    BY <1>2 DEF CeilingOf

\* parseLimitAmount rounds to a number of base units.
LEMMA AmountsAreNat == ASSUME NEW text \in Nat PROVE ParseLimitAmount(text) \in Nat
  BY DEF ParseLimitAmount

\* A card is drawn for a request or a template.
LEMMA NewCardIsSound ==
    ASSUME NEW request \in BOOLEAN, NEW t \in Templates, NEW agent \in Someone, time \in Nat,
           request => agent = Request.agent
    PROVE  CardIsSound(NewCard(request, t, agent)) /\ NewCard(request, t, agent).request = request
  <1>1. PICK payee, cap, max, days :
             /\ payee = (IF request THEN Request.payee ELSE NoAddress)
             /\ cap = (IF request THEN Request.cap ELSE None)
             /\ max = (IF request THEN Request.max ELSE None)
             /\ days = (IF request THEN Request.days ELSE t.days)
    OBVIOUS
  <1>2. payee \in Someone /\ cap \in Int /\ max \in Int /\ days \in Int
    BY <1>1, ApprovalAssumption DEF Someone, None
  <1>3. NewCard(request, t, agent) =
           [on |-> TRUE, request |-> request, template |-> t, agent |-> agent, payee |-> payee,
            cap |-> cap, max |-> max, choice |-> [kind |-> "days", days |-> days],
            draft |-> [max |-> None, cap |-> None], opened_at |-> time, done |-> FALSE]
    BY <1>1 DEF NewCard
  <1>4. [kind |-> "days", days |-> days] \in EndChoices /\ [max |-> None, cap |-> None] \in [max : Int, cap : Int]
    BY <1>2 DEF EndChoices, None
  <1>5. PICK y : y = NewCard(request, t, agent)
    OBVIOUS
  <1>6. /\ y \in CardRecord /\ y.request = request /\ y.agent = agent /\ y.payee = payee
        /\ y.cap = cap /\ y.max = max /\ y.draft.max = None /\ y.draft.cap = None
    BY <1>2, <1>3, <1>4, <1>5 DEF CardRecord
  <1> QED
    BY <1>1, <1>5, <1>6, ApprovalAssumption DEF CardIsSound, None

\* Another party on a card that is not for a request.
LEMMA PartyKeepsSound ==
    ASSUME NEW c, CardIsSound(c), ~c.request, NEW a \in Someone, NEW y,
           y = [c EXCEPT !.agent = a] \/ y = [c EXCEPT !.payee = a]
    PROVE  CardIsSound(y)
  <1>1. c \in CardRecord
    BY DEF CardIsSound
  <1>2. /\ y \in CardRecord /\ y.request = c.request /\ y.template = c.template
        /\ y.cap = c.cap /\ y.max = c.max /\ y.draft = c.draft
    BY <1>1 DEF CardRecord
  <1> QED
    BY <1>2 DEF CardIsSound, CeilingOf, CapOf, MaxCeilingOf

\* Another end, or a rule that was opened.
LEMMA ChoiceKeepsSound ==
    ASSUME NEW c, CardIsSound(c), NEW ch \in EndChoices, NEW y,
           y = [c EXCEPT !.choice = ch] \/ y = [c EXCEPT !.done = TRUE]
    PROVE  CardIsSound(y)
  <1>1. c \in CardRecord
    BY DEF CardIsSound
  <1>2. /\ y \in CardRecord /\ y.request = c.request /\ y.template = c.template
        /\ y.agent = c.agent /\ y.payee = c.payee
        /\ y.cap = c.cap /\ y.max = c.max /\ y.draft = c.draft
    BY <1>1 DEF CardRecord
  <1> QED
    BY <1>2 DEF CardIsSound, CeilingOf, CapOf, MaxCeilingOf

\* Another template starts over.
LEMMA TemplateKeepsSound ==
    ASSUME NEW c, CardIsSound(c), ~c.request, NEW t \in Templates, NEW y,
           y = [c EXCEPT !.template = t, !.choice = [kind |-> "days", days |-> t.days],
                         !.draft = [max |-> None, cap |-> None], !.cap = None, !.max = None]
    PROVE  CardIsSound(y)
  <1>1. c \in CardRecord
    BY DEF CardIsSound
  <1>2. PICK ch, d : ch = [kind |-> "days", days |-> t.days] /\ d = [max |-> None, cap |-> None]
    OBVIOUS
  <1>3. ch \in EndChoices /\ d \in [max : Int, cap : Int] /\ d.max = None /\ d.cap = None /\ None \in Int
    BY <1>2, ApprovalAssumption DEF EndChoices, None
  <1>4. y = [c EXCEPT !.template = t, !.choice = ch, !.draft = d, !.cap = None, !.max = None]
    BY <1>2
  <1>5. y \in CardRecord /\ y.request = c.request /\ y.cap = None /\ y.draft = d
    BY <1>1, <1>3, <1>4 DEF CardRecord
  <1> QED
    BY <1>3, <1>5 DEF CardIsSound

\* What applyLimits leaves of the limits, on a card with the request and the template on screen.
LEMMA LimitsApplied ==
    ASSUME NEW c \in CardRecord, card \in CardRecord, c.request = card.request, c.template = card.template,
           NEW cap \in Int, NEW max \in Int, NEW y, y = ApplyLimits(c, cap, max)
    PROVE  /\ y \in CardRecord /\ y.request = c.request /\ y.template = c.template
           /\ y.agent = c.agent /\ y.payee = c.payee /\ y.draft = c.draft
           /\ y.cap \in 0 .. CeilingOf(c)
           /\ c.request => y.max \in 0 .. Request.max
  <1>1. PICK n : n = CeilingOf(c)
    OBVIOUS
  <1>2. n \in Nat /\ (c.request => n = Request.cap) /\ (~c.request => CapCeiling = n)
    BY <1>1, CeilingsAreNat DEF CeilingOf, CapCeiling
  <1>3. PICK l : l = (IF c.request THEN ClampToRequest(cap, max) ELSE ClampTemplate(cap, max))
    OBVIOUS
  <1>4. l.cap \in 0 .. n /\ l.max \in Int /\ (c.request => l.max \in 0 .. Request.max)
    BY <1>2, <1>3, ApprovalAssumption DEF ClampToRequest, ClampTemplate, Least, Most
  <1>5. y = [c EXCEPT !.cap = l.cap, !.max = l.max]
    BY <1>3 DEF ApplyLimits
  <1>6. /\ y \in CardRecord /\ y.request = c.request /\ y.template = c.template
        /\ y.agent = c.agent /\ y.payee = c.payee /\ y.draft = c.draft /\ y.cap = l.cap /\ y.max = l.max
    <2>1. PICK a, b : a = l.cap /\ b = l.max
      OBVIOUS
    <2>2. a \in Int /\ b \in Int
      BY <1>2, <1>4, <2>1
    <2>3. y = [c EXCEPT !.cap = a, !.max = b]
      BY <1>5, <2>1
    <2> QED
      BY <2>1, <2>2, <2>3 DEF CardRecord
  <1> QED
    BY <1>1, <1>4, <1>6

\* Limits within their ceilings are applied as they are.
LEMMA LimitsWithinAreKept ==
    ASSUME NEW c \in CardRecord, card \in CardRecord, c.request = card.request, c.template = card.template,
           NEW cap \in Nat, NEW max \in Int, NEW y, y = ApplyLimits(c, cap, max), cap <= CeilingOf(c)
    PROVE  /\ y.cap = cap
           /\ max >= 0 /\ max <= cap /\ (c.request => max <= Request.max) => y.max = max
  <1>1. PICK n : n = CeilingOf(c)
    OBVIOUS
  <1>2. n \in Nat /\ cap <= n /\ (c.request => n = Request.cap) /\ (~c.request => CapCeiling = n)
    BY <1>1, CeilingsAreNat DEF CeilingOf, CapCeiling
  <1>3. PICK l : l = (IF c.request THEN ClampToRequest(cap, max) ELSE ClampTemplate(cap, max))
    OBVIOUS
  <1>4. l.cap = cap /\ (max >= 0 /\ max <= cap /\ (c.request => max <= Request.max) => l.max = max)
    BY <1>2, <1>3, ApprovalAssumption DEF ClampToRequest, ClampTemplate, Least, Most
  <1>5. y = [c EXCEPT !.cap = l.cap, !.max = l.max]
    BY <1>3 DEF ApplyLimits
  <1>6. y.cap = l.cap /\ y.max = l.max
    BY <1>5 DEF CardRecord
  <1> QED
    BY <1>4, <1>6

\* The amounts the card computes with while its dials are shown.
LEMMA AmountsNow ==
    ASSUME card.on, CardIsSound(card), CapNow # None
    PROVE  /\ CapNow = CapOf(card) /\ CapNow \in 0 .. CeilingOf(card) /\ MaxNow \in Int
           /\ CapCeiling = CeilingOf(card) /\ MaxCeiling = MaxCeilingOf(card) /\ CeilingOf(card) \in Nat
           /\ card.cap # None => card.cap = CapNow
  <1>1. card \in CardRecord /\ card.template \in Templates
    BY DEF CardIsSound, CardRecord
  <1>2. /\ CeilingOf(card) \in Nat /\ CapCeiling = CeilingOf(card)
        /\ ~card.request => TemplateLimits(card.template).cap <= CeilingOf(card)
    BY <1>1, CeilingsAreNat DEF CapCeiling, CeilingOf
  <1>3. TemplateLimits(card.template).cap \in Nat /\ TemplateLimits(card.template).max \in Nat
    BY <1>1, TemplateLimitsAreNat
  <1>4. card.request => card.cap # None
    BY ApprovalAssumption DEF CardIsSound, None
  <1>5. CapNow = CapOf(card) /\ (card.cap # None => card.cap = CapNow)
    BY <1>4 DEF CapNow, CapOf
  <1>6. CapNow \in 0 .. CeilingOf(card)
    <2>1. CASE card.cap # None
      BY <1>2, <1>5, <2>1 DEF CardIsSound, CeilingOf
    <2>2. CASE card.cap = None
      BY <1>2, <1>3, <1>4, <1>5, <2>2 DEF CapOf
    <2> QED
      BY <2>1, <2>2
  <1>7. MaxNow \in Int
    BY <1>1, <1>3 DEF MaxNow, CardRecord, None
  <1>8. MaxCeiling = MaxCeilingOf(card)
    BY <1>4, <1>5 DEF MaxCeiling, MaxCeilingOf
  <1> QED
    BY <1>2, <1>5, <1>6, <1>7, <1>8

\* A step on a dial.
LEMMA NudgeKeepsSound ==
    ASSUME card.on, CardIsSound(card), CapNow # None, NEW cap \in Int, NEW max \in Int, NEW y,
           y = ApplyLimits([card EXCEPT !.draft = [max |-> None, cap |-> None]], cap, max)
    PROVE  CardIsSound(y)
  <1>1. PICK c, d : d = [max |-> None, cap |-> None] /\ c = [card EXCEPT !.draft = d]
    OBVIOUS
  <1>2. card \in CardRecord /\ d \in [max : Int, cap : Int] /\ d.max = None /\ d.cap = None
    BY <1>1 DEF CardIsSound, None
  <1>3. /\ c \in CardRecord /\ c.request = card.request /\ c.template = card.template /\ c.draft = d
        /\ c.agent = card.agent /\ c.payee = card.payee
    BY <1>1, <1>2 DEF CardRecord
  <1>4. y = ApplyLimits(c, cap, max)
    BY <1>1
  <1>5. /\ y \in CardRecord /\ y.request = c.request /\ y.template = c.template
        /\ y.agent = c.agent /\ y.payee = c.payee /\ y.draft = c.draft
        /\ y.cap \in 0 .. CeilingOf(c) /\ (c.request => y.max \in 0 .. Request.max)
    BY <1>2, <1>3, <1>4, LimitsApplied
  <1>6. CeilingOf(c) = CeilingOf(y) /\ (c.request => CeilingOf(c) = Request.cap)
    BY <1>5 DEF CeilingOf
  <1> QED
    BY <1>2, <1>3, <1>5, <1>6 DEF CardIsSound

\* Text in an amount field, within its ceiling or not.
LEMMA MaxTypedKeepsSound ==
    ASSUME card.on, CardIsSound(card), CapNow # None, NEW text \in Nat
    PROVE  \A c, y :
              /\ c = [card EXCEPT !.draft.max = text]
              /\ y = IF ParseLimitAmount(text) <= MaxCeiling
                     THEN ApplyLimits(c, CapNow, ParseLimitAmount(text)) ELSE c
              => CardIsSound(y)
  <1>0. SUFFICES ASSUME NEW c, NEW y, c = [card EXCEPT !.draft.max = text],
                        y = IF ParseLimitAmount(text) <= MaxCeiling
                            THEN ApplyLimits(c, CapNow, ParseLimitAmount(text)) ELSE c
                 PROVE  CardIsSound(y)
    OBVIOUS
  <1>1. PICK n, d : n = ParseLimitAmount(text) /\ d = [card.draft EXCEPT !.max = text]
    OBVIOUS
  <1>2. card \in CardRecord /\ n \in Nat /\ card.draft \in [max : Int, cap : Int]
    BY <1>1, AmountsAreNat DEF CardIsSound, CardRecord
  <1>3. d \in [max : Int, cap : Int] /\ d.max = text /\ d.cap = card.draft.cap /\ c = [card EXCEPT !.draft = d]
    BY <1>0, <1>1, <1>2 DEF CardRecord
  <1>4. /\ c \in CardRecord /\ c.request = card.request /\ c.template = card.template /\ c.draft = d
        /\ c.agent = card.agent /\ c.payee = card.payee /\ c.cap = card.cap /\ c.max = card.max
    BY <1>2, <1>3 DEF CardRecord
  <1>5. /\ CapNow = CapOf(card) /\ CapNow \in 0 .. CeilingOf(card) /\ CeilingOf(card) \in Nat
        /\ MaxCeiling = MaxCeilingOf(card) /\ CeilingOf(c) = CeilingOf(card) /\ MaxCeilingOf(c) = MaxCeilingOf(card)
        /\ card.cap # None => card.cap = CapNow
    BY <1>4, AmountsNow DEF CeilingOf, MaxCeilingOf, CapOf
  <1>6. CASE n > MaxCeiling
    <2>1. y = c
      <3>1. card.cap \in Int
        BY <1>2 DEF CardRecord
      <3>2. MaxCeiling \in Int
        BY <1>5, <3>1, ApprovalAssumption DEF MaxCeilingOf, Least
      <3> QED
        BY <1>0, <1>1, <1>2, <1>6, <3>2
    <2> QED
      BY <1>1, <1>3, <1>4, <1>5, <1>6, <2>1 DEF CardIsSound
  <1>7. CASE n <= MaxCeiling
    <2>1. y = ApplyLimits(c, CapNow, n)
      BY <1>0, <1>1, <1>7
    <2>2. card.request => n <= Request.max /\ n <= CapNow
      BY <1>2, <1>5, <1>7, ApprovalAssumption DEF MaxCeilingOf, Least, CapOf, CardIsSound, None
    <2>3. ~card.request => n <= CapNow
      BY <1>5, <1>7 DEF MaxCeilingOf
    <2>4. /\ n \in Int /\ n \in 0 .. CapNow /\ CapNow \in Int /\ CapNow \in 0 .. CeilingOf(c)
          /\ c.request => n <= Request.max
      BY <1>2, <1>4, <1>5, <2>2, <2>3
    <2>5. /\ y \in CardRecord /\ y.request = c.request /\ y.template = c.template
          /\ y.agent = c.agent /\ y.payee = c.payee /\ y.draft = c.draft
          /\ c.request => y.max \in 0 .. Request.max
          /\ y.cap = CapNow /\ y.max = n
      <3>1. PICK k : k = CapNow
        OBVIOUS
      <3>2. y = ApplyLimits(c, k, n) /\ k \in Nat /\ k \in Int /\ n \in Int
        BY <1>5, <2>1, <2>4, <3>1
      <3>3. /\ y \in CardRecord /\ y.request = c.request /\ y.template = c.template
            /\ y.agent = c.agent /\ y.payee = c.payee /\ y.draft = c.draft
            /\ c.request => y.max \in 0 .. Request.max
        BY <1>2, <1>4, <3>2, LimitsApplied
      <3>4. k <= CeilingOf(c) /\ n >= 0 /\ n <= k
        BY <1>2, <1>5, <2>4, <3>1
      <3>5. y.cap = k /\ y.max = n
        BY <1>2, <1>4, <2>4, <3>2, <3>4, LimitsWithinAreKept
      <3> QED
        BY <3>1, <3>3, <3>5
    <2>6. CeilingOf(y) = CeilingOf(card) /\ (y.request => CeilingOf(card) = Request.cap)
      BY <1>4, <2>5 DEF CeilingOf
    <2>7. d.cap # None => CapNow = ParseLimitAmount(d.cap) \/ ParseLimitAmount(d.cap) > CeilingOf(card)
      <3>1. SUFFICES ASSUME card.draft.cap # None, card.cap = ParseLimitAmount(card.draft.cap)
                     PROVE  CapNow = ParseLimitAmount(card.draft.cap)
        BY <1>3 DEF CardIsSound
      <3>2. card.draft.cap \in Nat
        BY <3>1 DEF CardIsSound
      <3>3. card.cap # None
        BY <3>1, <3>2, AmountsAreNat DEF None
      <3> QED
        BY <1>5, <3>1, <3>3
    <2> QED
      BY <1>1, <1>2, <1>3, <1>4, <1>5, <2>5, <2>6, <2>7 DEF CardIsSound
  <1>8. MaxCeiling \in Int
    <2>1. card.cap \in Int
      BY <1>2 DEF CardRecord
    <2> QED
      BY <1>5, <2>1, ApprovalAssumption DEF MaxCeilingOf, Least
  <1> QED
    BY <1>2, <1>6, <1>7, <1>8

\* The card after text in the cap's field.
CapTyped(text) ==
    IF ParseLimitAmount(text) <= CapCeiling
    THEN ApplyLimits([[card EXCEPT !.draft.cap = text] EXCEPT !.draft.max = None],
                     ParseLimitAmount(text), Least(MaxNow, ParseLimitAmount(text)))
    ELSE [card EXCEPT !.draft.cap = text]

\* A total that fits its ceiling brings the payment down with it.
LEMMA CapTypedKeepsSound ==
    ASSUME card.on, CardIsSound(card), CapNow # None, NEW text \in Nat
    PROVE  CardIsSound(CapTyped(text))
  <1>0a. SUFFICES ASSUME NEW y, y = CapTyped(text) PROVE CardIsSound(y)
    OBVIOUS
  <1>0. PICK c, b :
           /\ c = [card EXCEPT !.draft.cap = text] /\ b = [c EXCEPT !.draft.max = None]
           /\ y = IF ParseLimitAmount(text) <= CapCeiling
                  THEN ApplyLimits(b, ParseLimitAmount(text), Least(MaxNow, ParseLimitAmount(text))) ELSE c
    BY <1>0a DEF CapTyped
  <1>1. PICK n, d, e : /\ n = ParseLimitAmount(text) /\ d = [card.draft EXCEPT !.cap = text]
                       /\ e = [d EXCEPT !.max = None]
    OBVIOUS
  <1>2. card \in CardRecord /\ n \in Nat /\ card.draft \in [max : Int, cap : Int]
    BY <1>1, AmountsAreNat DEF CardIsSound, CardRecord
  <1>3. /\ d \in [max : Int, cap : Int] /\ d.cap = text /\ d.max = card.draft.max /\ c = [card EXCEPT !.draft = d]
        /\ e \in [max : Int, cap : Int] /\ e.cap = text /\ e.max = None
    <2>1. d \in [max : Int, cap : Int] /\ d.cap = text /\ d.max = card.draft.max
      BY <1>1, <1>2
    <2>2. e \in [max : Int, cap : Int] /\ e.cap = text /\ e.max = None
      <3>1. None \in Int
        BY DEF None
      <3> QED
        BY <1>1, <2>1, <3>1
    <2>3. c = [card EXCEPT !.draft = d]
      BY <1>0, <1>1, <1>2 DEF CardRecord
    <2> QED
      BY <2>1, <2>2, <2>3
  <1>4. /\ c \in CardRecord /\ c.request = card.request /\ c.template = card.template /\ c.draft = d
        /\ c.agent = card.agent /\ c.payee = card.payee /\ c.cap = card.cap /\ c.max = card.max
    BY <1>2, <1>3 DEF CardRecord
  <1>5. b = [c EXCEPT !.draft = e]
    BY <1>0, <1>1, <1>3, <1>4 DEF CardRecord
  <1>6. /\ b \in CardRecord /\ b.request = card.request /\ b.template = card.template /\ b.draft = e
        /\ b.agent = card.agent /\ b.payee = card.payee
    BY <1>3, <1>4, <1>5 DEF CardRecord
  <1>7. /\ CapCeiling = CeilingOf(card) /\ CeilingOf(card) \in Nat /\ MaxNow \in Int
        /\ CeilingOf(c) = CeilingOf(card) /\ CeilingOf(b) = CeilingOf(card) /\ MaxCeilingOf(c) = MaxCeilingOf(card)
    BY <1>4, <1>6, AmountsNow DEF CeilingOf, MaxCeilingOf, CapOf
  <1>8. CASE n > CeilingOf(card)
    <2>1. y = c
      BY <1>0, <1>1, <1>2, <1>7, <1>8
    <2> QED
      BY <1>1, <1>3, <1>4, <1>7, <1>8, <2>1 DEF CardIsSound
  <1>9. CASE n <= CeilingOf(card)
    <2>1. PICK m : m = Least(MaxNow, n)
      OBVIOUS
    <2>2. y = ApplyLimits(b, n, m) /\ m \in Int
      BY <1>0, <1>1, <1>2, <1>7, <1>9, <2>1 DEF Least
    <2>3. /\ y \in CardRecord /\ y.request = b.request /\ y.template = b.template
          /\ y.agent = b.agent /\ y.payee = b.payee /\ y.draft = b.draft /\ y.cap = n
          /\ b.request => y.max \in 0 .. Request.max
      <3>1. n \in Int /\ n \in 0 .. CeilingOf(b)
        BY <1>2, <1>7, <1>9
      <3>2. /\ y \in CardRecord /\ y.request = b.request /\ y.template = b.template
            /\ y.agent = b.agent /\ y.payee = b.payee /\ y.draft = b.draft
            /\ b.request => y.max \in 0 .. Request.max
        BY <1>2, <1>6, <2>2, <3>1, LimitsApplied
      <3>3. n <= CeilingOf(b)
        BY <1>7, <1>9
      <3>4. y.cap = n
        BY <1>2, <1>6, <2>2, <3>1, <3>3, LimitsWithinAreKept
      <3> QED
        BY <3>2, <3>4
    <2>4. CeilingOf(y) = CeilingOf(card) /\ (y.request => CeilingOf(card) = Request.cap)
      BY <1>6, <2>3 DEF CeilingOf
    <2>5. n \in 0 .. CeilingOf(y) /\ y.draft.cap = text /\ y.draft.max = None /\ None # text
      <3>1. None # text
        BY DEF None
      <3>2. y.draft = e
        BY <1>6, <2>3
      <3>3. n \in 0 .. CeilingOf(y)
        BY <1>2, <1>7, <1>9, <2>4
      <3> QED
        BY <1>3, <3>1, <3>2, <3>3
    <2>6. card.request => card.agent = Request.agent /\ card.payee = Request.payee
      BY DEF CardIsSound
    <2> QED
      BY <1>1, <1>6, <2>3, <2>4, <2>5, <2>6 DEF CardIsSound
  <1> QED
    BY <1>2, <1>7, <1>8, <1>9

\* A field that loses the focus.
LEMMA FinishKeepsSound ==
    ASSUME NEW c, CardIsSound(c), NEW y, y = [c EXCEPT !.draft.max = None] \/ y = [c EXCEPT !.draft.cap = None]
    PROVE  CardIsSound(y)
  <1>1. c \in CardRecord /\ c.draft \in [max : Int, cap : Int]
    BY DEF CardIsSound, CardRecord
  <1>2. PICK d : (d = [c.draft EXCEPT !.max = None] \/ d = [c.draft EXCEPT !.cap = None]) /\ y = [c EXCEPT !.draft = d]
    BY <1>1 DEF CardRecord
  <1>3. /\ d \in [max : Int, cap : Int]
        /\ d.max \in {None, c.draft.max} /\ d.cap \in {None, c.draft.cap}
    BY <1>1, <1>2 DEF None
  <1>4. /\ y \in CardRecord /\ y.request = c.request /\ y.template = c.template /\ y.draft = d
        /\ y.agent = c.agent /\ y.payee = c.payee /\ y.cap = c.cap /\ y.max = c.max
    BY <1>1, <1>2, <1>3 DEF CardRecord
  <1> QED
    BY <1>3, <1>4 DEF CardIsSound, CeilingOf, CapOf, MaxCeilingOf

-----------------------------------------------------------------------------
(* Which actions move which part *)

\* The fields of a card that hold addresses.
Fields == {"agent", "payee"}

\* The actions that change the card ...
CardMoves ==
    \/ card' = card \/ card' = Off
    \/ OpenRequest \/ TakeScan \/ OpenSucceeds
    \/ \E t \in Templates : OpenTemplate(t) \/ SelectTemplate(t)
    \/ \E field \in Fields, a \in Addresses \union {NoAddress} : TypeAddress(field, a)
    \/ \E n \in Int : SetDays(n) \/ TypeDate(n)
    \/ \E which \in {"max", "cap"} :
          \/ FinishAmount(which)
          \/ \E direction \in {1, -1} : NudgeAmount(which, direction)
          \/ \E text \in Typed : TypeAmount(which, text)

\* ... the form of rule/new ...
SheetMoves ==
    \/ sheet' = sheet \/ sheet' = Off
    \/ \E t \in Templates : OpenAuthor(t)
    \/ \E row \in shelf : OpenApply(row)
    \/ SourceVanishes \/ SetUpNextRule \/ SheetTakesScan \/ OpenSucceeds
    \/ \E field \in Fields \union {"cap", "max", "days"} : \E v : EditSheet(field, v)

\* ... the renewal screen ...
RenewalMoves ==
    \/ renewal' = renewal \/ renewal' = Off
    \/ renewal' = [on |-> TRUE, base |-> BaselineDraft, draft |-> BaselineDraft]
    \/ \E field \in {"cap", "max", "days"} : \E n : EditDraft(field, n)

\* ... what was scanned ...
ScansMove ==
    \/ staged' = staged \/ staged' = Off
    \/ \E target \in {"agent", "payee", "write"}, a \in Addresses : Scan(target, a)

\* ... the answers of observePresign ...
AnswersMove ==
    \/ observed' = observed \/ observed' = Off
    \/ \E failed : Observe(failed)

\* ... and the hold.
HoldMoves == hold' = hold \/ hold' = Off \/ PressIn

\* What is being opened is what was held.
OpeningMoves ==
    /\ opening' = opening \/ opening' = Off \/ (hold.on /\ opening' = hold)
    /\ opened' = opened \/ OpenSucceeds

\* The clock runs forward.
ClockMoves == time' = time \/ time' = time + 1

\* All of it.
ApprovalMoves ==
    /\ CardMoves /\ SheetMoves /\ RenewalMoves /\ ScansMove
    /\ AnswersMove /\ HoldMoves /\ OpeningMoves /\ ClockMoves

\* Every action of the forms is among them.
LEMMA NextMoves == ASSUME ApprovalNext PROVE ApprovalMoves
  <1> USE DEF ApprovalMoves, SheetMoves, RenewalMoves, ScansMove, AnswersMove, HoldMoves, OpeningMoves,
          ClockMoves, Fields
  <1>1. CASE OpenRequest
    BY <1>1 DEF CardMoves, OpenRequest, Screens
  <1>2. CASE TakeScan
    BY <1>2 DEF CardMoves, TakeScan
  <1>3. CASE ObserveFails
    BY <1>3 DEF CardMoves, ObserveFails
  <1>4. CASE Leave
    BY <1>4 DEF CardMoves, Leave, Screens
  <1>5. ASSUME NEW t \in Templates, OpenTemplate(t) PROVE ApprovalMoves
    BY <1>5 DEF CardMoves, OpenTemplate, Screens
  <1>6. ASSUME NEW t \in Templates, SelectTemplate(t) PROVE ApprovalMoves
    BY <1>6 DEF CardMoves, SelectTemplate, Edited
  <1>7. ASSUME NEW t \in Templates, OpenAuthor(t) PROVE ApprovalMoves
    <2>1. SheetMoves
      BY <1>7 DEF SheetMoves
    <2> QED
      BY <1>7, <2>1 DEF CardMoves, OpenAuthor, Screens
  <1>8. ASSUME NEW target \in {"agent", "payee", "write"}, NEW a \in Addresses, Scan(target, a)
        PROVE ApprovalMoves
    BY <1>8 DEF CardMoves, Scan
  <1>9. ASSUME NEW field \in {"agent", "payee"}, NEW a \in Addresses \union {NoAddress}, TypeAddress(field, a)
        PROVE ApprovalMoves
    BY <1>9 DEF CardMoves, TypeAddress, Edited
  <1>10. ASSUME NEW field \in {"agent", "payee"}, NEW a \in Addresses \union {NoAddress}, EditSheet(field, a)
         PROVE ApprovalMoves
    BY <1>10 DEF CardMoves, EditSheet
  <1>11. ASSUME NEW n \in 0 .. MaxTime + 3, SetDays(n) PROVE ApprovalMoves
    <2>1. n \in Int
      OBVIOUS
    <2>2. CardMoves
      BY <1>11, <2>1 DEF CardMoves
    <2> QED
      BY <1>11, <2>2 DEF SetDays, Edited
  <1>12. ASSUME NEW n \in 0 .. MaxTime + 3, TypeDate(n) PROVE ApprovalMoves
    <2>1. n \in Int
      OBVIOUS
    <2>2. CardMoves
      BY <1>12, <2>1 DEF CardMoves
    <2> QED
      BY <1>12, <2>2 DEF TypeDate, Edited
  <1>13. ASSUME NEW which \in {"max", "cap"}, FinishAmount(which) PROVE ApprovalMoves
    BY <1>13 DEF CardMoves, FinishAmount
  <1>14. ASSUME NEW which \in {"max", "cap"}, NEW direction \in {1, -1}, NudgeAmount(which, direction)
         PROVE ApprovalMoves
    BY <1>14 DEF CardMoves, NudgeAmount, Edited
  <1>15. ASSUME NEW which \in {"max", "cap"}, NEW text \in Typed, TypeAmount(which, text)
         PROVE ApprovalMoves
    BY <1>15 DEF CardMoves, TypeAmount, Edited
  <1>16. ASSUME NEW failed \in {"mint", "network", "sol", "payee", "nothing"}, Observe(failed)
         PROVE ApprovalMoves
    BY <1>16 DEF CardMoves, Observe
  <1>17. CASE OpenRenewal
    BY <1>17 DEF CardMoves, OpenRenewal, Screens
  <1>18. CASE BaselineMoves
    BY <1>18 DEF CardMoves, BaselineMoves
  <1>19. CASE SetUpNextRule
    BY <1>19 DEF CardMoves, SetUpNextRule, Screens
  <1>20. CASE SourceVanishes
    <2>1. SheetMoves
      BY <1>20 DEF SheetMoves
    <2> QED
      BY <1>20, <2>1 DEF CardMoves, SourceVanishes, Screens
  <1>21. CASE SheetTakesScan
    BY <1>21 DEF CardMoves, SheetTakesScan
  <1>22. ASSUME NEW field \in {"cap", "max", "days"}, NEW n \in 0 .. 2, EditDraft(field, n)
         PROVE ApprovalMoves
    BY <1>22 DEF CardMoves, EditDraft
  <1>23. ASSUME NEW field \in {"cap", "max", "days"}, NEW n \in 0 .. 2, EditSheet(field, n)
         PROVE ApprovalMoves
    BY <1>23 DEF CardMoves, EditSheet
  <1>24. ASSUME NEW row \in shelf, OpenApply(row) PROVE ApprovalMoves
    <2>1. SheetMoves
      BY <1>24 DEF SheetMoves
    <2> QED
      BY <1>24, <2>1 DEF CardMoves, OpenApply, Screens
  <1>25. CASE BeginSave
    BY <1>25 DEF CardMoves, BeginSave
  <1>26. ASSUME NEW save \in saving, EndSave(save) PROVE ApprovalMoves
    BY <1>26 DEF CardMoves, EndSave
  <1>27. CASE PressIn
    BY <1>27 DEF CardMoves, PressIn
  <1>28. CASE Release
    BY <1>28 DEF CardMoves, Release
  <1>29. CASE HoldCompletes
    BY <1>29 DEF CardMoves, HoldCompletes
  <1>30. CASE OpenSucceeds
    BY <1>30 DEF CardMoves, OpenSucceeds
  <1>31. CASE OpenFails
    BY <1>31 DEF CardMoves, OpenFails
  <1>32. ASSUME NEW m \in Mints, ShowRule(m) PROVE ApprovalMoves
    BY <1>32 DEF CardMoves, ShowRule
  <1>33. ASSUME NEW m \in Mints, Spend(m) PROVE ApprovalMoves
    BY <1>33 DEF CardMoves, Spend
  <1>34. CASE DayPasses
    BY <1>34 DEF CardMoves, DayPasses
  <1> QED
    BY <1>1, <1>2, <1>3, <1>4, <1>5, <1>6, <1>7, <1>8, <1>9, <1>10, <1>11, <1>12, <1>13,
       <1>14, <1>15, <1>16, <1>17, <1>18, <1>19, <1>20, <1>21, <1>22, <1>23, <1>24, <1>25,
       <1>26, <1>27, <1>28, <1>29, <1>30, <1>31, <1>32, <1>33, <1>34 DEF ApprovalNext

-----------------------------------------------------------------------------
(* Every part stays as the invariant says. *)

\* The parts of the invariant.
CardPart == card = Off \/ CardIsSound(card)
SheetPart == sheet = Off \/ KeepsTheParties(sheet)
RenewalPart == renewal = Off \/ DraftKeepsTheParties(renewal)
ScanPart == staged = Off \/ (staged.value \in Addresses /\ staged.target \in {"agent", "payee", "write"})
AnswerPart == observed = Off \/ observed.value.payee = observed.key.payee

HoldPart ==
    /\ hold = Off \/ HoldIsSound(hold)
    /\ opening = Off \/ HoldIsSound(opening)
    /\ \A o \in opened : HoldIsSound(o) /\ o.args.max <= o.args.cap

\* The inductive invariant.
ApprovalInv ==
    /\ time \in Nat
    /\ CardPart /\ SheetPart /\ RenewalPart /\ ScanPart /\ AnswerPart /\ HoldPart

\* The card stays sound whatever is tapped, typed, scanned or opened.
LEMMA CardStep ==
    ASSUME CardPart, ScanPart, CardMoves, time \in Nat
    PROVE  CardPart'
  <1>1. CASE card' = card \/ card' = Off
    BY <1>1 DEF CardPart
  <1>2. CASE OpenRequest
    <2>1. PICK t : t = CHOOSE x \in Templates : TRUE
      OBVIOUS
    <2>2. t \in Templates /\ Request.agent \in Someone
      BY <2>1, ApprovalAssumption DEF Someone
    <2>3. card' = NewCard(TRUE, t, Request.agent)
      BY <1>2, <2>1 DEF OpenRequest, Screens
    <2> QED
      BY <2>2, <2>3, NewCardIsSound DEF CardPart
  <1>4. CASE TakeScan
    <2>1. CardIsSound(card) /\ ~card.request /\ staged.value \in Someone
      BY <1>4 DEF TakeScan, CardPart, ScanPart, Off, Someone
    <2>2. PICK v, y : v = staged.value /\ card' = y /\ (y = [card EXCEPT !.agent = v] \/ y = [card EXCEPT !.payee = v])
      BY <1>4 DEF TakeScan
    <2>3. CardIsSound(y)
      BY <2>1, <2>2, PartyKeepsSound
    <2> QED
      BY <2>2, <2>3 DEF CardPart
  <1>5. CASE OpenSucceeds
    <2>1. CASE card.on
      <3>1. PICK y, ch : y = [card EXCEPT !.done = TRUE] /\ card' = y /\ ch = [kind |-> "days", days |-> 0]
        BY <1>5, <2>1 DEF OpenSucceeds
      <3>2. ch \in EndChoices
        BY <3>1 DEF EndChoices
      <3>3. CardIsSound(card)
        BY <2>1 DEF CardPart, Off
      <3>4. CardIsSound(y)
        BY <3>1, <3>2, <3>3, ChoiceKeepsSound
      <3> QED
        BY <3>1, <3>4 DEF CardPart
    <2>2. CASE ~card.on
      BY <1>5, <2>2 DEF OpenSucceeds, CardPart
    <2> QED
      BY <2>1, <2>2
  <1>6. ASSUME NEW t \in Templates, OpenTemplate(t) PROVE CardPart'
    <2>1. PICK c : c = NewCard(FALSE, t, NoAddress)
      OBVIOUS
    <2>2. CardIsSound(c) /\ ~c.request
      BY <2>1, NewCardIsSound DEF Someone
    <2>3. PICK v : v = staged.value
      OBVIOUS
    <2>4. /\ v \in Someone \/ card' = c
          /\ card' \in {c, [c EXCEPT !.agent = v], [c EXCEPT !.payee = v]}
      <3>1. CASE staged.on
        <4>1. v \in Someone
          BY <2>3, <3>1 DEF ScanPart, Off, Someone
        <4> QED
          BY <1>6, <2>1, <2>3, <4>1 DEF OpenTemplate, Screens
      <3>2. CASE ~staged.on
        BY <1>6, <2>1, <3>2 DEF OpenTemplate, Screens
      <3> QED
        BY <3>1, <3>2
    <2>5. PICK y : card' = y
      OBVIOUS
    <2>6. CardIsSound(y)
      <3>1. CASE y = c
        BY <2>2, <3>1
      <3>2. CASE y # c
        BY <2>2, <2>4, <2>5, <3>2, PartyKeepsSound
      <3> QED
        BY <3>1, <3>2
    <2> QED
      BY <2>5, <2>6 DEF CardPart
  <1>7. ASSUME NEW t \in Templates, SelectTemplate(t) PROVE CardPart'
    <2>1. CardIsSound(card) /\ ~card.request
      BY <1>7 DEF SelectTemplate, CardPart, Off
    <2>2. PICK y : /\ y = [card EXCEPT !.template = t, !.choice = [kind |-> "days", days |-> t.days],
                           !.draft = [max |-> None, cap |-> None], !.cap = None, !.max = None]
                   /\ card' = y
      BY <1>7 DEF SelectTemplate, Edited
    <2>3. CardIsSound(y)
      BY <2>1, <2>2, TemplateKeepsSound
    <2> QED
      BY <2>2, <2>3 DEF CardPart
  <1>8. ASSUME NEW field \in Fields, NEW a \in Addresses \union {NoAddress}, TypeAddress(field, a)
        PROVE CardPart'
    <2>1. CardIsSound(card) /\ ~card.request /\ a \in Someone
      BY <1>8 DEF TypeAddress, CardPart, Off, Someone
    <2>2. PICK y : card' = y /\ (y = [card EXCEPT !.agent = a] \/ y = [card EXCEPT !.payee = a])
      <3>1. CASE field = "agent"
        BY <1>8, <3>1 DEF TypeAddress, Edited
      <3>2. CASE field = "payee"
        BY <1>8, <3>2 DEF TypeAddress, Edited
      <3> QED
        BY <3>1, <3>2 DEF Fields
    <2>3. CardIsSound(y)
      BY <2>1, <2>2, PartyKeepsSound
    <2> QED
      BY <2>2, <2>3 DEF CardPart
  <1>9. ASSUME NEW n \in Int, SetDays(n) \/ TypeDate(n) PROVE CardPart'
    <2>1. CardIsSound(card)
      BY <1>9 DEF SetDays, TypeDate, CardPart, Off
    <2>2. CASE card' = card
      BY <2>2 DEF CardPart
    <2>3. CASE card' # card
      <3>1. PICK ch, y : /\ ch = [kind |-> "days", days |-> n] \/ ch = [kind |-> "date", at |-> n]
                         /\ y = [card EXCEPT !.choice = ch] /\ card' = y
        BY <1>9, <2>3 DEF SetDays, TypeDate, Edited
      <3>2. ch \in EndChoices
        BY <3>1 DEF EndChoices
      <3>3. CardIsSound(y)
        BY <2>1, <3>1, <3>2, ChoiceKeepsSound
      <3> QED
        BY <3>1, <3>3 DEF CardPart
    <2> QED
      BY <2>2, <2>3
  <1>10. ASSUME NEW which \in {"max", "cap"}, FinishAmount(which) PROVE CardPart'
    <2>1. CardIsSound(card)
      BY <1>10 DEF FinishAmount, DialsShown, CardPart, Off
    <2>2. PICK y : card' = y /\ (y = [card EXCEPT !.draft.max = None] \/ y = [card EXCEPT !.draft.cap = None])
      <3>1. CASE which = "max"
        BY <1>10, <3>1 DEF FinishAmount
      <3>2. CASE which = "cap"
        BY <1>10, <3>2 DEF FinishAmount
      <3> QED
        BY <3>1, <3>2
    <2>3. CardIsSound(y)
      BY <2>1, <2>2, FinishKeepsSound
    <2> QED
      BY <2>2, <2>3 DEF CardPart
  <1>11. ASSUME NEW which \in {"max", "cap"}, NEW direction \in {1, -1}, NudgeAmount(which, direction)
         PROVE CardPart'
    <2>1. card.on /\ CardIsSound(card) /\ CapNow # None
      BY <1>11 DEF NudgeAmount, DialsShown, CardPart, Off
    <2>2. /\ CapNow \in Int /\ MaxNow \in Int /\ CapCeiling \in Int /\ MaxCeiling \in Int
          /\ Unit[CardMint] \in Nat
      <3>1. CapNow \in Int /\ MaxNow \in Int /\ CapCeiling \in Int
        BY <2>1, AmountsNow
      <3>2. MaxCeiling \in Int
        BY <3>1, ApprovalAssumption DEF MaxCeiling, Least
      <3>3. CardMint \in Mints
        BY ApprovalAssumption DEF CardMint
      <3> QED
        BY <3>1, <3>2, <3>3, ApprovalAssumption
    <2>3. /\ \A x, y \in Int : Stepped(x, y, direction) \in Int
          /\ \A x, y \in Int : Least(x, y) \in Int
      BY <2>2 DEF Stepped, Least, Most
    <2>4. PICK cap, max, y :
             /\ cap \in Int /\ max \in Int /\ card' = y
             /\ y = ApplyLimits([card EXCEPT !.draft = [max |-> None, cap |-> None]], cap, max)
      <3>1. CASE which = "max"
        <4>1. card' = ApplyLimits([card EXCEPT !.draft = [max |-> None, cap |-> None]],
                                  CapNow, Stepped(MaxNow, MaxCeiling, direction))
          BY <1>11, <3>1 DEF NudgeAmount, Edited
        <4>2. Stepped(MaxNow, MaxCeiling, direction) \in Int
          BY <2>2, <2>3
        <4> QED
          BY <2>2, <4>1, <4>2
      <3>2. CASE which = "cap"
        <4>1. PICK k : k = Stepped(CapNow, CapCeiling, direction)
          OBVIOUS
        <4>2. card' = ApplyLimits([card EXCEPT !.draft = [max |-> None, cap |-> None]], k, Least(MaxNow, k))
          BY <1>11, <3>2, <4>1 DEF NudgeAmount, Edited
        <4>3. k \in Int /\ Least(MaxNow, k) \in Int
          BY <2>2, <2>3, <4>1
        <4> QED
          BY <4>2, <4>3
      <3> QED
        BY <3>1, <3>2
    <2>5. CardIsSound(y)
      BY <2>1, <2>4, NudgeKeepsSound
    <2> QED
      BY <2>4, <2>5 DEF CardPart
  <1>12. ASSUME NEW which \in {"max", "cap"}, NEW text \in Typed, TypeAmount(which, text)
         PROVE CardPart'
    <2>1. card.on /\ CardIsSound(card) /\ CapNow # None /\ text \in Nat
      BY <1>12, ApprovalAssumption DEF TypeAmount, DialsShown, CardPart, Off
    <2>2. PICK y : card' = y
      OBVIOUS
    <2>3. CASE which = "max"
      <3>1. PICK c : c = [card EXCEPT !.draft.max = text]
        OBVIOUS
      <3>2. y = IF ParseLimitAmount(text) <= MaxCeiling THEN ApplyLimits(c, CapNow, ParseLimitAmount(text)) ELSE c
        BY <1>12, <2>2, <2>3, <3>1 DEF TypeAmount, Edited
      <3>3. CardIsSound(y)
        BY <2>1, <3>1, <3>2, MaxTypedKeepsSound
      <3> QED
        BY <2>2, <3>3 DEF CardPart
    <2>4. CASE which = "cap"
      <3>1. card' = CapTyped(text)
        <4>1. PICK c, b, k, m :
                 /\ c = [card EXCEPT !.draft.cap = text] /\ b = [c EXCEPT !.draft.max = None]
                 /\ k = ParseLimitAmount(text) /\ m = Least(MaxNow, k)
          OBVIOUS
        <4>2. y = IF k <= CapCeiling THEN ApplyLimits(b, k, m) ELSE c
          BY <1>12, <2>2, <2>4, <4>1 DEF TypeAmount, Edited
        <4>3. CapTyped(text) = IF k <= CapCeiling THEN ApplyLimits(b, k, m) ELSE c
          BY <4>1 DEF CapTyped
        <4> QED
          BY <2>2, <4>2, <4>3
      <3>2. CardIsSound(CapTyped(text))
        BY <2>1, CapTypedKeepsSound
      <3> QED
        BY <3>1, <3>2 DEF CardPart
    <2> QED
      BY <2>3, <2>4
  <1> QED
    BY <1>1, <1>2, <1>4, <1>5, <1>6, <1>7, <1>8, <1>9, <1>10, <1>11, <1>12 DEF CardMoves

\* A form keeps the parties that were not edited, through scans and edits.
LEMMA SheetStep ==
    ASSUME SheetPart, RenewalPart, ScanPart, SheetMoves
    PROVE  SheetPart'
  <1>1. CASE sheet' = sheet \/ sheet' = Off
    BY <1>1 DEF SheetPart
  <1>2. ASSUME NEW d, NEW version, NEW kind \in {"author", "apply", "write"}, NEW y,
               y = NewSheet(kind, d, version), sheet' = y
        PROVE  SheetPart'
    <2>1. KeepsTheParties(y)
      BY <1>2 DEF NewSheet, KeepsTheParties, SheetFields
    <2> QED
      BY <1>2, <2>1 DEF SheetPart
  <1>3. ASSUME NEW t \in Templates, OpenAuthor(t) PROVE SheetPart'
    BY <1>2, <1>3 DEF OpenAuthor, Screens
  <1>4. ASSUME NEW row \in shelf, OpenApply(row) PROVE SheetPart'
    BY <1>2, <1>4 DEF OpenApply, Screens
  <1>5. CASE SourceVanishes
    BY <1>2, <1>5 DEF SourceVanishes, Screens
  <1>6. CASE SetUpNextRule
    <2>1. PICK d, y : d = renewal.draft /\ y = NewSheet("renew", d, 0) /\ sheet' = y
      BY <1>6 DEF SetUpNextRule, Screens
    <2>2. d.agent = Ending.agent /\ d.payee = Ending.payee
      BY <1>6, <2>1 DEF SetUpNextRule, RenewalPart, DraftKeepsTheParties, Off
    <2>3. KeepsTheParties(y)
      BY <2>1, <2>2 DEF NewSheet, KeepsTheParties, SheetFields
    <2> QED
      BY <2>1, <2>3 DEF SheetPart
  <1>7. ASSUME KeepsTheParties(sheet), NEW y, NEW v, NEW field \in Fields \union {"cap", "max", "days"}, sheet' = y,
               y = [sheet EXCEPT ![field] = v, !.kept = @ \ {field}]
        PROVE  SheetPart'
    <2>1. DOMAIN sheet = SheetFields
      BY <1>7 DEF KeepsTheParties
    <2>2. DOMAIN y = SheetFields /\ y.kind = sheet.kind
      BY <1>7, <2>1 DEF SheetFields, Fields
    <2>3. ASSUME NEW f \in Fields, f \in y.kept PROVE f \in sheet.kept /\ y[f] = sheet[f]
      <3>1. y.kept = sheet.kept \ {field}
        BY <1>7, <2>1 DEF SheetFields, Fields
      <3>2. f # field
        BY <2>3, <3>1
      <3>3. y[f] = sheet[f]
        BY <1>7, <2>1, <3>2 DEF SheetFields, Fields
      <3> QED
        BY <2>3, <3>1, <3>3
    <2>4. KeepsTheParties(y)
      BY <1>7, <2>2, <2>3 DEF KeepsTheParties, Fields
    <2> QED
      BY <1>7, <2>4 DEF SheetPart
  <1>8. CASE SheetTakesScan
    <2>1. PICK y, v, field : field = staged.target /\ v = staged.value /\ y = sheet'
      OBVIOUS
    <2>2. KeepsTheParties(sheet) /\ field \in Fields
      <3>1. sheet.on /\ staged.on /\ field # "write"
        BY <1>8, <2>1 DEF SheetTakesScan
      <3>2. KeepsTheParties(sheet)
        BY <3>1 DEF SheetPart, Off
      <3>3. field \in Fields
        BY <2>1, <3>1 DEF ScanPart, Off, Fields
      <3> QED
        BY <3>2, <3>3
    <2>3. y = [sheet EXCEPT ![field] = v, !.kept = @ \ {field}]
      BY <1>8, <2>1 DEF SheetTakesScan
    <2> QED
      BY <1>7, <2>1, <2>2, <2>3
  <1>9. ASSUME NEW field \in Fields \union {"cap", "max", "days"}, NEW v, EditSheet(field, v)
        PROVE SheetPart'
    <2>1. PICK y : y = sheet'
      OBVIOUS
    <2>2. y = [sheet EXCEPT ![field] = v, !.kept = @ \ {field}]
      BY <1>9, <2>1 DEF EditSheet
    <2>3. KeepsTheParties(sheet)
      <3>1. sheet.on
        BY <1>9 DEF EditSheet
      <3> QED
        BY <3>1 DEF SheetPart, Off
    <2> QED
      BY <1>7, <2>1, <2>2, <2>3
  <1>10. CASE OpenSucceeds
    <2>1. CASE sheet.on
      <3>1. PICK y : y = [sheet EXCEPT !.done = TRUE] /\ sheet' = y
        BY <1>10, <2>1 DEF OpenSucceeds
      <3>2. KeepsTheParties(sheet)
        BY <2>1 DEF SheetPart, Off
      <3>3. KeepsTheParties(y)
        BY <3>1, <3>2 DEF KeepsTheParties, SheetFields
      <3> QED
        BY <3>1, <3>3 DEF SheetPart
    <2>2. CASE ~sheet.on
      BY <1>10, <2>2 DEF OpenSucceeds, SheetPart
    <2> QED
      BY <2>1, <2>2
  <1> QED
    BY <1>1, <1>3, <1>4, <1>5, <1>6, <1>8, <1>9, <1>10 DEF SheetMoves

\* The draft of a renewal keeps the parties.
LEMMA RenewalStep ==
    ASSUME RenewalPart, RenewalMoves
    PROVE  RenewalPart'
  <1>1. CASE renewal' = renewal \/ renewal' = Off
    BY <1>1 DEF RenewalPart
  <1>2. CASE renewal' = [on |-> TRUE, base |-> BaselineDraft, draft |-> BaselineDraft]
    <2>1. PICK y : y = [on |-> TRUE, base |-> BaselineDraft, draft |-> BaselineDraft] /\ renewal' = y
      BY <1>2
    <2>2. DraftKeepsTheParties(y)
      BY <2>1 DEF DraftKeepsTheParties, BaselineDraft
    <2> QED
      BY <2>1, <2>2 DEF RenewalPart
  <1>3. ASSUME NEW field \in {"cap", "max", "days"}, NEW n, EditDraft(field, n) PROVE RenewalPart'
    <2>1. PICK y, d : y = renewal' /\ d = renewal.draft
      OBVIOUS
    <2>2. DraftKeepsTheParties(renewal) /\ y = [renewal EXCEPT !.draft[field] = n]
      BY <1>3, <2>1 DEF EditDraft, RenewalPart, Off
    <2>3. DOMAIN y = DOMAIN renewal /\ y.draft = [d EXCEPT ![field] = n]
      BY <2>1, <2>2 DEF DraftKeepsTheParties
    <2>4. DOMAIN y.draft = DOMAIN d /\ y.draft.agent = d.agent /\ y.draft.payee = d.payee
      BY <2>1, <2>2, <2>3 DEF DraftKeepsTheParties
    <2>5. DraftKeepsTheParties(y)
      BY <2>1, <2>2, <2>3, <2>4 DEF DraftKeepsTheParties
    <2> QED
      BY <2>1, <2>5 DEF RenewalPart
  <1> QED
    BY <1>1, <1>2, <1>3 DEF RenewalMoves

\* An answer is about the payee it was asked for.
LEMMA AnswersStep ==
    ASSUME ScanPart, AnswerPart, ScansMove, AnswersMove
    PROVE  ScanPart' /\ AnswerPart'
  <1>1. ScanPart'
    <2>1. ASSUME NEW target \in {"agent", "payee", "write"}, NEW a \in Addresses, Scan(target, a)
          PROVE ScanPart'
      <3>1. staged'.value = a /\ staged'.target = target
        BY <2>1 DEF Scan
      <3> QED
        BY <3>1 DEF ScanPart
    <2>2. CASE staged' = staged
      BY <2>2 DEF ScanPart
    <2>3. CASE staged' = Off
      BY <2>3 DEF ScanPart, Off
    <2> QED
      BY <2>1, <2>2, <2>3 DEF ScansMove
  <1>2. AnswerPart'
    <2>1. ASSUME NEW failed, Observe(failed) PROVE AnswerPart'
      <3>1. observed'.value.payee = reading.key.payee /\ observed'.key = reading.key
        BY <2>1 DEF Observe
      <3> QED
        BY <3>1 DEF AnswerPart
    <2> QED
      BY <2>1 DEF AnswerPart, AnswersMove
  <1> QED
    BY <1>1, <1>2

-----------------------------------------------------------------------------
(* The hold *)

\* What the checks before the hold have established, on a card that is ready.
LEMMA ReadyCardWasChecked ==
    ASSUME AnswerPart, CapNow # None, CanApprove
    PROVE  /\ DecimalsKnown /\ ExpiresAt > card.opened_at
           /\ LiveObservation.on /\ LiveObservation.payee = card.payee /\ LiveObservation.payee_account
           /\ LiveObservation.mint_readable /\ LiveObservation.network /\ LiveObservation.sol
           /\ LiveObservation.balance >= CapNow
  <1>1. PICK v : v = LiveObservation
    OBVIOUS
  <1>2. v.on /\ ExpiresAt > card.opened_at
    BY <1>1 DEF CanApprove
  <1>3. v.mint_readable /\ v.balance >= CapNow /\ v.network /\ v.sol /\ v.payee_account
    <2>1. PICK checks : checks = EvaluatePresign(v, CapNow)
      OBVIOUS
    <2>2. \A id \in DOMAIN checks : checks[id]
      BY <1>1, <2>1 DEF CanApprove
    <2>3. /\ DOMAIN checks = {"tokens", "network", "sol", "payee"}
          /\ checks.tokens = (v.mint_readable /\ v.balance > 0 /\ v.balance >= CapNow)
          /\ checks.network = v.network /\ checks.sol = v.sol /\ checks.payee = v.payee_account
      BY <2>1 DEF EvaluatePresign
    <2> QED
      BY <2>2, <2>3
  <1>4. v.payee = card.payee
    <2>1. observed.on /\ observed.key = ReadKey(card) /\ v = observed.value
      BY <1>1, <1>2 DEF LiveObservation, Off
    <2>2. observed.value.payee = observed.key.payee
      BY <2>1 DEF AnswerPart, Off
    <2>3. ReadKey(card).payee = card.payee
      BY DEF ReadKey
    <2> QED
      BY <2>1, <2>2, <2>3
  <1>5. DecimalsKnown
    BY <1>1, <1>2, <1>3 DEF DecimalsKnown
  <1> QED
    BY <1>1, <1>2, <1>3, <1>4, <1>5

\* The rule ends no later than the request it answers.
LEMMA EndsWithinRequest ==
    ASSUME CardIsSound(card), card.request, ExpiresAt > card.opened_at
    PROVE  ExpiresAt <= RequestCeiling.expires
  <1>1. PICK e, ch, o : e = RequestCeiling.expires /\ ch = card.choice /\ o = card.opened_at
    OBVIOUS
  <1>2. o \in Nat /\ ch \in EndChoices
    BY <1>1 DEF CardIsSound, CardRecord
  <1>3. e = o + Request.days /\ e \in Int
    BY <1>1, <1>2, ApprovalAssumption DEF RequestCeiling, ExpiryFromDays
  <1>4. CASE ch.kind = "date"
    <2>1. ch.at \in Int
      BY <1>2, <1>4 DEF EndChoices
    <2>2. PICK k, x : k = ch.at /\ x = ExpiresAt
      OBVIOUS
    <2>3. x = IF k <= o \/ (card.request /\ k > e) THEN None ELSE k
      BY <1>1, <1>4, <2>2 DEF ExpiresAt, CustomDateWithin
    <2>4. x <= e
      BY <1>1, <1>2, <1>3, <2>1, <2>2, <2>3 DEF None
    <2> QED
      BY <1>1, <2>2, <2>4
  <1>5. CASE ch.kind # "date"
    <2>1. ch.days \in Int
      BY <1>2, <1>5 DEF EndChoices
    <2>2. ExpiresAt = Least(o + ch.days, e)
      BY <1>1, <1>5 DEF ExpiresAt, ExpiryFromDays
    <2> QED
      BY <1>1, <1>2, <1>3, <2>1, <2>2 DEF Least
  <1> QED
    BY <1>4, <1>5

\* The amounts on screen are those the rule is opened with.
LEMMA ShownIsHeld ==
    ASSUME card.on, CardIsSound(card), Ready, DecimalsKnown
    PROVE  /\ CapNow \in 1 .. CeilingOf(card) /\ MaxNow \in Int /\ MaxNow > 0
           /\ CardArgs = Shown
  <1>1. /\ CapNow \in 0 .. CeilingOf(card) /\ CapNow > 0 /\ MaxNow \in Int /\ MaxNow > 0
        /\ CeilingOf(card) \in Nat
        /\ CapCeiling = CeilingOf(card) /\ MaxCeiling = MaxCeilingOf(card)
    BY AmountsNow DEF Ready, AmountsReady
  <1>2. ~AmountError("max") /\ ~AmountError("cap")
    BY DEF Ready, AmountsReady
  <1>3. card.draft.cap # None => ParseLimitAmount(card.draft.cap) = CapNow
    <2> SUFFICES ASSUME card.draft.cap # None PROVE ParseLimitAmount(card.draft.cap) = CapNow
      OBVIOUS
    <2>1. ~(ParseLimitAmount(card.draft.cap) > CeilingOf(card))
      BY <1>1, <1>2 DEF AmountError
    <2>2. card.cap = ParseLimitAmount(card.draft.cap) /\ card.draft.cap \in Nat
      BY <2>1 DEF CardIsSound
    <2>3. card.cap # None
      BY <2>2, AmountsAreNat DEF None
    <2> QED
      BY <2>2, <2>3 DEF CapNow
  <1>4. card.draft.max # None => ParseLimitAmount(card.draft.max) = MaxNow
    <2> SUFFICES ASSUME card.draft.max # None PROVE ParseLimitAmount(card.draft.max) = MaxNow
      OBVIOUS
    <2>1. ~(ParseLimitAmount(card.draft.max) > MaxCeilingOf(card))
      BY <1>1, <1>2 DEF AmountError
    <2>2. card.max = ParseLimitAmount(card.draft.max) /\ card.draft.max \in Nat
      BY <2>1 DEF CardIsSound
    <2>3. card.max # None
      BY <2>2, AmountsAreNat DEF None
    <2> QED
      BY <2>2, <2>3 DEF MaxNow
  <1>5. CardArgs = Shown
    BY <1>3, <1>4 DEF CardArgs, Shown
  <1> QED
    BY <1>1, <1>5

\* What a hold captures is sound, on a card and on a form.
LEMMA PressIsSound ==
    ASSUME CardPart, SheetPart, AnswerPart, PressIn
    PROVE  HoldIsSound(hold')
  <1>1. ASSUME card.on, Ready, NEW h,
               h = [on |-> TRUE, form |-> IF card.request THEN "request" ELSE "template",
                    args |-> CardArgs, shown |-> Shown, seen |-> LiveObservation,
                    ceiling |-> IF card.request THEN RequestCeiling.expires ELSE None,
                    scale |-> Mint, kept |-> {}]
        PROVE  HoldIsSound(h)
    <2>1. CardIsSound(card) /\ CapNow # None /\ MaxNow # None /\ CanApprove
      BY <1>1 DEF CardPart, Off, Ready
    <2>2. PICK v, a : v = LiveObservation /\ a = CardArgs
      OBVIOUS
    <2>3. /\ DecimalsKnown /\ ExpiresAt > card.opened_at
          /\ v.on /\ v.payee = card.payee /\ v.payee_account /\ v.mint_readable /\ v.network /\ v.sol
          /\ v.balance >= CapNow
      BY <2>1, <2>2, ReadyCardWasChecked
    <2>4. CapNow \in 1 .. CeilingOf(card) /\ MaxNow \in Int /\ MaxNow > 0 /\ a = Shown
      BY <1>1, <2>1, <2>2, <2>3, ShownIsHeld
    <2>5. /\ a.agent = card.agent /\ a.payee = card.payee /\ a.mint = CardMint
          /\ a.cap = CapNow /\ a.max = MaxNow /\ a.until = ExpiresAt
      BY <2>2 DEF CardArgs
    <2>6. /\ h.form = (IF card.request THEN "request" ELSE "template") /\ h.args = a /\ h.shown = a
          /\ h.seen = v /\ h.ceiling = (IF card.request THEN RequestCeiling.expires ELSE None)
      BY <1>1, <2>2, <2>4
    <2>7. card.request =>
             /\ a.agent = Request.agent /\ a.payee = Request.payee /\ a.mint = Request.mint
             /\ a.cap \in 1 .. Request.cap /\ a.max \in 1 .. Request.max /\ a.until <= RequestCeiling.expires
      <3> SUFFICES ASSUME card.request
                  
PROVE  /\ a.agent = Request.agent /\ a.payee = Request.payee /\ a.mint = Request.mint
                          /\ a.cap \in 1 .. Request.cap /\ a.max \in 1 .. Request.max
                          /\ a.until <= RequestCeiling.expires
        OBVIOUS
      <3>1. a.agent = Request.agent /\ a.payee = Request.payee /\ card.max \in 0 .. Request.max
        BY <2>1, <2>5 DEF CardIsSound
      <3>2. a.mint = Request.mint
        BY <2>5 DEF CardMint
      <3>3. a.cap \in 1 .. Request.cap
        BY <2>4, <2>5 DEF CeilingOf
      <3>4. a.max \in 1 .. Request.max
        BY <2>4, <2>5, <3>1, ApprovalAssumption DEF MaxNow, None
      <3>5. a.until <= RequestCeiling.expires
        BY <2>1, <2>3, <2>5, EndsWithinRequest
      <3> QED
        BY <3>1, <3>2, <3>3, <3>4, <3>5
    <2> QED
      BY <2>3, <2>5, <2>6, <2>7 DEF HoldIsSound
  <1>2. ASSUME sheet.on, NEW h,
               h = [on |-> TRUE, form |-> sheet.kind, args |-> SheetArgs, shown |-> SheetShown,
                    seen |-> Off, ceiling |-> None, scale |-> decimalsOf, kept |-> sheet.kept]
        PROVE  HoldIsSound(h)
    <2>1. KeepsTheParties(sheet)
      BY <1>2 DEF SheetPart, Off
    <2>2. decimalsOf = Mint => SheetArgs = SheetShown
      BY DEF SheetArgs, SheetShown
    <2>3. SheetArgs.agent = sheet.agent /\ SheetArgs.payee = sheet.payee
      BY DEF SheetArgs
    <2>4. /\ h.form = sheet.kind /\ h.args = SheetArgs /\ h.shown = SheetShown
          /\ h.scale = decimalsOf /\ h.kept = sheet.kept
      BY <1>2
    <2> QED
      BY <2>1, <2>2, <2>3, <2>4 DEF HoldIsSound, KeepsTheParties
  <1> QED
    BY <1>1, <1>2 DEF PressIn

\* What was captured is what is opened; the chain refuses a payment above the total.
LEMMA HoldStep ==
    ASSUME CardPart, SheetPart, AnswerPart, HoldPart, HoldMoves, OpeningMoves
    PROVE  HoldPart'
  <1>1. hold' = Off \/ HoldIsSound(hold')
    BY PressIsSound DEF HoldMoves, HoldPart
  <1>2. opening' = Off \/ HoldIsSound(opening')
    BY DEF OpeningMoves, HoldPart, Off
  <1>3. ASSUME NEW o \in opened' PROVE HoldIsSound(o) /\ o.args.max <= o.args.cap
    <2>1. CASE o \in opened
      BY <2>1 DEF HoldPart
    <2>2. CASE o \notin opened
      <3>1. OpenSucceeds
        BY <1>3, <2>2 DEF OpeningMoves
      <3>2. o = opening /\ opening.on /\ MayOpen(opening.args)
        BY <1>3, <2>2, <3>1 DEF OpenSucceeds
      <3>3. HoldIsSound(o)
        BY <3>2 DEF HoldPart, Off
      <3> QED
        BY <3>2, <3>3 DEF MayOpen
    <2> QED
      BY <2>1, <2>2
  <1> QED
    BY <1>1, <1>2, <1>3 DEF HoldPart

-----------------------------------------------------------------------------
(* The theorem *)

\* Nothing is on screen at first.
LEMMA ApprovalStarts == ASSUME ApprovalInit PROVE ApprovalInv
  BY DEF ApprovalInit, ApprovalInv, CardPart, SheetPart, RenewalPart, ScanPart, AnswerPart, HoldPart

\* Every step keeps the invariant.
LEMMA ApprovalKeeps ==
    ASSUME ApprovalInv, [ApprovalNext]_approvalVars
    PROVE  ApprovalInv'
  <1>1. CASE UNCHANGED approvalVars
    BY <1>1 DEF approvalVars, ApprovalInv, CardPart, SheetPart, RenewalPart, ScanPart, AnswerPart, HoldPart
  <1>2. CASE ApprovalNext
    <2>1. ApprovalMoves
      BY <1>2, NextMoves
    <2>2. time' \in Nat
      BY <2>1 DEF ApprovalMoves, ClockMoves, ApprovalInv
    <2>3. CardPart'
      BY <2>1, CardStep DEF ApprovalMoves, ApprovalInv
    <2>4. SheetPart'
      BY <2>1, SheetStep DEF ApprovalMoves, ApprovalInv
    <2>5. RenewalPart'
      BY <2>1, RenewalStep DEF ApprovalMoves, ApprovalInv
    <2>6. ScanPart' /\ AnswerPart'
      BY <2>1, AnswersStep DEF ApprovalMoves, ApprovalInv
    <2>7. HoldPart'
      BY <2>1, HoldStep DEF ApprovalMoves, ApprovalInv
    <2> QED
      BY <2>2, <2>3, <2>4, <2>5, <2>6, <2>7 DEF ApprovalInv
  <1> QED
    BY <1>1, <1>2

\* ApprovalInv is inductive, whatever the owner does with the forms in whatever order
\* (ApprovalScreen, rule/new and the renewal screen).
THEOREM ApprovalInvariant == ApprovalSpec => []ApprovalInv
  <1>1. ApprovalInit => ApprovalInv
    BY ApprovalStarts
  <1>2. ApprovalInv /\ [ApprovalNext]_approvalVars => ApprovalInv'
    BY ApprovalKeeps
  <1> QED
    BY <1>1, <1>2, PTL DEF ApprovalSpec

\* RulesAreOpenedAsShown: a rule is within the request it answers, is what was on screen when
\* the finger went down, was checked for its own payee, and a renewal keeps its parties
\* (clampToRequest, customDateWithin, typeAmount, liveObservation, renewalSearchParams).
THEOREM OpensAsShown == ApprovalSpec => []RulesAreOpenedAsShown
  <1>1. ASSUME HoldPart, NEW o \in opened
        PROVE  HoldIsSound(o) /\ o.args.max <= o.args.cap
    BY <1>1 DEF HoldPart
  <1>2. HoldPart => OpenedWithinRequest
    <2> SUFFICES ASSUME HoldPart, NEW o \in opened, o.form = "request"
                 PROVE  /\ o.args.agent = Request.agent /\ o.args.payee = Request.payee
                        /\ o.args.mint = Request.mint
                        /\ o.args.cap \in 1 .. Request.cap
                        /\ o.args.max \in 1 .. Least(Request.max, o.args.cap)
                        /\ o.args.until <= o.ceiling
      BY DEF OpenedWithinRequest
    <2>1. HoldIsSound(o) /\ o.args.max <= o.args.cap
      BY <1>1
    <2> QED
      BY <2>1, ApprovalAssumption DEF HoldIsSound, Least
  <1>3. HoldPart => OpenedAsShown
    BY <1>1 DEF OpenedAsShown, HoldIsSound
  <1>4. HoldPart => OpenedWasChecked
    BY <1>1 DEF OpenedWasChecked, HoldIsSound
  <1>5. HoldPart => RenewalKeepsTheParties
    BY <1>1 DEF RenewalKeepsTheParties, HoldIsSound
  <1>6. ApprovalInv => RulesAreOpenedAsShown
    BY <1>2, <1>3, <1>4, <1>5 DEF ApprovalInv, RulesAreOpenedAsShown
  <1> QED
    BY <1>6, ApprovalInvariant, PTL

-----------------------------------------------------------------------------
(* Numbers                                                                 *)

\* A division rounded up is the least number that covers.
LEMMA CeilDivLeast ==
    ASSUME NEW a \in Nat, NEW b \in Nat \ {0}
    PROVE  /\ CeilDiv(a, b) \in Nat
           /\ CeilDiv(a, b) * b >= a
           /\ \A c \in Nat : c * b >= a => CeilDiv(a, b) <= c
  <1> DEFINE q == (a + b - 1) \div b
             r == (a + b - 1) % b
  <1>1. /\ a + b - 1 \in Nat /\ q \in Int /\ r \in 0 .. b - 1
        /\ a + b - 1 = b * q + r
    OBVIOUS
  <1>2. CeilDiv(a, b) = q
    BY DEF CeilDiv
  <1> HIDE DEF q, r
  <1>3. q * b = b * q /\ b * q \in Int
    BY <1>1
  <1>4. q >= 0
    <2>1. SUFFICES ASSUME q <= -1 PROVE FALSE
      BY <1>1
    <2>2. b * q <= b * (-1)
      BY <1>1, <2>1
    <2> QED BY <1>1, <1>3, <2>2
  <1>5. q * b >= a
    BY <1>1, <1>3
  <1>6. ASSUME NEW c \in Nat, c * b >= a PROVE q <= c
    <2>1. SUFFICES ASSUME q >= c + 1 PROVE FALSE
      BY <1>1
    <2>2. b * q >= b * (c + 1)
      BY <1>1, <2>1
    <2>3. b * (c + 1) = c * b + b /\ c * b \in Int
      OBVIOUS
    <2> QED BY <1>1, <1>3, <1>6, <2>2, <2>3
  <1> QED
    BY <1>1, <1>2, <1>4, <1>5, <1>6

\* A division rounded down is the greatest number that is covered.
LEMMA DivGreatest ==
    ASSUME NEW a \in Nat, NEW b \in Nat \ {0}
    PROVE  a \div b \in Nat /\ (a \div b) * b <= a /\ a < (a \div b + 1) * b
  <1> DEFINE q == a \div b
             r == a % b
  <1>1. q \in Int /\ r \in 0 .. b - 1 /\ a = b * q + r
    OBVIOUS
  <1> HIDE DEF q, r
  <1>2. q * b = b * q /\ b * q \in Int /\ (q + 1) * b = b * q + b
    BY <1>1
  <1>3. q >= 0
    <2>1. SUFFICES ASSUME q <= -1 PROVE FALSE
      BY <1>1
    <2>2. b * q <= b * (-1)
      BY <1>1, <2>1
    <2> QED BY <1>1, <1>2, <2>2
  <1>4. q \in Nat /\ q * b <= a /\ a < (q + 1) * b
    BY <1>1, <1>2, <1>3
  <1> QED
    BY <1>4 DEF q

\* A factor of both sides of an inequality may be left out.
LEMMA LargerFactor ==
    ASSUME NEW a \in Nat, NEW b \in Nat, NEW c \in Nat
    PROVE  a <= b => a * c <= b * c /\ a * c \in Nat /\ b * c \in Nat
  OBVIOUS

\* A factor both sides share does not decide between them.
LEMMA SmallerFactor ==
    ASSUME NEW a \in Nat, NEW b \in Nat, NEW c \in Nat \ {0}, a * c <= b * c
    PROVE  a <= b
  <1>1. SUFFICES ASSUME a >= b + 1 PROVE FALSE
    OBVIOUS
  <1>2. a * c >= (b + 1) * c /\ (b + 1) * c = b * c + c
    BY <1>1
  <1>3. a * c \in Nat /\ b * c \in Nat
    OBVIOUS
  <1> QED
    BY <1>2, <1>3

-----------------------------------------------------------------------------
(* The swap                                                                *)

PoolReserves == {p \in [in : Nat, out : Nat] : p.in = 0 <=> p.out = 0}

\* Fees are whole, and at least one unit each.
LEMMA FeesAreWhole ==
    ASSUME NEW amount \in Nat
    PROVE  /\ TradeFee(amount) \in Nat \ {0} /\ OwnerFee(amount) \in Nat \ {0}
           /\ InputAfterFees(amount) \in Nat
           /\ InputAfterFees(amount) > 0 =>
                /\ amount > TradeFee(amount) + OwnerFee(amount)
                /\ InputAfterFees(amount) = amount - TradeFee(amount) - OwnerFee(amount)
  <1>1. amount * TRADE_FEE_NUM \in Nat /\ amount * OWNER_TRADE_FEE_NUM \in Nat
    BY TradeFees
  <1>2. /\ (amount * TRADE_FEE_NUM) \div FEE_DEN \in Nat
        /\ (amount * OWNER_TRADE_FEE_NUM) \div FEE_DEN \in Nat
    BY <1>1, DivGreatest, TradeFees
  <1>3. TradeFee(amount) \in Nat \ {0} /\ OwnerFee(amount) \in Nat \ {0}
    BY <1>2 DEF TradeFee, OwnerFee, Larger
  <1> QED
    BY <1>3 DEF InputAfterFees

\* The quote of the program against the curve of the exchange: with x and y in the pool and n
\* put in, the exchange keeps the least whole number that holds x * y, so it gives at least
\* the quote rounded down, and takes no more than n for it.
LEMMA CurveGivesTheQuote ==
    ASSUME NEW x \in Nat \ {0}, NEW y \in Nat \ {0}, NEW n \in Nat \ {0},
           NEW left, left = CeilDiv(x * y, x + n),
           NEW taken, taken = CeilDiv(x * y, left) - x
    PROVE  /\ left \in Nat \ {0}
           /\ y - left >= (n * y) \div (x + n)
           /\ taken \in 0 .. n
  <1> DEFINE k == x * y
             d == x + n
             q == (n * y) \div d
  <1>1. k \in Nat \ {0} /\ d \in Nat \ {0} /\ n * y \in Nat
    <2>1. x * y >= 1
      BY SMT
    <2> QED BY <2>1
  <1>2. left \in Nat /\ left * d >= k /\ \A c \in Nat : c * d >= k => left <= c
    BY <1>1, CeilDivLeast
  <1>3. left # 0
    BY <1>1, <1>2
  <1>4. q \in Nat /\ q * d <= n * y
    BY <1>1, DivGreatest
  <1>5. y * d = k + n * y /\ y * d \in Nat
    BY SMT
  <1> HIDE DEF k, d, q
  <1>6. q <= y
    <2>1. q * d <= y * d
      BY <1>1, <1>4, <1>5
    <2> QED BY <1>1, <1>4, <2>1, SmallerFactor
  <1>7. left <= y - q
    <2>1. (y - q) * d = y * d - q * d /\ q * d \in Nat
      BY <1>1, <1>4
    <2>2. (y - q) * d >= k
      BY <1>1, <1>4, <1>5, <2>1
    <2>3. y - q \in Nat
      BY <1>4, <1>6
    <2> QED BY <1>2, <2>2, <2>3
  <1>8. taken \in 0 .. n
    <2> DEFINE all == CeilDiv(k, left)
    <2>1. all \in Nat /\ all * left >= k /\ \A c \in Nat : c * left >= k => all <= c
      BY <1>1, <1>2, <1>3, CeilDivLeast
    <2>2. taken = all - x
      BY DEF k
    <2> HIDE DEF all
    <2>3. all <= d
      <3>1. d * left = left * d
        BY <1>1, <1>2
      <3> QED BY <1>1, <1>2, <2>1, <3>1
    <2>4. x <= all
      <3>1. left <= y
        BY <1>2, <1>4, <1>7
      <3>2. x * left <= x * y
        BY <1>2, <3>1
      <3>3. x * left <= all * left
        <4>1. x * left \in Nat /\ all * left \in Nat
          BY <1>2, <2>1
        <4> QED BY <1>1, <2>1, <3>2, <4>1 DEF k
      <3> QED BY <1>2, <1>3, <2>1, <3>3, SmallerFactor
    <2>5. d = x + n
      BY DEF d
    <2> QED BY <2>1, <2>2, <2>3, <2>4, <2>5
  <1>9. y - left >= q
    BY <1>2, <1>4, <1>7
  <1> QED
    BY <1>2, <1>3, <1>8, <1>9 DEF q, d

\* What an attempt that cleared the floor before the swap gets from it.
LEMMA SwapClearsTheFloor ==
    ASSUME NEW amount \in Nat \ {0}, pool \in PoolReserves,
           rule.floor_num \in Nat \ {0}, rule.floor_den \in Nat \ {0},
           ~SpotBelowFloor(amount)
    PROVE  /\ amount > TradeFee(amount) + OwnerFee(amount)
           /\ Swap(amount).debit \in 1 .. amount
           /\ Swap(amount).out \in Nat \ {0}
           /\ Swap(amount).out >= FloorBound(amount)
           /\ Swap(amount).out * rule.floor_den >= Swap(amount).debit * rule.floor_num
           /\ [in |-> pool.in + Swap(amount).debit, out |-> pool.out - Swap(amount).out]
                 \in PoolReserves
  <1> DEFINE x == pool.in
             y == pool.out
             n == InputAfterFees(amount)
             fn == rule.floor_num
             fd == rule.floor_den
             tf == TradeFee(amount)
             of == OwnerFee(amount)
             q == (n * y) \div (x + n)
             left == CeilDiv(x * y, x + n)
             taken == CeilDiv(x * y, left) - x
             debit == taken + tf + of
  <1>1. /\ x \in Nat /\ y \in Nat /\ (x = 0 <=> y = 0) /\ fn \in Nat \ {0} /\ fd \in Nat \ {0}
        /\ n \in Nat /\ tf \in Nat \ {0} /\ of \in Nat \ {0}
    BY FeesAreWhole DEF PoolReserves
  <1>2. x + n # 0 /\ ~(q * fd < amount * fn)
    BY DEF SpotBelowFloor
  <1>3. n > 0 => amount > tf + of /\ n = amount - tf - of
    BY FeesAreWhole
  <1>4. Swap(amount) = [debit |-> CeilDiv(x * y, CeilDiv(x * y, x + (amount - tf - of))) - x
                                    + tf + of,
                        out |-> y - CeilDiv(x * y, x + (amount - tf - of))]
    BY DEF Swap
  <1>5. FloorBound(amount) = CeilDiv(amount * fn, fd)
    BY DEF FloorBound
  <1> HIDE DEF x, y, n, fn, fd, tf, of
  <1>6. amount * fn \in Nat \ {0}
    <2>1. amount * fn >= 1
      BY <1>1
    <2> QED BY <1>1, <2>1
  <1>7. x \in Nat \ {0} /\ y \in Nat \ {0} /\ n \in Nat \ {0}
    <2>1. x + n \in Nat \ {0} /\ 0 \div (x + n) = 0
      BY <1>1, <1>2
    <2>2. ASSUME n * y = 0 PROVE FALSE
      <3>1. q = 0
        BY <2>1, <2>2
      <3>2. q * fd = 0
        BY <1>1, <3>1
      <3> QED BY <1>2, <1>6, <3>2
    <2>3. n # 0 /\ y # 0
      BY <1>1, <2>2
    <2> QED BY <1>1, <2>3
  <1>8. left \in Nat \ {0} /\ y - left >= q /\ taken \in 0 .. n
    BY <1>7, CurveGivesTheQuote
  <1>9. q \in Nat
    BY <1>7, DivGreatest
  <1>10. /\ Swap(amount) = [debit |-> debit, out |-> y - left]
         /\ amount > tf + of
         /\ debit \in 1 .. amount
    <2>1. amount > tf + of /\ n = amount - tf - of /\ x + (amount - tf - of) = x + n
      BY <1>1, <1>3, <1>7
    <2> HIDE DEF left
    <2>2. debit \in 1 .. amount
      BY <1>1, <1>8, <2>1
    <2> QED BY <1>4, <2>1, <2>2 DEF left
  <1> HIDE DEF q, left, taken, debit
  <1>11. q * fd >= amount * fn /\ q * fd \in Nat
    BY <1>1, <1>2, <1>6, <1>9 DEF q
  <1>12. q # 0
    BY <1>1, <1>6, <1>11
  <1>13. y - left \in Nat /\ FloorBound(amount) <= q
    BY <1>1, <1>5, <1>6, <1>8, <1>9, <1>11, CeilDivLeast
  <1>14. FloorBound(amount) \in Nat
    BY <1>1, <1>5, <1>6, CeilDivLeast
  <1>15. (y - left) * fd >= debit * fn
    <2>1. (y - left) * fd >= q * fd /\ (y - left) * fd \in Nat
      BY <1>1, <1>8, <1>9, <1>13, LargerFactor
    <2>2. debit * fn <= amount * fn /\ debit * fn \in Nat
      BY <1>1, <1>10, LargerFactor
    <2> QED BY <1>6, <1>11, <2>1, <2>2
  <1>16. [in |-> x + debit, out |-> y - (y - left)] \in PoolReserves
    BY <1>1, <1>7, <1>8, <1>10 DEF PoolReserves
  <1>17. y - left >= FloorBound(amount) /\ y - left \in Nat \ {0}
    BY <1>8, <1>9, <1>12, <1>13, <1>14
  <1> QED
    BY <1>10, <1>15, <1>16, <1>17 DEF x, y, fn, fd, tf, of

-----------------------------------------------------------------------------
(* The floor read from the pool                                            *)

\* The greatest common divisor divides.
LEMMA GcdDivides ==
    ASSUME NEW a \in Nat \ {0}, NEW b \in Nat \ {0}, NEW d, d = Gcd(a, b)
    PROVE  /\ d \in Nat \ {0} /\ a \div d \in Nat /\ b \div d \in Nat
           /\ a = d * (a \div d) /\ b = d * (b \div d)
  <1> DEFINE S == {e \in 1 .. Larger(a, b) : a % e = 0 /\ b % e = 0}
  <1>1. Larger(a, b) \in Nat \ {0}
    BY DEF Larger
  <1>2. IsFiniteSet(S) /\ S \subseteq Int
    <2>1. IsFiniteSet(1 .. Larger(a, b)) /\ 1 .. Larger(a, b) \subseteq Int
      BY <1>1, FS_Interval
    <2>2. S \subseteq 1 .. Larger(a, b)
      OBVIOUS
    <2> HIDE DEF S
    <2> QED BY <2>1, <2>2, FS_Subset
  <1>3. a % 1 = 0 /\ b % 1 = 0
    OBVIOUS
  <1>4. 1 \in S
    BY <1>1, <1>3
  <1>5. d \in S
    <2> HIDE DEF S
    <2>1. Max(S) \in S
      BY <1>2, <1>4, Greatest
    <2> QED BY <2>1 DEF Gcd, S
  <1>6. d \in Nat \ {0} /\ a % d = 0 /\ b % d = 0
    BY <1>1, <1>5
  <1>7. a = d * (a \div d) + (a % d) /\ b = d * (b \div d) + (b % d)
    BY <1>6
  <1>8. a \div d \in Nat /\ b \div d \in Nat
    BY <1>6, DivGreatest
  <1>9. d * (a \div d) + 0 = d * (a \div d) /\ d * (b \div d) + 0 = d * (b \div d)
    BY <1>6, <1>8
  <1> QED
    BY <1>6, <1>7, <1>8, <1>9

\* The floor of a rule is at most the chosen percentage of the rate, and by less than one
\* unit of output per pool below it.
FloorIsFair(f, in, out, percent) ==
    /\ f.num * 100 * in <= percent * out * f.den
    /\ (f.num * in + f.den) * 100 > percent * out * f.den

\* floorFromSpot gives such a floor, in lowest terms or rounded down to fit.
LEMMA FloorFromSpotIsFair ==
    ASSUME NEW in \in Nat \ {0}, NEW out \in Nat \ {0}, NEW percent \in Nat \ {0},
           NEW f, f = FloorFromSpot(out, in, percent)
    PROVE  /\ f \in [num : Nat, den : Nat]
           /\ FloorIsFair(f, in, out, percent)
  <1> DEFINE a == percent * out
             b == 100 * in
             d == Gcd(a, b)
             num == a \div d
             den == b \div d
  <1>1. a \in Nat \ {0} /\ b \in Nat \ {0}
    <2>1. percent * out >= 1
      BY SMT
    <2> QED BY <2>1
  <1>2. f = IF num > U64_MAX \/ den > U64_MAX THEN [num |-> a \div 100, den |-> in]
            ELSE [num |-> num, den |-> den]
    BY DEF FloorFromSpot
  <1>3. d \in Nat \ {0} /\ num \in Nat /\ den \in Nat /\ a = d * num /\ b = d * den
    BY <1>1, GcdDivides
  <1>4. a \div 100 \in Nat /\ (a \div 100) * 100 <= a /\ a < (a \div 100 + 1) * 100
    BY <1>1, DivGreatest
  <1>5. CASE f = [num |-> a \div 100, den |-> in]
    <2> DEFINE m == a \div 100
    <2>1. f.num = m /\ f.den = in /\ m \in Nat
      BY <1>4, <1>5
    <2>2. m * 100 * in <= a * in /\ a * in < (m + 1) * 100 * in
      <3>1. m * 100 <= a /\ a + 1 <= (m + 1) * 100
        BY <1>1, <1>4
      <3> HIDE DEF a, m
      <3>2. m * 100 * in <= a * in
        BY <1>1, <2>1, <3>1, LargerFactor
      <3>3. (a + 1) * in <= (m + 1) * 100 * in
        BY <1>1, <2>1, <3>1, LargerFactor
      <3>4. (a + 1) * in = a * in + in /\ a * in \in Nat /\ (m + 1) * 100 * in \in Nat
        BY <1>1, <2>1
      <3> QED BY <3>2, <3>3, <3>4
    <2>3. (m + 1) * 100 * in = (m * in + in) * 100
      BY <2>1
    <2>4. f \in [num : Nat, den : Nat]
      BY <1>4, <1>5
    <2> HIDE DEF m
    <2> QED BY <2>1, <2>2, <2>3, <2>4 DEF FloorIsFair
  <1>6. CASE f = [num |-> num, den |-> den]
    <2> HIDE DEF num, den, d
    <2>1. f.num = num /\ f.den = den
      BY <1>6
    <2>2. num * 100 * in = a * den
      <3>1. num * 100 * in = num * b
        BY <1>3
      <3>2. num * (d * den) = (d * num) * den
        BY <1>3
      <3> HIDE DEF a, b
      <3> QED BY <1>3, <3>1, <3>2
    <2>3. den # 0
      BY <1>1, <1>3
    <2>4. (num * in + den) * 100 = num * 100 * in + 100 * den
      BY <1>3
    <2>5. num * 100 * in \in Nat
      BY <1>3
    <2>6. f \in [num : Nat, den : Nat]
      BY <1>3, <1>6
    <2> QED BY <1>3, <2>1, <2>2, <2>3, <2>4, <2>5, <2>6 DEF FloorIsFair
  <1> QED
    BY <1>2, <1>5, <1>6

-----------------------------------------------------------------------------
(* The transactions and what they moved                                    *)

\* The reasons a transaction can carry: that the swap gave less than the quote is not one.
Reasons ==
    {"ok", "not active", "expired", "zero amount", "stale nonce", "destination not allowed",
     "pool not allowed", "over per trade max", "over daily", "over cap", "delegate missing",
     "insufficient funds", "below floor", "account frozen",
     "destination closed", "asked for more", "clock went back"}

TxEvents ==
    [kind : {"failed", "traded", "refused"}, amount_in : Nat, amount_out : Nat,
     reason : Reasons, suggested : Nat]

TxRows == [amount_in : Nat, min_out : Nat, nonce : Nat, at : Nat, event : TxEvents]

TradesIn(rows) == {i \in DOMAIN rows : rows[i].event.kind = "traded"}

MovedIn(rows) == [i \in DOMAIN rows |-> rows[i].event.amount_in]

\* What the transactions of a history are.
LEMMA RowsType ==
    ASSUME NEW rows \in Seq(TxRows)
    PROVE  /\ DOMAIN rows = 1 .. Len(rows) /\ Len(rows) \in Nat /\ IsFiniteSet(DOMAIN rows)
           /\ \A S \in SUBSET DOMAIN rows : IsFiniteSet(S)
           /\ TradesIn(rows) \in SUBSET DOMAIN rows
           /\ \A i \in DOMAIN rows :
                /\ rows[i] \in TxRows
                /\ rows[i].at \in Nat /\ Hour(rows[i].at) \in Int
                /\ SlotOf(rows[i].at) \in BucketSlots
                /\ MovedIn(rows)[i] = rows[i].event.amount_in
                /\ MovedIn(rows)[i] \in Nat
  <1>1. /\ DOMAIN rows = 1 .. Len(rows) /\ Len(rows) \in Nat
        /\ \A i \in DOMAIN rows : rows[i] \in TxRows
    OBVIOUS
  <1>2. IsFiniteSet(DOMAIN rows)
    BY <1>1, FS_Interval
  <1>3. \A S \in SUBSET DOMAIN rows : IsFiniteSet(S)
    BY <1>2, FS_Subset
  <1>4. ASSUME NEW i \in DOMAIN rows
        PROVE  /\ rows[i].at \in Nat /\ Hour(rows[i].at) \in Int
               /\ SlotOf(rows[i].at) \in BucketSlots
    <2>1. rows[i].at \in Nat
      BY <1>1 DEF TxRows
    <2> DEFINE t == rows[i].at
    <2>2. t \in Int
      BY <2>1
    <2> HIDE DEF t
    <2>3. Hour(t) \in Int /\ SlotOf(t) \in BucketSlots
      BY <2>2, BucketsFinite
    <2> QED BY <2>1, <2>3 DEF t
  <1>5. ASSUME NEW i \in DOMAIN rows
        PROVE  MovedIn(rows)[i] = rows[i].event.amount_in /\ MovedIn(rows)[i] \in Nat
    BY <1>1 DEF MovedIn, TxRows, TxEvents
  <1>6. TradesIn(rows) \in SUBSET DOMAIN rows
    BY DEF TradesIn
  <1> QED
    BY <1>1, <1>2, <1>3, <1>4, <1>5, <1>6

\* One more transaction, and the sums over the transactions.
LEMMA OneMoreTx ==
    ASSUME NEW rows \in Seq(TxRows), NEW row \in TxRows, NEW n, n = Len(rows) + 1,
           NEW new, new = Append(rows, row)
    PROVE  /\ new \in Seq(TxRows) /\ Len(new) = n
           /\ n \notin DOMAIN rows /\ DOMAIN new = DOMAIN rows \union {n}
           /\ new[n] = row
           /\ \A i \in DOMAIN rows : i \in 1 .. n - 1 /\ new[i] = rows[i]
  BY RowsType

\* Only a trade adds to the trades.
LEMMA OneMoreTrade ==
    ASSUME NEW rows \in Seq(TxRows), NEW row \in TxRows, NEW new, new = Append(rows, row)
    PROVE  TradesIn(new) = IF row.event.kind = "traded" THEN TradesIn(rows) \union {Len(rows) + 1}
                           ELSE TradesIn(rows)
  BY OneMoreTx DEF TradesIn

\* Sums over earlier transactions stay, and the new one adds what it moved.
LEMMA OneMoreMoved ==
    ASSUME NEW rows \in Seq(TxRows), NEW row \in TxRows, NEW S, S \subseteq DOMAIN rows
    PROVE  /\ Total(MovedIn(Append(rows, row)), S) = Total(MovedIn(rows), S)
           /\ Total(MovedIn(Append(rows, row)), S \union {Len(rows) + 1})
                = Total(MovedIn(rows), S) + row.event.amount_in
           /\ Total(MovedIn(rows), S) \in Nat
  <1> DEFINE new == Append(rows, row)
             n == Len(rows) + 1
             f == MovedIn(rows)
             g == MovedIn(new)
  <1>0. /\ new \in Seq(TxRows) /\ n \notin DOMAIN rows /\ DOMAIN new = DOMAIN rows \union {n}
        /\ new[n] = row
        /\ \A i \in DOMAIN rows : new[i] = rows[i]
    BY OneMoreTx DEF n, new
  <1> HIDE DEF new, n
  <1>1. IsFiniteSet(S) /\ n \notin S
    BY <1>0, RowsType
  <1>2. ASSUME NEW i \in S PROVE g[i] = f[i] /\ f[i] \in Nat
    <2>1. i \in DOMAIN rows /\ new[i] = rows[i] /\ i \in DOMAIN new
      BY <1>0
    <2>2. f[i] = rows[i].event.amount_in /\ f[i] \in Nat /\ g[i] = new[i].event.amount_in
      BY <1>0, <2>1, RowsType
    <2> QED BY <2>1, <2>2
  <1>3. g[n] = row.event.amount_in /\ g[n] \in Nat
    <2>1. n \in DOMAIN new
      BY <1>0
    <2>2. g[n] = new[n].event.amount_in /\ g[n] \in Nat
      BY <1>0, <2>1, RowsType
    <2> QED BY <1>0, <2>2
  <1> HIDE DEF f, g
  <1>4. Total(g, S) = Total(f, S)
    BY <1>1, <1>2, TotalSame
  <1>5. Total(f, S) \in Nat
    BY <1>1, <1>2, TotalNat
  <1>6. Total(g, S \union {n}) = Total(g, S) + g[n]
    BY <1>1, <1>2, <1>3, TotalAdd
  <1> QED
    BY <1>3, <1>4, <1>5, <1>6 DEF f, g, new, n

-----------------------------------------------------------------------------
(* The day                                                                 *)

\* The trades of the hour a bucket carries.
OfHour(b, rows, s) ==
    {i \in TradesIn(rows) : SlotOf(rows[i].at) = s /\ Hour(rows[i].at) = b[s].hour}

\* A bucket is that of the latest hour of its slot that had a trade, and holds what the trades
\* of that hour add up to.
BucketsHold(b, rows) ==
    /\ \A i \in TradesIn(rows) :
         /\ b[SlotOf(rows[i].at)].amount > 0
         /\ b[SlotOf(rows[i].at)].hour >= Hour(rows[i].at)
    /\ \A s \in BucketSlots :
         /\ Total(MovedIn(rows), OfHour(b, rows, s)) <= b[s].amount
         /\ b[s].amount # 0 => \E i \in OfHour(b, rows, s) : TRUE

\* commit adds to the bucket of its hour, and what it starts afresh is out of the window.
LEMMA CommitAdds ==
    ASSUME NEW b \in Buckets, NEW t \in Nat, NEW a \in Nat \ {0}, CanCommit(b, a, t),
           NEW z, z = SlotOf(t), NEW new, new = Commit(b, a, t)
    PROVE  /\ z \in BucketSlots /\ new \in Buckets
           /\ \A s \in BucketSlots : s # z => new[s] = b[s]
           /\ new[z].hour = Hour(t)
           /\ \/ b[z].hour = Hour(t) /\ new[z].amount = b[z].amount + a
              \/ /\ b[z].hour # Hour(t) /\ new[z].amount = a
                 /\ b[z].amount = 0 \/ b[z].hour < Hour(t) - WINDOW_HOURS
           /\ Spent(new, t) = Spent(b, t) + a
  <1> DEFINE old == b[z]
             h == Hour(t)
             held == IF old.hour = h THEN old.amount ELSE 0
  <1>1. /\ z \in BucketSlots /\ h \in Int /\ old.hour \in Int /\ old.amount \in 0 .. U64_MAX
        /\ WINDOW_HOURS \in Nat /\ U64_MAX \in Nat
        /\ \A s \in BucketSlots : b[s] \in [hour : Int, amount : 0 .. U64_MAX]
    BY BucketsFinite, WindowAssumption DEF Buckets
  <1>2. new = [b EXCEPT ![z] = [hour |-> h, amount |-> held + a]]
    BY DEF Commit
  <1>3. held + a \in 0 .. U64_MAX
    BY <1>1 DEF CanCommit
  <1>4. /\ new \in Buckets
        /\ \A s \in BucketSlots : s # z => new[s] = b[s]
        /\ new[z] = [hour |-> h, amount |-> held + a]
    BY <1>1, <1>2, <1>3 DEF Buckets
  <1>5. old.hour # h => old.amount = 0 \/ old.hour < h - WINDOW_HOURS
    BY DEF CanCommit
  <1>6. Spent(new, t) = Spent(b, t) + a
    <2> DEFINE W == InWindow(b, t)
               V == InWindow(new, t)
               f == [s \in W |-> b[s].amount]
               g == [s \in V |-> new[s].amount]
    <2>1. /\ Spent(b, t) = Total(f, W) /\ Spent(new, t) = Total(g, V)
          /\ Total(f, W) \in Nat
      BY <1>4, SpentIsTotal
    <2>2. IsFiniteSet(W) /\ IsFiniteSet(V)
      BY BucketsFinite
    <2>3. z \in V /\ V = W \union {z}
      BY <1>1, <1>4 DEF InWindow
    <2> DEFINE R == W \ {z}
    <2>4. /\ \A s \in R : g[s] = f[s] /\ f[s] \in Nat
          /\ g[z] = held + a /\ held \in Nat
      BY <1>1, <1>4, <2>3 DEF InWindow
    <2>5. IsFiniteSet(R) /\ z \notin R /\ V = R \union {z}
      BY <2>2, <2>3, FS_Subset
    <2>6. Total(g, V) = Total(g, R) + g[z]
      <3>1. \A s \in R : g[s] \in Int
        BY <2>4
      <3>2. g[z] \in Int
        BY <2>4
      <3> HIDE DEF g, V, R
      <3> QED BY <2>5, <3>1, <3>2, TotalAdd
    <2>7. Total(g, R) = Total(f, R) /\ Total(f, R) \in Nat
      <3> HIDE DEF f, g, R
      <3> QED BY <2>4, <2>5, TotalSame, TotalNat
    <2>8. Total(f, W) = Total(f, R) + held
      <3>1. CASE z \in W
        <4>1. f[z] = old.amount /\ W = R \union {z}
          BY <3>1
        <4>2. held = old.amount
          BY <1>1, <1>5, <3>1 DEF InWindow
        <4>3. \A s \in R : f[s] \in Int
          BY <2>4
        <4>4. f[z] \in Int
          BY <1>1, <4>1
        <4>5. Total(f, R \union {z}) = Total(f, R) + f[z]
          <5> HIDE DEF f, R
          <5> QED BY <2>5, <4>3, <4>4, TotalAdd
        <4> HIDE DEF f, R, W
        <4> QED BY <4>1, <4>2, <4>5
      <3>2. CASE z \notin W
        <4>1. held = 0
          BY <1>1, <3>2 DEF InWindow
        <4>2. R = W
          BY <3>2
        <4> HIDE DEF f, R, W
        <4> QED BY <2>7, <4>1, <4>2
      <3> QED BY <3>1, <3>2
    <2> HIDE DEF f, g, W, V, R
    <2> QED BY <1>1, <2>1, <2>4, <2>6, <2>7, <2>8
  <1> QED
    BY <1>1, <1>4, <1>5, <1>6

\* A trade is added to the bucket of its hour. A bucket it starts afresh held no trade of that
\* hour: the hours of a slot only go forward.
LEMMA TradeHolds ==
    ASSUME NEW b \in Buckets, NEW rows \in Seq(TxRows), BucketsHold(b, rows),
           NEW row \in TxRows, row.event.kind = "traded", row.event.amount_in > 0,
           CanCommit(b, row.event.amount_in, row.at),
           NEW c, c = Commit(b, row.event.amount_in, row.at),
           NEW new, new = Append(rows, row)
    PROVE  BucketsHold(c, new)
  <1> DEFINE a == row.event.amount_in
             t == row.at
             z == SlotOf(t)
             n == Len(rows) + 1
             f == MovedIn(rows)
             g == MovedIn(new)
             R == TradesIn(rows)
  <1>1. a \in Nat \ {0} /\ t \in Nat /\ Hour(t) \in Int
    <2>1. a \in Nat \ {0} /\ t \in Nat
      BY DEF TxRows, TxEvents
    <2> HIDE DEF t
    <2>2. Hour(t) \in Int
      BY <2>1, BucketsFinite
    <2> QED BY <2>1, <2>2
  <1>2. /\ z \in BucketSlots /\ c \in Buckets
        /\ \A s \in BucketSlots : s # z => c[s] = b[s]
        /\ c[z].hour = Hour(t)
        /\ \/ b[z].hour = Hour(t) /\ c[z].amount = b[z].amount + a
           \/ /\ b[z].hour # Hour(t) /\ c[z].amount = a
              /\ b[z].amount = 0 \/ b[z].hour < Hour(t) - WINDOW_HOURS
    <2> HIDE DEF a, t, z
    <2>1. CanCommit(b, a, t) /\ c = Commit(b, a, t) /\ z = SlotOf(t)
      BY DEF a, t, z
    <2> QED BY <1>1, <2>1, CommitAdds
  <1>3. /\ WINDOW_HOURS \in Nat
        /\ \A s \in BucketSlots : b[s].hour \in Int /\ b[s].amount \in Nat
    BY WindowAssumption DEF Buckets
  <1>4. /\ n \notin DOMAIN rows /\ DOMAIN new = DOMAIN rows \union {n}
        /\ new[n] = row
        /\ \A i \in DOMAIN rows : new[i] = rows[i]
        /\ TradesIn(new) = R \union {n}
        /\ \A S \in SUBSET DOMAIN rows :
                /\ Total(g, S) = Total(f, S)
                /\ Total(g, S \union {n}) = Total(f, S) + a
                /\ Total(f, S) \in Nat
    <2> HIDE DEF n
    <2>1. n = Len(rows) + 1
      BY DEF n
    <2> HIDE DEF f, g, R, a
    <2>2. /\ n \notin DOMAIN rows /\ DOMAIN new = DOMAIN rows \union {n}
          /\ new[n] = row
          /\ \A i \in DOMAIN rows : new[i] = rows[i]
      BY <2>1, OneMoreTx
    <2>3. TradesIn(new) = R \union {n}
      BY <2>1, OneMoreTrade DEF R
    <2>4. ASSUME NEW S \in SUBSET DOMAIN rows
          PROVE  /\ Total(g, S) = Total(f, S)
                 /\ Total(g, S \union {n}) = Total(f, S) + a
                 /\ Total(f, S) \in Nat
      BY <2>1, OneMoreMoved DEF f, g, a
    <2> QED BY <2>2, <2>3, <2>4
  <1>5. /\ R \in SUBSET DOMAIN rows
        /\ \A i \in R : Hour(rows[i].at) \in Int /\ SlotOf(rows[i].at) \in BucketSlots
    BY RowsType
  <1>6. \A i \in R : /\ b[SlotOf(rows[i].at)].amount > 0
                    /\ b[SlotOf(rows[i].at)].hour >= Hour(rows[i].at)
    BY DEF BucketsHold
  <1>7. /\ \A s \in BucketSlots : OfHour(b, rows, s) \in SUBSET R
        /\ \A s \in BucketSlots : s # z => OfHour(c, new, s) = OfHour(b, rows, s)
    BY <1>2, <1>4, <1>5 DEF OfHour
  <1>8. b[z].hour = Hour(t) => OfHour(c, new, z) = OfHour(b, rows, z) \union {n}
    BY <1>2, <1>4, <1>5 DEF OfHour
  <1>9. b[z].hour # Hour(t) => OfHour(c, new, z) = {n}
    <2>1. SUFFICES ASSUME b[z].hour # Hour(t), NEW i \in R,
                          SlotOf(rows[i].at) = z, Hour(rows[i].at) = Hour(t)
                   PROVE  FALSE
      BY <1>2, <1>4, <1>5 DEF OfHour
    <2>2. b[z].amount > 0 /\ b[z].hour >= Hour(t)
      BY <1>6, <2>1
    <2>3. b[z].hour \in Int /\ b[z].amount \in Nat
      BY <1>2, <1>3
    <2>4. b[z].hour < Hour(t) - WINDOW_HOURS
      BY <1>2, <2>1, <2>2, <2>3
    <2> HIDE DEF z, t
    <2> QED BY <1>1, <1>3, <2>2, <2>3, <2>4
  <1>10. \A i \in TradesIn(new) : /\ c[SlotOf(new[i].at)].amount > 0
                                 /\ c[SlotOf(new[i].at)].hour >= Hour(new[i].at)
    <2>1. ASSUME NEW i \in R
          PROVE  /\ c[SlotOf(rows[i].at)].amount > 0
                 /\ c[SlotOf(rows[i].at)].hour >= Hour(rows[i].at)
      <3> DEFINE s == SlotOf(rows[i].at)
      <3>1. b[s].amount > 0 /\ b[s].hour >= Hour(rows[i].at) /\ s \in BucketSlots
               /\ Hour(rows[i].at) \in Int
        BY <1>5, <1>6
      <3> HIDE DEF s
      <3>2. CASE s # z
        BY <1>2, <3>1, <3>2 DEF s
      <3>3. CASE s = z
        <4>1. c[z].amount > 0
          BY <1>1, <1>2, <1>3
        <4>2. c[z].hour >= b[z].hour
          BY <1>1, <1>2, <1>3, <3>1, <3>3
        <4> QED BY <1>1, <1>2, <1>3, <3>1, <3>3, <4>1, <4>2 DEF s
      <3> QED BY <3>2, <3>3
    <2>2. c[z].amount > 0 /\ c[z].hour >= Hour(t)
      BY <1>1, <1>2, <1>3
    <2> QED BY <1>4, <1>5, <2>1, <2>2
  <1>11. ASSUME NEW s \in BucketSlots
         PROVE  /\ Total(g, OfHour(c, new, s)) <= c[s].amount
                /\ c[s].amount # 0 => \E i \in OfHour(c, new, s) : TRUE
    <2> DEFINE O == OfHour(b, rows, s)
    <2>1. Total(f, O) <= b[s].amount /\ (b[s].amount # 0 => \E i \in O : TRUE)
      BY DEF BucketsHold
    <2>2. O \in SUBSET DOMAIN rows
      BY <1>5, <1>7
    <2>3. /\ Total(g, O) = Total(f, O) /\ Total(g, O \union {n}) = Total(f, O) + a
          /\ Total(f, O) \in Nat
      <3> HIDE DEF O, f, g
      <3> QED BY <1>4, <2>2
    <2>4. CASE s # z
      <3>1. OfHour(c, new, s) = O /\ c[s] = b[s]
        BY <1>2, <1>7, <2>4
      <3> HIDE DEF O, f, g
      <3> QED BY <2>1, <2>3, <3>1
    <2>5. CASE s = z /\ b[z].hour = Hour(t)
      <3>1. OfHour(c, new, s) = O \union {n} /\ c[s].amount = b[s].amount + a
        BY <1>2, <1>8, <2>5
      <3> HIDE DEF O, f, g
      <3> QED BY <1>1, <1>3, <2>1, <2>3, <3>1
    <2>6. CASE s = z /\ b[z].hour # Hour(t)
      <3>1. OfHour(c, new, s) = {} \union {n} /\ c[s].amount = a
        BY <1>2, <1>9, <2>6
      <3>2. Total(f, {}) = 0
        BY TotalEmpty
      <3>3. {} \in SUBSET DOMAIN rows
        OBVIOUS
      <3>4. Total(g, {} \union {n}) = Total(f, {}) + a
        <4> HIDE DEF f, g
        <4> QED BY <1>4, <3>3
      <3> HIDE DEF f, g
      <3> QED BY <1>1, <3>1, <3>2, <3>4
    <2> QED BY <2>4, <2>5, <2>6
  <1> QED
    BY <1>10, <1>11 DEF BucketsHold

\* Another transaction than a trade changes nothing in the buckets.
LEMMA OthersHold ==
    ASSUME NEW b \in Buckets, NEW rows \in Seq(TxRows), BucketsHold(b, rows),
           NEW row \in TxRows, row.event.kind # "traded", NEW new, new = Append(rows, row)
    PROVE  BucketsHold(b, new)
  <1> DEFINE n == Len(rows) + 1
             f == MovedIn(rows)
             g == MovedIn(new)
  <1>1. /\ TradesIn(new) = TradesIn(rows) /\ TradesIn(rows) \in SUBSET DOMAIN rows
        /\ \A i \in DOMAIN rows : new[i] = rows[i]
        /\ \A S \in SUBSET DOMAIN rows : Total(g, S) = Total(f, S)
    <2> HIDE DEF n
    <2>1. n = Len(rows) + 1
      BY DEF n
    <2> HIDE DEF f, g
    <2>2. TradesIn(new) = TradesIn(rows)
      BY OneMoreTrade
    <2>5. \A i \in DOMAIN rows : new[i] = rows[i]
      BY <2>1, OneMoreTx
    <2>3. TradesIn(rows) \in SUBSET DOMAIN rows
      BY RowsType
    <2>4. ASSUME NEW S \in SUBSET DOMAIN rows PROVE Total(g, S) = Total(f, S)
      BY <2>1, OneMoreMoved DEF f, g
    <2> QED BY <2>2, <2>3, <2>4, <2>5
  <1>2. ASSUME NEW s \in BucketSlots
        PROVE  /\ OfHour(b, new, s) = OfHour(b, rows, s)
               /\ OfHour(b, rows, s) \in SUBSET DOMAIN rows
    BY <1>1 DEF OfHour
  <1>3. \A s \in BucketSlots : Total(g, OfHour(b, new, s)) = Total(f, OfHour(b, rows, s))
    <2> HIDE DEF f, g
    <2> QED BY <1>1, <1>2
  <1> QED
    BY <1>1, <1>2, <1>3 DEF BucketsHold

\* Whatever the clock t behind it says, the buckets count every trade of the day that ends at
\* second p, when no trade was later: hours of that day that share a slot are one hour.
LEMMA DayIsCounted ==
    ASSUME NEW b \in Buckets, NEW rows \in Seq(TxRows), BucketsHold(b, rows),
           NEW p \in Nat, \A i \in TradesIn(rows) : rows[i].at <= p,
           NEW t \in Nat, t <= p
    PROVE  Total(MovedIn(rows), {i \in TradesIn(rows) : rows[i].at >= p - WINDOW_SECS})
             <= Spent(b, t)
  <1> DEFINE D == {i \in TradesIn(rows) : rows[i].at >= p - WINDOW_SECS}
             W == InWindow(b, t)
             f == MovedIn(rows)
             g == [s \in W |-> b[s].amount]
             slot == [i \in DOMAIN rows |-> SlotOf(rows[i].at)]
  <1>1. /\ WINDOW_HOURS \in Nat /\ Hour(p) \in Int /\ Hour(t) \in Int /\ Hour(t) <= Hour(p)
        /\ \A s \in BucketSlots : b[s].hour \in Int /\ b[s].amount \in Nat
    <2>1. \A s \in BucketSlots : b[s].hour \in Int /\ b[s].amount \in Nat
      BY WindowAssumption DEF Buckets
    <2>2. Hour(p) \in Int /\ Hour(t) \in Int
      <3>1. p \in Int /\ t \in Int
        OBVIOUS
      <3> QED BY <3>1, BucketsFinite
    <2>3. Hour(t) <= Hour(p)
      BY HoursOfADay
    <2> QED BY <2>1, <2>2, <2>3, WindowAssumption
  <1>2. ASSUME NEW i \in TradesIn(rows)
        PROVE  /\ i \in DOMAIN rows /\ rows[i].at \in Nat /\ rows[i].at <= p
               /\ Hour(rows[i].at) \in Int /\ SlotOf(rows[i].at) \in BucketSlots
               /\ Hour(rows[i].at) <= Hour(p)
               /\ rows[i].at >= p - WINDOW_SECS => Hour(rows[i].at) >= Hour(p) - WINDOW_HOURS
               /\ Hour(rows[i].at) % BUCKET_COUNT = SlotOf(rows[i].at)
    <2>1. /\ i \in DOMAIN rows /\ rows[i].at \in Nat /\ rows[i].at <= p
          /\ Hour(rows[i].at) \in Int /\ SlotOf(rows[i].at) \in BucketSlots
      BY RowsType
    <2> DEFINE u == rows[i].at
    <2>2. u \in Nat /\ u <= p
      BY <2>1
    <2> HIDE DEF u
    <2>3. Hour(u) <= Hour(p) /\ (u >= p - WINDOW_SECS => Hour(u) >= Hour(p) - WINDOW_HOURS)
      BY <2>2, HoursOfADay
    <2> QED BY <2>1, <2>3 DEF u, SlotOf
  <1>3. ASSUME NEW i \in D
        PROVE  /\ SlotOf(rows[i].at) \in W
               /\ i \in OfHour(b, rows, SlotOf(rows[i].at))
    <2> DEFINE s == SlotOf(rows[i].at)
               h == Hour(rows[i].at)
               k == b[s].hour
    <2>1. /\ h \in Int /\ s \in BucketSlots /\ h >= Hour(p) - WINDOW_HOURS
          /\ h % BUCKET_COUNT = s /\ k \in Int
      BY <1>1, <1>2
    <2>2. k >= h /\ b[s].amount > 0
      BY DEF BucketsHold
    <2>3. PICK j \in OfHour(b, rows, s) : TRUE
      <3>1. b[s].amount # 0
        BY <1>1, <2>1, <2>2
      <3> QED BY <2>1, <3>1 DEF BucketsHold
    <2>4. j \in TradesIn(rows) /\ SlotOf(rows[j].at) = s /\ Hour(rows[j].at) = k
      BY <2>3 DEF OfHour
    <2>5. k <= Hour(p) /\ k % BUCKET_COUNT = s
      BY <1>2, <2>4
    <2> HIDE DEF h, k
    <2>6. h = k
      <3> HIDE DEF s
      <3>1. h >= k - WINDOW_HOURS /\ h <= k /\ h % BUCKET_COUNT = k % BUCKET_COUNT
        BY <1>1, <2>1, <2>2, <2>5
      <3> QED BY <2>1, <3>1, SameSlotSameHour
    <2>7. s \in W
      BY <1>1, <2>1, <2>2 DEF InWindow, k
    <2> QED BY <2>6, <2>7 DEF OfHour, h, k
  <1>4. /\ IsFiniteSet(D) /\ IsFiniteSet(W) /\ W \subseteq BucketSlots
        /\ \A i \in D : f[i] \in Nat /\ slot[i] \in W
        /\ \A s \in W : g[s] \in Nat
    <2>1. D \in SUBSET DOMAIN rows
      BY <1>2
    <2>2. IsFiniteSet(D) /\ \A i \in D : f[i] \in Nat
      BY <2>1, RowsType
    <2>3. \A i \in D : slot[i] \in W
      BY <1>2, <1>3
    <2>4. W \subseteq BucketSlots
      BY DEF InWindow
    <2>5. \A s \in W : g[s] \in Nat
      BY <1>1, <2>4
    <2> QED BY <2>2, <2>3, <2>4, <2>5, BucketsFinite
  <1>5. ASSUME NEW s \in W PROVE Total(f, {i \in D : slot[i] = s}) <= g[s]
    <2> DEFINE E == {i \in D : slot[i] = s}
               O == OfHour(b, rows, s)
    <2>1. E \subseteq O
      BY <1>2, <1>3
    <2>2. O \in SUBSET DOMAIN rows
      BY <1>2 DEF OfHour
    <2>3. IsFiniteSet(O) /\ \A i \in O : f[i] \in Nat
      BY <2>2, RowsType
    <2>4. Total(f, O) <= g[s] /\ g[s] \in Nat
      BY <1>4 DEF BucketsHold
    <2> HIDE DEF E, O, f, g
    <2>5. \A i \in O : f[i] \in Nat /\ f[i] <= f[i]
      BY <2>3
    <2>6. Total(f, E) <= Total(f, O) /\ Total(f, E) \in Nat /\ Total(f, O) \in Nat
      BY <2>1, <2>3, <2>5, TotalMonotone
    <2>7. Total(f, E) <= g[s]
      BY <2>4, <2>6
    <2> QED BY <2>7 DEF E
  <1>6. Total(f, D) <= Total(g, W)
    <2> HIDE DEF f, g, slot, W, D
    <2> QED BY <1>4, <1>5, TotalGrouped
  <1>7. Spent(b, t) = Total(g, W)
    BY SpentIsTotal
  <1> QED
    BY <1>6, <1>7

LatestIn(rows, i) == Max({rows[k].at : k \in {k \in TradesIn(rows) : k <= i}})

DayIn(rows, i) ==
    {k \in TradesIn(rows) : k <= i /\ rows[k].at >= LatestIn(rows, i) - WINDOW_SECS}

\* After every trade the day that ended at the latest second was within the limit.
DaysKept(rows, limit) == \A i \in TradesIn(rows) : Total(MovedIn(rows), DayIn(rows, i)) <= limit

\* No trade up to the i-th was made at a later second.
LEMMA LatestIsLatest ==
    ASSUME NEW rows \in Seq(TxRows), NEW i \in TradesIn(rows)
    PROVE  /\ LatestIn(rows, i) \in Nat
           /\ \A k \in TradesIn(rows) : k <= i => rows[k].at <= LatestIn(rows, i)
  <1> DEFINE K == {k \in TradesIn(rows) : k <= i}
             S == {rows[k].at : k \in K}
  <1>1. K \in SUBSET DOMAIN rows /\ i \in K /\ \A k \in K : rows[k].at \in Nat
    BY RowsType
  <1>2. IsFiniteSet(K)
    BY <1>1, RowsType
  <1>3. IsFiniteSet(S)
    <2> DEFINE at == [k \in K |-> rows[k].at]
    <2>1. at \in Surjection(K, S)
      BY DEF Surjection
    <2> HIDE DEF K, S, at
    <2> QED BY <1>2, <2>1, FS_Surjection
  <1>4. S # {} /\ S \subseteq Nat /\ S \subseteq Int
    BY <1>1
  <1> HIDE DEF S
  <1>5. Max(S) \in S /\ \A y \in S : y <= Max(S)
    BY <1>3, <1>4, Greatest
  <1> QED
    BY <1>4, <1>5 DEF S, LatestIn

\* Days that are over stay as they were.
LEMMA EarlierDays ==
    ASSUME NEW rows \in Seq(TxRows), NEW row \in TxRows, NEW i \in TradesIn(rows)
    PROVE  Total(MovedIn(Append(rows, row)), DayIn(Append(rows, row), i))
             = Total(MovedIn(rows), DayIn(rows, i))
  <1> DEFINE new == Append(rows, row)
             n == Len(rows) + 1
  <1>1. /\ Len(rows) \in Nat /\ DOMAIN rows = 1 .. Len(rows)
        /\ TradesIn(rows) \in SUBSET DOMAIN rows /\ i \in 1 .. Len(rows)
        /\ \A k \in DOMAIN rows : new[k] = rows[k]
        /\ TradesIn(new) \in SUBSET (TradesIn(rows) \union {n})
        /\ TradesIn(rows) \in SUBSET TradesIn(new)
    <2>1. /\ Len(rows) \in Nat /\ DOMAIN rows = 1 .. Len(rows)
          /\ TradesIn(rows) \in SUBSET DOMAIN rows
      BY RowsType
    <2>2. TradesIn(new) = IF row.event.kind = "traded" THEN TradesIn(rows) \union {n}
                          ELSE TradesIn(rows)
      BY OneMoreTrade
    <2>3. \A k \in DOMAIN rows : new[k] = rows[k]
      <3> HIDE DEF n
      <3>1. n = Len(rows) + 1
        BY DEF n
      <3> QED BY <3>1, OneMoreTx
    <2> HIDE DEF new, n
    <2> QED BY <2>1, <2>2, <2>3
  <1>2. {k \in TradesIn(new) : k <= i} = {k \in TradesIn(rows) : k <= i}
    BY <1>1
  <1> DEFINE K == {k \in TradesIn(rows) : k <= i}
  <1>3. \A k \in K : new[k] = rows[k]
    BY <1>1
  <1>4. {new[k].at : k \in K} = {rows[k].at : k \in K}
    <2> HIDE DEF K, new
    <2> QED BY <1>3
  <1>5. LatestIn(new, i) = LatestIn(rows, i)
    BY <1>2, <1>4 DEF LatestIn
  <1>6. DayIn(new, i) = DayIn(rows, i)
    <2> DEFINE l == LatestIn(rows, i) - WINDOW_SECS
    <2>1. DayIn(rows, i) = {k \in K : rows[k].at >= l}
      BY DEF DayIn
    <2>2. DayIn(new, i) = {k \in K : new[k].at >= l}
      BY <1>2, <1>5 DEF DayIn
    <2> HIDE DEF K, l, new
    <2> QED BY <1>3, <2>1, <2>2
  <1>7. DayIn(rows, i) \subseteq DOMAIN rows
    BY <1>1 DEF DayIn
  <1>8. Total(MovedIn(new), DayIn(rows, i)) = Total(MovedIn(rows), DayIn(rows, i))
    BY <1>7, OneMoreMoved
  <1> QED
    BY <1>6, <1>8

\* A trade within what is left of its day keeps the days.
LEMMA TradeKeepsDays ==
    ASSUME NEW b \in Buckets, NEW rows \in Seq(TxRows), BucketsHold(b, rows),
           NEW row \in TxRows, row.event.kind = "traded", row.event.amount_in > 0,
           CanCommit(b, row.event.amount_in, row.at),
           NEW limit \in Nat, DaysKept(rows, limit),
           Spent(b, row.at) + row.event.amount_in <= limit
    PROVE  DaysKept(Append(rows, row), limit)
  <1> DEFINE new == Append(rows, row)
             n == Len(rows) + 1
             a == row.event.amount_in
             t == row.at
             c == Commit(b, a, t)
  <1>1. a \in Nat \ {0} /\ t \in Nat
    BY DEF TxRows, TxEvents
  <1>2. c \in Buckets /\ Spent(c, t) = Spent(b, t) + a
    <2> HIDE DEF a, t, c
    <2>1. CanCommit(b, a, t) /\ c = Commit(b, a, t)
      BY DEF a, t, c
    <2> QED BY <1>1, <2>1, CommitAdds
  <1>3. BucketsHold(c, new)
    BY TradeHolds
  <1>4. /\ new \in Seq(TxRows) /\ new[n] = row /\ n \in DOMAIN new
        /\ TradesIn(new) = TradesIn(rows) \union {n}
        /\ \A k \in TradesIn(new) : k <= n
    <2>1. new \in Seq(TxRows) /\ new[n] = row /\ DOMAIN new = DOMAIN rows \union {n}
      BY OneMoreTx
    <2>2. TradesIn(new) = TradesIn(rows) \union {n}
      BY OneMoreTrade
    <2>3. \A k \in TradesIn(rows) : k <= n
      BY RowsType
    <2>4. Len(rows) \in Nat
      BY RowsType
    <2> QED BY <2>1, <2>2, <2>3, <2>4
  <1> HIDE DEF new, n, c
  <1>5. Total(MovedIn(new), DayIn(new, n)) <= Spent(c, t)
    <2> DEFINE p == LatestIn(new, n)
    <2>1. n \in TradesIn(new)
      BY <1>4
    <2>2. p \in Nat /\ \A k \in TradesIn(new) : new[k].at <= p
      BY <1>4, <2>1, LatestIsLatest
    <2>3. t <= p
      BY <1>4, <2>1, <2>2
    <2>4. DayIn(new, n) = {k \in TradesIn(new) : new[k].at >= p - WINDOW_SECS}
      BY <1>4 DEF DayIn
    <2> HIDE DEF p, t
    <2>5. Total(MovedIn(new), {k \in TradesIn(new) : new[k].at >= p - WINDOW_SECS}) <= Spent(c, t)
      BY <1>1, <1>2, <1>3, <1>4, <2>2, <2>3, DayIsCounted
    <2> QED BY <2>4, <2>5
  <1>6. Total(MovedIn(new), DayIn(new, n)) <= limit
    <2>1. Spent(c, t) <= limit
      BY <1>2
    <2>2. DayIn(new, n) \in SUBSET DOMAIN new
      BY <1>4, RowsType DEF DayIn
    <2>3. Total(MovedIn(new), DayIn(new, n)) \in Int
      BY <1>4, <2>2, RowsType, TotalNat
    <2> HIDE DEF t
    <2>4. Spent(c, t) \in Int
      <3>1. c \in Buckets
        BY <1>2
      <3>2. Spent(c, t) \in Nat
        BY <3>1, SpentIsTotal
      <3> QED BY <3>2
    <2> QED BY <1>5, <2>1, <2>3, <2>4
  <1>7. ASSUME NEW i \in TradesIn(rows) PROVE Total(MovedIn(new), DayIn(new, i)) <= limit
    BY EarlierDays DEF new, DaysKept
  <1> QED
    BY <1>4, <1>6, <1>7 DEF DaysKept, new

\* Another transaction than a trade changes no day.
LEMMA OthersKeepDays ==
    ASSUME NEW rows \in Seq(TxRows), NEW row \in TxRows, row.event.kind # "traded",
           NEW limit, DaysKept(rows, limit)
    PROVE  DaysKept(Append(rows, row), limit)
  <1>1. TradesIn(Append(rows, row)) = TradesIn(rows)
    BY OneMoreTrade
  <1> QED
    BY <1>1, EarlierDays DEF DaysKept

-----------------------------------------------------------------------------
(* The inductive invariant                                                 *)

SourceAccounts ==
    [amount : Nat, delegate : BOOLEAN, delegated : Nat, frozen : BOOLEAN,
     out : Nat, outClosed : BOOLEAN, outFrozen : BOOLEAN, sold : Nat, own : BOOLEAN]

RuleAccounts ==
    [status : {"active", "exhausted", "expired", "revoked", "none"},
     cap : Nat, spent : Nat, per_trade_max : Nat, daily_limit : Nat,
     buckets : Buckets, floor_num : Nat \ {0}, floor_den : Nat \ {0}, expires_at : Nat,
     override_amount : Nat, override_nonce : Nat, last_nonce : Nat]

\* A form that was filled in, with the reserves that were read and the floor taken from them.
DraftRecords ==
    [at : {"signing", "opened"},
     limits : [cap : Nat, per_trade_max : Nat, daily_limit : Nat], percent : Nat \ {0},
     read : [in : Nat \ {0}, out : Nat \ {0}], floor : [num : Nat, den : Nat], opened : Nat]

TradeTypes ==
    /\ now \in Nat /\ pool \in PoolReserves /\ source \in SourceAccounts
    /\ txs \in Seq(TxRows)
    /\ \/ draft = [at |-> "form"]
       \/ /\ draft \in DraftRecords
          /\ FloorIsFair(draft.floor, draft.read.in, draft.read.out, draft.percent)
    /\ OpenedAs => rule \in RuleAccounts
    /\ ~OpenedAs => txs = <<>> /\ source.sold = 0

\* The rule carries the terms of the form, it has counted what its swaps took, within the cap,
\* and a delegation the owner did not replace is what is left of it.
RuleIsFunded ==
    OpenedAs =>
        /\ rule.cap = draft.limits.cap /\ rule.daily_limit = draft.limits.daily_limit
        /\ rule.floor_num = draft.floor.num /\ rule.floor_den = draft.floor.den
        /\ rule.spent = source.sold /\ rule.spent <= rule.cap
        /\ source.delegate /\ ~source.own => source.delegated = rule.cap - rule.spent

\* The transactions tell of all that was spent.
SalesAreCounted == OpenedAs => rule.spent = Total(MovedIn(txs), TradesIn(txs))

DaysAreCounted ==
    OpenedAs => BucketsHold(rule.buckets, txs) /\ DaysKept(txs, rule.daily_limit)

TxIsSound(tx, floor) ==
    /\ tx.event.kind = "refused" => tx.event.amount_in = tx.amount_in
    /\ tx.event.kind = "traded" => tx.event.amount_out * floor.den >= tx.event.amount_in * floor.num

TxsAreSound == OpenedAs => \A i \in DOMAIN txs : TxIsSound(txs[i], draft.floor)

TradeInv == TradeTypes /\ RuleIsFunded /\ SalesAreCounted /\ DaysAreCounted /\ TxsAreSound

\* The invariant holds of a form nobody filled in.
LEMMA TradesStart == ASSUME TradeInit PROVE TradeInv
  <1>1. pool \in PoolReserves
    BY TradeInputs DEF TradeInit, PoolReserves
  <1>2. txs = <<>> /\ txs \in Seq(TxRows)
    BY DEF TradeInit
  <1>3. draft = [at |-> "form"] /\ ~OpenedAs
    BY DEF TradeInit, OpenedAs
  <1>4. source \in SourceAccounts /\ source.sold = 0 /\ now \in Nat
    BY DEF TradeInit, SourceAccounts
  <1> QED
    BY <1>1, <1>2, <1>3, <1>4 DEF TradeInv, TradeTypes, RuleIsFunded, SalesAreCounted, DaysAreCounted, TxsAreSound

-----------------------------------------------------------------------------
(* Before the rule                                                         *)

\* ReadFloor takes a fair floor from the reserves it read.
LEMMA FloorStep ==
    ASSUME TradeInv, NEW limits \in Limits, NEW percent \in Percents, ReadFloor(limits, percent)
    PROVE  TradeInv'
  <1> DEFINE f == FloorFromSpot(pool.out, pool.in, percent)
  <1>1. draft.at = "form" /\ ~OpenedAs /\ txs = <<>>
    BY DEF ReadFloor, OpenedAs, TradeInv, TradeTypes
  <1>2. percent \in Nat \ {0} /\ limits \in [cap : Nat, per_trade_max : Nat, daily_limit : Nat]
    BY TradeInputs DEF ReadFloor, ValidTradeForm
  <1>3. pool \in [in : Nat \ {0}, out : Nat \ {0}]
    BY DEF TradeInv, TradeTypes, PoolReserves, ReadFloor
  <1>4. f \in [num : Nat, den : Nat] /\ FloorIsFair(f, pool.in, pool.out, percent)
    BY <1>2, <1>3, FloorFromSpotIsFair
  <1>5. draft' = [at |-> "signing", limits |-> limits, percent |-> percent, read |-> pool,
                  floor |-> f, opened |-> now]
    BY DEF ReadFloor
  <1>6. now \in Nat
    BY DEF TradeInv, TradeTypes
  <1> HIDE DEF f
  <1>7. /\ draft' \in DraftRecords
        /\ FloorIsFair(draft'.floor, draft'.read.in, draft'.read.out, draft'.percent)
        /\ draft'.at = "signing"
    BY <1>2, <1>3, <1>4, <1>5, <1>6 DEF DraftRecords
  <1>8. ~OpenedAs'
    BY <1>7 DEF OpenedAs
  <1>9. UNCHANGED <<now, pool, source, txs>>
    BY DEF ReadFloor
  <1> QED
    BY <1>1, <1>7, <1>8, <1>9 DEF TradeInv, TradeTypes, RuleIsFunded, SalesAreCounted, DaysAreCounted, TxsAreSound

\* open_trade_rule starts with the terms signed for, empty buckets and the cap in the account.
\* Nothing was sold before it.
LEMMA OpenStep == ASSUME TradeInv, OpenTradeRule PROVE TradeInv'
  <1> DEFINE l == draft.limits
  <1>1. /\ draft \in DraftRecords /\ draft.at = "signing" /\ txs = <<>> /\ source.sold = 0
        /\ FloorIsFair(draft.floor, draft.read.in, draft.read.out, draft.percent)
    BY DEF OpenTradeRule, TradeInv, TradeTypes, OpenedAs
  <1>2. /\ l.cap \in Nat /\ l.per_trade_max \in Nat /\ l.daily_limit \in Nat
        /\ draft.floor.num \in Nat \ {0} /\ draft.floor.den \in Nat \ {0}
        /\ draft.opened + RULE_LIFE \in Nat
    BY <1>1, TradeInputs DEF DraftRecords, OpenTradeRule
  <1>3. NoBuckets \in Buckets /\ \A s \in BucketSlots : NoBuckets[s].amount = 0
    BY WindowAssumption DEF NoBuckets, Buckets
  <1>4. rule' = [status |-> "active", cap |-> l.cap, spent |-> 0,
                 per_trade_max |-> l.per_trade_max, daily_limit |-> l.daily_limit,
                 buckets |-> NoBuckets, floor_num |-> draft.floor.num,
                 floor_den |-> draft.floor.den, expires_at |-> draft.opened + RULE_LIFE,
                 override_amount |-> 0, override_nonce |-> 0, last_nonce |-> 0]
    BY DEF OpenTradeRule
  <1>5. /\ draft' = [draft EXCEPT !.at = "opened"]
        /\ source' = [source EXCEPT !.amount = l.cap, !.delegate = TRUE, !.delegated = l.cap]
        /\ UNCHANGED <<now, pool, txs>>
    BY DEF OpenTradeRule
  <1>6. /\ draft' \in DraftRecords /\ draft'.at = "opened" /\ draft'.floor = draft.floor
        /\ draft'.limits = l /\ draft'.read = draft.read /\ draft'.percent = draft.percent
    BY <1>1, <1>5 DEF DraftRecords
  <1> HIDE DEF l
  <1>7. rule' \in RuleAccounts
    <2>1. NoBuckets \in Buckets
      BY <1>3
    <2> QED BY <1>2, <1>4, <2>1 DEF RuleAccounts
  <1>8. source' \in SourceAccounts /\ source'.sold = 0 /\ source'.delegated = l.cap
    BY <1>1, <1>2, <1>5 DEF TradeInv, TradeTypes, SourceAccounts
  <1>9. TradeTypes'
    BY <1>1, <1>5, <1>6, <1>7, <1>8 DEF TradeInv, TradeTypes, OpenedAs
  <1>10. RuleIsFunded'
    BY <1>2, <1>4, <1>6, <1>8 DEF RuleIsFunded
  <1>11. BucketsHold(NoBuckets, <<>>) /\ DaysKept(<<>>, l.daily_limit)
    <2>1. TradesIn(<<>>) = {} /\ \A s \in BucketSlots : OfHour(NoBuckets, <<>>, s) = {}
      BY DEF TradesIn, OfHour
    <2>2. Total(MovedIn(<<>>), {}) = 0
      BY TotalEmpty
    <2>3. ASSUME NEW s \in BucketSlots
          PROVE  /\ Total(MovedIn(<<>>), OfHour(NoBuckets, <<>>, s)) <= NoBuckets[s].amount
                 /\ NoBuckets[s].amount = 0
      <3>1. OfHour(NoBuckets, <<>>, s) = {}
        BY <2>1
      <3>2. NoBuckets[s].amount = 0
        BY <1>3
      <3>3. Total(MovedIn(<<>>), OfHour(NoBuckets, <<>>, s)) = 0
        BY <2>2, <3>1, Zenon
      <3> QED BY <3>2, <3>3
    <2>4. BucketsHold(NoBuckets, <<>>)
      BY <2>1, <2>3 DEF BucketsHold
    <2> QED BY <2>1, <2>4 DEF DaysKept
  <1>12. DaysAreCounted' /\ SalesAreCounted'
    <2>1. Total(MovedIn(<<>>), TradesIn(<<>>)) = 0
      <3>1. TradesIn(<<>>) = {}
        BY DEF TradesIn
      <3> QED BY <3>1, TotalEmpty
    <2> QED BY <1>1, <1>4, <1>5, <1>11, <2>1 DEF DaysAreCounted, SalesAreCounted
  <1>13. TxsAreSound'
    BY <1>1, <1>5 DEF TxsAreSound
  <1> QED
    BY <1>9, <1>10, <1>12, <1>13 DEF TradeInv

-----------------------------------------------------------------------------
(* The agent                                                               *)

\* What an open rule is.
LEMMA WhenOpened ==
    ASSUME TradeInv, OpenedAs
    PROVE  /\ draft \in DraftRecords /\ draft.at = "opened" /\ rule \in RuleAccounts
           /\ draft.floor.num = rule.floor_num /\ draft.floor.den = rule.floor_den
           /\ rule.floor_num \in Nat \ {0} /\ rule.floor_den \in Nat \ {0}
           /\ txs \in Seq(TxRows) /\ now \in Nat
           /\ pool \in PoolReserves /\ source \in SourceAccounts
           /\ rule.buckets \in Buckets /\ rule.daily_limit \in Nat
           /\ BucketsHold(rule.buckets, txs) /\ DaysKept(txs, rule.daily_limit)
           /\ \A i \in DOMAIN txs : TxIsSound(txs[i], draft.floor)
  <1>1. draft \in DraftRecords /\ draft.at = "opened" /\ rule \in RuleAccounts
    BY DEF TradeInv, TradeTypes, OpenedAs
  <1>2. draft.floor.num = rule.floor_num /\ draft.floor.den = rule.floor_den
    BY DEF TradeInv, RuleIsFunded
  <1>3. /\ rule.floor_num \in Nat \ {0} /\ rule.floor_den \in Nat \ {0}
        /\ rule.buckets \in Buckets /\ rule.daily_limit \in Nat
    BY <1>1 DEF RuleAccounts
  <1> QED
    BY <1>1, <1>2, <1>3 DEF TradeInv, TradeTypes, DaysAreCounted, TxsAreSound

\* One more transaction is sound with the others.
LEMMA SoundAppend ==
    ASSUME NEW rows \in Seq(TxRows), NEW row \in TxRows, NEW floor,
           \A i \in DOMAIN rows : TxIsSound(rows[i], floor), TxIsSound(row, floor)
    PROVE  \A i \in DOMAIN Append(rows, row) : TxIsSound(Append(rows, row)[i], floor)
  <1> DEFINE n == Len(rows) + 1
  <1>1. n = Len(rows) + 1
    OBVIOUS
  <1> HIDE DEF n
  <1>2. /\ DOMAIN Append(rows, row) = DOMAIN rows \union {n} /\ Append(rows, row)[n] = row
        /\ \A i \in DOMAIN rows : Append(rows, row)[i] = rows[i]
    BY <1>1, OneMoreTx
  <1> QED
    BY <1>2

\* An attempt that moved nothing.
LEMMA NothingMoved ==
    ASSUME TradeInv, OpenedAs, NEW row \in TxRows, row.event.kind # "traded",
           TxIsSound(row, draft.floor), txs' = Append(txs, row),
           UNCHANGED <<now, draft, source, pool>>,
           rule' \in RuleAccounts, rule'.cap = rule.cap, rule'.daily_limit = rule.daily_limit,
           rule'.floor_num = rule.floor_num, rule'.floor_den = rule.floor_den,
           rule'.spent = rule.spent, rule'.buckets = rule.buckets
    PROVE  TradeInv'
  <1>1. OpenedAs'
    BY DEF OpenedAs
  <1>2. txs' \in Seq(TxRows)
    BY WhenOpened
  <1>3. TradeTypes'
    BY <1>1, <1>2 DEF TradeInv, TradeTypes
  <1>4. RuleIsFunded'
    BY DEF TradeInv, RuleIsFunded, OpenedAs
  <1>5. BucketsHold(rule.buckets, Append(txs, row))
    BY WhenOpened, OthersHold
  <1>6. DaysKept(Append(txs, row), rule.daily_limit)
    BY WhenOpened, OthersKeepDays
  <1>7. DaysAreCounted' /\ SalesAreCounted'
    <2>1. TradesIn(Append(txs, row)) = TradesIn(txs) /\ TradesIn(txs) \subseteq DOMAIN txs
      BY WhenOpened, OneMoreTrade, RowsType
    <2>2. Total(MovedIn(Append(txs, row)), TradesIn(txs)) = Total(MovedIn(txs), TradesIn(txs))
      BY WhenOpened, <2>1, OneMoreMoved
    <2> QED BY <1>5, <1>6, <2>1, <2>2 DEF TradeInv, DaysAreCounted, SalesAreCounted
  <1>8. \A i \in DOMAIN Append(txs, row) : TxIsSound(Append(txs, row)[i], draft.floor)
    BY WhenOpened, SoundAppend
  <1>9. TxsAreSound'
    BY <1>8 DEF TxsAreSound
  <1> QED
    BY <1>3, <1>4, <1>7, <1>9 DEF TradeInv

\* A transaction that failed changed nothing.
LEMMA FailedTry ==
    ASSUME TradeInv, OpenedAs, NEW amount \in Nat, NEW min \in Nat, NEW nonce \in Nat,
           NEW why \in Reasons,
           txs' = Append(txs, Failed(amount, min, nonce, why)),
           UNCHANGED <<now, draft, source, pool, rule>>
    PROVE  TradeInv'
  <1> DEFINE row == Failed(amount, min, nonce, why)
  <1>1. row \in TxRows /\ row.event.kind = "failed" /\ row.event.reason = why
    BY WhenOpened DEF Failed, Tx, TxRows, TxEvents
  <1>2. TxIsSound(row, draft.floor)
    BY <1>1 DEF TxIsSound
  <1>3. txs' = Append(txs, row) /\ rule' \in RuleAccounts
    BY WhenOpened
  <1> HIDE DEF row
  <1> QED
    BY <1>1, <1>2, <1>3, NothingMoved

\* record_refusal changes nothing the rule counts.
LEMMA RefusedTry ==
    ASSUME TradeInv, OpenedAs, NEW amount \in Nat, NEW min \in Nat, NEW nonce \in Nat,
           NEW reason \in Reasons,
           RecordRefusal(amount, min, nonce, reason), UNCHANGED <<now, draft>>
    PROVE  TradeInv'
  <1> DEFINE suggested == SuggestedOverride(reason, amount)
             row == Tx(amount, min, nonce, "refused", amount, 0, reason, suggested)
  <1>1. suggested \in Nat
    BY DEF SuggestedOverride
  <1>2. /\ row \in TxRows /\ row.event.kind = "refused" /\ row.event.reason = reason
        /\ row.event.amount_in = amount /\ row.amount_in = amount
    BY <1>1, WhenOpened DEF Tx, TxRows, TxEvents
  <1>3. TxIsSound(row, draft.floor)
    BY <1>2 DEF TxIsSound
  <1>4. /\ txs' = Append(txs, row)
        /\ rule' = [rule EXCEPT !.status = IF reason = "expired" THEN "expired" ELSE @]
        /\ UNCHANGED <<source, pool>>
    BY DEF RecordRefusal
  <1>5. /\ rule' \in RuleAccounts /\ rule'.cap = rule.cap /\ rule'.daily_limit = rule.daily_limit
        /\ rule'.floor_num = rule.floor_num /\ rule'.floor_den = rule.floor_den
        /\ rule'.spent = rule.spent /\ rule'.buckets = rule.buckets
    BY <1>4, WhenOpened DEF RuleAccounts
  <1> HIDE DEF row
  <1> QED
    BY <1>2, <1>3, <1>4, <1>5, NothingMoved

\* What an attempt that broke no rule may rely on.
LEMMA PassedChecks ==
    ASSUME NEW amount, NEW nonce, NEW named, Evaluate(amount, nonce, named) = "ok"
    PROVE  /\ amount # 0
           /\ ~(Spent(rule.buckets, now) + amount > rule.daily_limit)
           /\ ~(rule.spent + amount > rule.cap)
           /\ source.delegate /\ ~(source.delegated < amount) /\ ~(source.amount < amount)
           /\ ~SpotBelowFloor(amount)
  BY DEF Evaluate

\* evaluate never says that the swap gave less than the quote.
LEMMA EvaluateGives ==
    ASSUME NEW amount, NEW nonce, NEW named
    PROVE  Evaluate(amount, nonce, named) \in Reasons
  BY DEF Evaluate, Reasons

\* settle_trade leaves a rule.
LEMMA RuleUpdated ==
    ASSUME NEW r \in RuleAccounts, NEW b \in Buckets, NEW spent \in Nat, NEW nonce \in Nat,
           NEW on \in Nat, NEW oa \in Nat,
           NEW status \in {"active", "exhausted", "expired", "revoked", "none"}
    PROVE  [r EXCEPT !.buckets = b, !.spent = spent, !.last_nonce = nonce, !.override_nonce = on,
                     !.override_amount = oa, !.status = status] \in RuleAccounts
  BY DEF RuleAccounts

\* A trade that settled: the rule, the account and the day are charged what the swap took.
LEMMA SettledTry ==
    ASSUME TradeInv, OpenedAs, NEW amount \in Nat, NEW min \in Nat, NEW nonce \in Nat,
           NEW named, Evaluate(amount, nonce, named) = "ok",
           NEW swap, swap = Swap(amount),
           CanCommit(rule.buckets, swap.debit, now),
           pool' = [in |-> pool.in + swap.debit, out |-> pool.out - swap.out],
           source' = [source EXCEPT !.amount = @ - swap.debit,
                                    !.delegated = @ - swap.debit,
                                    !.delegate = source.delegated > swap.debit,
                                    !.sold = @ + swap.debit,
                                    !.out = @ + swap.out],
           rule' = [rule EXCEPT
                   !.buckets = Commit(@, swap.debit, now),
                   !.spent = @ + swap.debit,
                   !.last_nonce = nonce,
                   !.override_nonce = IF @ = nonce THEN 0 ELSE @,
                   !.override_amount = IF rule.override_nonce = nonce THEN 0 ELSE @,
                   !.status = IF rule.spent + swap.debit >= rule.cap THEN "exhausted" ELSE @],
           txs' = Append(txs, Tx(amount, min, nonce, "traded", swap.debit, swap.out, "ok", 0)),
           UNCHANGED <<now, draft>>
    PROVE  TradeInv'
  <1> DEFINE d == swap.debit
             o == swap.out
             row == Tx(amount, min, nonce, "traded", d, o, "ok", 0)
             c == Commit(rule.buckets, d, now)
  <1>1. /\ amount \in Nat \ {0} /\ source.delegate
        /\ ~(Spent(rule.buckets, now) + amount > rule.daily_limit)
        /\ ~(rule.spent + amount > rule.cap)
        /\ ~(source.amount < amount) /\ ~(source.delegated < amount) /\ ~SpotBelowFloor(amount)
    BY PassedChecks
  <1>2. /\ d \in 1 .. amount /\ o \in Nat \ {0}
        /\ o * rule.floor_den >= d * rule.floor_num
        /\ [in |-> pool.in + d, out |-> pool.out - o] \in PoolReserves
    BY <1>1, WhenOpened, SwapClearsTheFloor
  <1> HIDE DEF d, o
  <1>3. d \in Nat \ {0}
    BY <1>2
  <1>4. CanCommit(rule.buckets, d, now)
    BY DEF d
  <1>5. c \in Buckets
    BY <1>3, <1>4, WhenOpened, CommitAdds
  <1>6. /\ row \in TxRows /\ row.event.kind = "traded" /\ row.event.amount_in = d
        /\ row.event.amount_out = o /\ row.at = now
    BY <1>2, <1>3, WhenOpened DEF Tx, TxRows, TxEvents, Reasons
  <1>7. txs' = Append(txs, row) /\ txs' \in Seq(TxRows)
    BY <1>6, WhenOpened DEF d, o
  <1>8. /\ rule' = [rule EXCEPT
                   !.buckets = c,
                   !.spent = @ + d,
                   !.last_nonce = nonce,
                   !.override_nonce = IF @ = nonce THEN 0 ELSE @,
                   !.override_amount = IF rule.override_nonce = nonce THEN 0 ELSE @,
                   !.status = IF rule.spent + d >= rule.cap THEN "exhausted" ELSE @]
        /\ source' = [source EXCEPT !.amount = @ - d, !.delegated = @ - d,
                                    !.delegate = source.delegated > d, !.sold = @ + d,
                                    !.out = @ + o]
        /\ pool' = [in |-> pool.in + d, out |-> pool.out - o]
    BY DEF d, o
  <1> HIDE DEF row, c
  <1>9. OpenedAs' /\ draft' = draft /\ now' = now
    BY DEF OpenedAs
  <1>10. /\ rule' \in RuleAccounts /\ rule'.cap = rule.cap /\ rule'.daily_limit = rule.daily_limit
         /\ rule'.floor_num = rule.floor_num /\ rule'.floor_den = rule.floor_den
         /\ rule'.spent = rule.spent + d /\ rule'.buckets = c
    <2> DEFINE status == IF rule.spent + d >= rule.cap THEN "exhausted" ELSE rule.status
               override_nonce == IF rule.override_nonce = nonce THEN 0 ELSE rule.override_nonce
               override_amount == IF rule.override_nonce = nonce THEN 0 ELSE rule.override_amount
               spent == rule.spent + d
    <2>1. rule \in RuleAccounts /\ rule.spent \in Nat
      BY WhenOpened DEF RuleAccounts
    <2>2. /\ status \in {"active", "exhausted", "expired", "revoked", "none"}
          /\ override_nonce \in Nat /\ override_amount \in Nat
      BY <2>1 DEF RuleAccounts
    <2>3. rule' = [rule EXCEPT !.buckets = c, !.spent = spent, !.last_nonce = nonce,
                               !.override_nonce = override_nonce,
                               !.override_amount = override_amount, !.status = status]
      BY <1>8
    <2>4. spent \in Nat
      BY <1>3, <2>1
    <2> HIDE DEF status, override_nonce, override_amount, spent
    <2>5. nonce \in Nat /\ c \in Buckets
      BY <1>5
    <2>6. rule' \in RuleAccounts
      <3>1. [rule EXCEPT !.buckets = c, !.spent = spent, !.last_nonce = nonce,
                         !.override_nonce = override_nonce,
                         !.override_amount = override_amount, !.status = status] \in RuleAccounts
        BY <2>1, <2>2, <2>4, <2>5, RuleUpdated, ZenonT(40)
      <3> QED BY <2>3, <3>1, Zenon
    <2>7. /\ rule'.cap = rule.cap /\ rule'.daily_limit = rule.daily_limit
          /\ rule'.floor_num = rule.floor_num /\ rule'.floor_den = rule.floor_den
      BY <2>1, <2>3 DEF RuleAccounts
    <2>8. rule'.spent = rule.spent + d /\ rule'.buckets = c
      BY <2>1, <2>3 DEF RuleAccounts, spent
    <2> QED BY <2>6, <2>7, <2>8
  <1>11. /\ source.amount - d \in Nat /\ source.delegated - d \in Nat /\ source.sold \in Nat
         /\ rule.spent \in Nat /\ rule.cap \in Nat /\ rule.spent + d <= rule.cap
         /\ rule.spent = source.sold
         /\ ~source.own => source.delegated = rule.cap - rule.spent
    <2>1. /\ source.amount \in Nat /\ source.delegated \in Nat /\ source.sold \in Nat
          /\ rule.spent \in Nat /\ rule.cap \in Nat
      BY WhenOpened DEF SourceAccounts, RuleAccounts
    <2>2. rule.spent = source.sold /\ (~source.own => source.delegated = rule.cap - rule.spent)
      BY <1>1 DEF TradeInv, RuleIsFunded
    <2>3. source.amount - d \in Nat /\ source.delegated - d \in Nat /\ rule.spent + d <= rule.cap
      BY <1>1, <1>2, <2>1, SMTT(30)
    <2> QED BY <2>1, <2>2, <2>3, Zenon
  <1>12. /\ source' \in SourceAccounts /\ source'.sold = source.sold + d
         /\ source'.delegated = source.delegated - d /\ source'.own = source.own
    <2> DEFINE delegate == source.delegated > d
               out == source.out + o
               amount_left == source.amount - d
               still == source.delegated - d
               sold == source.sold + d
    <2>1. source \in SourceAccounts
      BY WhenOpened
    <2>2. /\ out \in Nat /\ amount_left \in Nat /\ still \in Nat /\ sold \in Nat
          /\ delegate \in BOOLEAN
      <3>1. source.out \in Nat
        BY <2>1 DEF SourceAccounts
      <3> QED BY ONLY <1>2, <1>11, <3>1, SMTT(30)
    <2>3. source' = [source EXCEPT !.amount = amount_left, !.delegated = still,
                                   !.delegate = delegate, !.sold = sold, !.out = out]
      BY <1>8
    <2>4. still = source.delegated - d /\ sold = source.sold + d
      OBVIOUS
    <2> HIDE DEF delegate, out, amount_left, still, sold
    <2> QED BY <2>1, <2>2, <2>3, <2>4, ZenonT(40) DEF SourceAccounts
  <1>13. TradeTypes'
    BY <1>2, <1>7, <1>8, <1>9, <1>10, <1>12 DEF TradeInv, TradeTypes
  <1>14. RuleIsFunded'
    <2>1. /\ rule'.spent = source'.sold /\ rule'.spent <= rule'.cap
          /\ ~source'.own => source'.delegated = rule'.cap - rule'.spent
      BY <1>3, <1>10, <1>11, <1>12
    <2> QED BY <1>9, <1>10, <2>1 DEF TradeInv, RuleIsFunded
  <1>15. BucketsHold(c, Append(txs, row))
    <2>1. CanCommit(rule.buckets, row.event.amount_in, row.at)
          /\ c = Commit(rule.buckets, row.event.amount_in, row.at)
      BY <1>4, <1>6 DEF c
    <2>2. row.event.amount_in > 0
      BY <1>3, <1>6
    <2> QED BY <1>6, <2>1, <2>2, WhenOpened, TradeHolds
  <1>16. DaysKept(Append(txs, row), rule.daily_limit)
    <2>1. CanCommit(rule.buckets, row.event.amount_in, row.at)
      BY <1>4, <1>6
    <2>2. row.event.amount_in > 0
      BY <1>3, <1>6
    <2>3. Spent(rule.buckets, row.at) + row.event.amount_in <= rule.daily_limit
      <3>1. Spent(rule.buckets, now) \in Nat /\ rule.daily_limit \in Nat
        BY WhenOpened, SpentIsTotal
      <3>2. Spent(rule.buckets, now) + d <= rule.daily_limit
        BY <1>1, <1>2, <3>1
      <3> QED BY <1>6, <3>2
    <2> QED BY <1>6, <2>1, <2>2, <2>3, WhenOpened, TradeKeepsDays
  <1>17. DaysAreCounted' /\ SalesAreCounted'
    <2>1. /\ TradesIn(txs) \subseteq DOMAIN txs
          /\ TradesIn(Append(txs, row)) = TradesIn(txs) \union {Len(txs) + 1}
      BY <1>6, WhenOpened, OneMoreTrade, RowsType
    <2>2. Total(MovedIn(Append(txs, row)), TradesIn(txs) \union {Len(txs) + 1})
            = Total(MovedIn(txs), TradesIn(txs)) + d
      BY <1>6, <2>1, WhenOpened, OneMoreMoved
    <2>3. rule.spent = Total(MovedIn(txs), TradesIn(txs))
      BY DEF TradeInv, SalesAreCounted
    <2> QED BY <1>7, <1>10, <1>15, <1>16, <2>1, <2>2, <2>3 DEF DaysAreCounted, SalesAreCounted
  <1>18. TxIsSound(row, draft.floor)
    BY <1>2, <1>6, WhenOpened DEF TxIsSound
  <1>19. TxsAreSound'
    <2>1. \A i \in DOMAIN Append(txs, row) : TxIsSound(Append(txs, row)[i], draft.floor)
      BY <1>6, <1>18, WhenOpened, SoundAppend
    <2> QED BY <1>7, <1>9, <2>1 DEF TxsAreSound
  <1> QED
    BY <1>13, <1>14, <1>17, <1>19 DEF TradeInv

\* Whatever the agent tries: the swap clears what the quote cleared, so a passed attempt settles
\* or fails for one of the three reasons that are not the program's.
LEMMA TryStep ==
    ASSUME TradeInv, NEW amount \in Amounts, NEW min \in MinOuts, NEW nonce \in Nonces, NEW named,
           TradeAttempt(amount, min, nonce, named)
    PROVE  TradeInv'
  <1> DEFINE reason == Evaluate(amount, nonce, named)
  <1>1. OpenedAs /\ UNCHANGED <<now, draft>>
    BY DEF TradeAttempt
  <1>2. amount \in Nat /\ min \in Nat /\ nonce \in Nat
    BY TradeInputs
  <1>3. reason \in Reasons
    BY EvaluateGives
  <1>4. CASE /\ reason \in {"ok", "account frozen"} /\ source.outClosed
    <2>1. /\ txs' = Append(txs, Failed(amount, min, nonce, "destination closed"))
          /\ UNCHANGED <<rule, source, pool>>
      BY <1>4 DEF TradeAttempt
    <2>2. "destination closed" \in Reasons
      BY DEF Reasons
    <2> QED BY <1>1, <1>2, <2>1, <2>2, FailedTry
  <1>5. CASE /\ ~(reason \in {"ok", "account frozen"} /\ source.outClosed) /\ reason # "ok"
    <2>1. RecordRefusal(amount, min, nonce, reason)
      BY <1>5 DEF TradeAttempt
    <2> HIDE DEF reason
    <2> QED BY <1>1, <1>2, <1>3, <2>1, RefusedTry
  <1>6. CASE /\ ~(reason \in {"ok", "account frozen"} /\ source.outClosed) /\ reason = "ok"
    <2>1. SettleTrade(amount, min, nonce)
      BY <1>6 DEF TradeAttempt
    <2> DEFINE swap == Swap(amount)
               effective == Larger(min, FloorBound(amount))
    <2>2. /\ amount > TradeFee(amount) + OwnerFee(amount) /\ swap.out \in Nat \ {0}
          /\ swap.out >= FloorBound(amount)
      BY <1>1, <1>2, <1>6, PassedChecks, WhenOpened, SwapClearsTheFloor
    <2>3. /\ ~(amount <= TradeFee(amount) + OwnerFee(amount)) /\ swap.out # 0
          /\ swap.out < effective => swap.out < min
      <3>1. FloorBound(amount) \in Int
        <4>1. amount * rule.floor_num \in Nat /\ rule.floor_den \in Nat \ {0}
          BY <1>1, <1>2, WhenOpened
        <4> QED BY <4>1, CeilDivLeast DEF FloorBound
      <3>2. TradeFee(amount) \in Nat /\ OwnerFee(amount) \in Nat
        BY <1>2, FeesAreWhole
      <3>3. effective = IF min >= FloorBound(amount) THEN min ELSE FloorBound(amount)
        BY DEF Larger
      <3> HIDE DEF swap, effective
      <3> QED BY <1>2, <2>2, <3>1, <3>2, <3>3
    <2>4. CASE swap.out < min
      <3>1. /\ txs' = Append(txs, Failed(amount, min, nonce, "asked for more"))
            /\ UNCHANGED <<rule, source, pool>>
        BY <2>1, <2>3, <2>4 DEF SettleTrade
      <3>2. "asked for more" \in Reasons
        BY DEF Reasons
      <3> QED BY <1>1, <1>2, <3>1, <3>2, FailedTry
    <2>5. CASE ~(swap.out < min) /\ ~CanCommit(rule.buckets, swap.debit, now)
      <3>1. /\ txs' = Append(txs, Failed(amount, min, nonce, "clock went back"))
            /\ UNCHANGED <<rule, source, pool>>
        BY <2>1, <2>3, <2>5 DEF SettleTrade, Charged
      <3>2. "clock went back" \in Reasons
        BY DEF Reasons
      <3> QED BY <1>1, <1>2, <3>1, <3>2, FailedTry
    <2>6. CASE ~(swap.out < min) /\ CanCommit(rule.buckets, swap.debit, now)
      <3> DEFINE why == IF amount <= TradeFee(amount) + OwnerFee(amount) THEN "below the floor after all"
               ELSE IF swap.out < min THEN "asked for more"
               ELSE IF swap.out < effective \/ swap.out = 0 THEN "below the floor after all"
               ELSE IF ~CanCommit(rule.buckets, swap.debit, now) THEN "clock went back"
               ELSE "none"
      <3>1. why = "none"
        BY <2>3, <2>6
      <3>2. /\ pool' = [in |-> pool.in + swap.debit, out |-> pool.out - swap.out]
            /\ source' = [source EXCEPT !.amount = @ - swap.debit,
                                    !.delegated = @ - swap.debit,
                                    !.delegate = source.delegated > swap.debit,
                                    !.sold = @ + swap.debit,
                                    !.out = @ + swap.out]
            /\ rule' = [rule EXCEPT
                   !.buckets = Commit(@, swap.debit, now),
                   !.spent = @ + swap.debit,
                   !.last_nonce = nonce,
                   !.override_nonce = IF @ = nonce THEN 0 ELSE @,
                   !.override_amount = IF rule.override_nonce = nonce THEN 0 ELSE @,
                   !.status = IF rule.spent + swap.debit >= rule.cap THEN "exhausted" ELSE @]
            /\ txs' = Append(txs, Tx(amount, min, nonce, "traded", swap.debit, swap.out, "ok", 0))
        BY <2>1, <3>1, Zenon DEF SettleTrade, Charged
      <3> HIDE DEF swap, why
      <3>3. swap = Swap(amount)
        BY DEF swap
      <3> QED BY <1>1, <1>2, <1>6, <2>6, <3>2, <3>3, SettledTry
    <2> QED BY <2>4, <2>5, <2>6
  <1> QED
    BY <1>4, <1>5, <1>6

-----------------------------------------------------------------------------
(* The owner, the pool and the clock                                       *)

\* A step that changes neither what was traded nor what the rule counts.
LEMMA NothingTraded ==
    ASSUME TradeInv, OpenedAs, UNCHANGED <<txs, draft>>,
           now' \in Nat, pool' \in PoolReserves,
           source' \in SourceAccounts, source'.sold = source.sold,
           source'.delegate /\ ~source'.own =>
             source.delegate /\ ~source.own /\ source'.delegated = source.delegated,
           rule' \in RuleAccounts, rule'.cap = rule.cap, rule'.daily_limit = rule.daily_limit,
           rule'.floor_num = rule.floor_num, rule'.floor_den = rule.floor_den,
           rule'.spent = rule.spent, rule'.buckets = rule.buckets
    PROVE  TradeInv'
  <1>1. OpenedAs'
    BY DEF OpenedAs
  <1>2. TradeTypes'
    BY <1>1 DEF TradeInv, TradeTypes
  <1>3. RuleIsFunded'
    BY DEF TradeInv, RuleIsFunded
  <1>4. DaysAreCounted' /\ TxsAreSound' /\ SalesAreCounted'
    BY DEF TradeInv, DaysAreCounted, TxsAreSound, SalesAreCounted
  <1> QED
    BY <1>2, <1>3, <1>4 DEF TradeInv

\* The owner, the mint and the closed output account change no count.
LEMMA OwnerStep ==
    ASSUME TradeInv,
           \/ \E amount \in Amounts, nonce \in Nonces : GrantTradeOverride(amount, nonce)
           \/ RevokeTradeRule \/ CloseTradeRule \/ AccountsChange
           \/ \E amount \in Amounts : SourceChanges(amount)
    PROVE  TradeInv'
  <1>1. OpenedAs /\ UNCHANGED <<txs, draft, now, pool>>
    BY DEF GrantTradeOverride, RevokeTradeRule, CloseTradeRule, AccountsChange, SourceChanges
  <1>2. rule \in RuleAccounts /\ source \in SourceAccounts /\ now' \in Nat /\ pool' \in PoolReserves
    BY <1>1, WhenOpened
  <1>3. CASE \E amount \in Amounts, nonce \in Nonces : GrantTradeOverride(amount, nonce)
    <2>1. PICK amount \in Amounts, nonce \in Nonces : GrantTradeOverride(amount, nonce)
      BY <1>3
    <2>2. amount \in Nat /\ nonce \in Nat
      BY TradeInputs
    <2>3. /\ rule' = [rule EXCEPT !.override_amount = amount, !.override_nonce = nonce]
          /\ source' = source
      BY <2>1 DEF GrantTradeOverride
    <2>4. /\ rule' \in RuleAccounts /\ rule'.cap = rule.cap
          /\ rule'.daily_limit = rule.daily_limit
          /\ rule'.floor_num = rule.floor_num /\ rule'.floor_den = rule.floor_den
          /\ rule'.spent = rule.spent /\ rule'.buckets = rule.buckets
      BY <1>2, <2>2, <2>3 DEF RuleAccounts
    <2> QED BY <1>1, <1>2, <2>3, <2>4, NothingTraded
  <1>4. ASSUME source' = IF source.frozen THEN source
                         ELSE [source EXCEPT !.delegate = FALSE, !.delegated = 0]
        PROVE  /\ source' \in SourceAccounts /\ source'.sold = source.sold
               /\ source'.delegate /\ ~source'.own =>
                    source.delegate /\ ~source.own /\ source'.delegated = source.delegated
    <2>1. CASE source.frozen
      BY <1>2, <1>4, <2>1
    <2>2. CASE ~source.frozen
      BY <1>2, <1>4, <2>2 DEF SourceAccounts
    <2> QED BY <2>1, <2>2
  <1>5. CASE RevokeTradeRule
    <2>1. /\ rule' = [rule EXCEPT !.status = "revoked", !.override_amount = 0,
                                  !.override_nonce = 0]
          /\ source' = IF source.frozen THEN source
                       ELSE [source EXCEPT !.delegate = FALSE, !.delegated = 0]
      BY <1>5 DEF RevokeTradeRule
    <2>2. /\ rule' \in RuleAccounts /\ rule'.cap = rule.cap
          /\ rule'.daily_limit = rule.daily_limit
          /\ rule'.floor_num = rule.floor_num /\ rule'.floor_den = rule.floor_den
          /\ rule'.spent = rule.spent /\ rule'.buckets = rule.buckets
      BY <1>2, <2>1 DEF RuleAccounts
    <2> QED BY <1>1, <1>2, <1>4, <2>1, <2>2, NothingTraded
  <1>6. CASE CloseTradeRule
    <2>1. /\ rule' = [rule EXCEPT !.status = "none"]
          /\ source' = IF source.frozen THEN source
                       ELSE [source EXCEPT !.delegate = FALSE, !.delegated = 0]
      BY <1>6 DEF CloseTradeRule
    <2>2. /\ rule' \in RuleAccounts /\ rule'.cap = rule.cap
          /\ rule'.daily_limit = rule.daily_limit
          /\ rule'.floor_num = rule.floor_num /\ rule'.floor_den = rule.floor_den
          /\ rule'.spent = rule.spent /\ rule'.buckets = rule.buckets
      BY <1>2, <2>1 DEF RuleAccounts
    <2> QED BY <1>1, <1>2, <1>4, <2>1, <2>2, NothingTraded
  <1>7. CASE AccountsChange
    <2> DEFINE frozen == ~source.frozen
               outFrozen == ~source.outFrozen
    <2>1. frozen \in BOOLEAN /\ outFrozen \in BOOLEAN
      OBVIOUS
    <2>2. /\ rule' = rule
          /\ \/ source' = [source EXCEPT !.frozen = frozen]
             \/ source' = [source EXCEPT !.outFrozen = outFrozen]
             \/ source' = [source EXCEPT !.outClosed = TRUE]
      BY <1>7 DEF AccountsChange
    <2> HIDE DEF frozen, outFrozen
    <2>3. /\ source' \in SourceAccounts /\ source'.sold = source.sold
          /\ source'.delegate = source.delegate /\ source'.delegated = source.delegated
          /\ source'.own = source.own
      <3>1. CASE source' = [source EXCEPT !.frozen = frozen]
        BY <1>2, <2>1, <3>1 DEF SourceAccounts
      <3>2. CASE source' = [source EXCEPT !.outFrozen = outFrozen]
        BY <1>2, <2>1, <3>2 DEF SourceAccounts
      <3>3. CASE source' = [source EXCEPT !.outClosed = TRUE]
        BY <1>2, <3>3 DEF SourceAccounts
      <3> QED BY <2>2, <3>1, <3>2, <3>3
    <2> QED BY <1>1, <1>2, <2>2, <2>3, NothingTraded
  <1>8. CASE \E amount \in Amounts : SourceChanges(amount)
    <2>1. PICK amount \in Amounts : SourceChanges(amount)
      BY <1>8
    <2>2. amount \in Nat /\ rule' = rule /\ source.amount \in Nat
      BY <1>2, <2>1, TradeInputs DEF SourceChanges, SourceAccounts
    <2> DEFINE less == source.amount - amount
               more == source.amount + amount
    <2>3. more \in Nat /\ (amount <= source.amount => less \in Nat)
      BY <2>2
    <2>4. \/ source' = [source EXCEPT !.delegate = TRUE, !.delegated = amount, !.own = TRUE]
          \/ source' = [source EXCEPT !.delegate = FALSE, !.delegated = 0]
          \/ amount <= source.amount /\ source' = [source EXCEPT !.amount = less]
          \/ source' = [source EXCEPT !.amount = more]
      BY <2>1 DEF SourceChanges
    <2> HIDE DEF less, more
    <2>5. /\ source' \in SourceAccounts /\ source'.sold = source.sold
          /\ source'.delegate /\ ~source'.own =>
               source.delegate /\ ~source.own /\ source'.delegated = source.delegated
      <3>1. CASE source' = [source EXCEPT !.delegate = TRUE, !.delegated = amount, !.own = TRUE]
        BY <1>2, <2>2, <3>1 DEF SourceAccounts
      <3>2. CASE source' = [source EXCEPT !.delegate = FALSE, !.delegated = 0]
        BY <1>2, <3>2 DEF SourceAccounts
      <3>3. CASE amount <= source.amount /\ source' = [source EXCEPT !.amount = less]
        BY <1>2, <2>3, <3>3 DEF SourceAccounts
      <3>4. CASE source' = [source EXCEPT !.amount = more]
        BY <1>2, <2>3, <3>4 DEF SourceAccounts
      <3> QED BY <2>4, <3>1, <3>2, <3>3, <3>4
    <2> QED BY <1>1, <1>2, <2>2, <2>5, NothingTraded
  <1> QED
    BY <1>3, <1>5, <1>6, <1>7, <1>8

\* The pool and the clock move, before the rule is opened too.
LEMMA WorldStep ==
    ASSUME TradeInv, PoolMoves \/ TimeGoesOn \/ ClockGoesBack \/ UNCHANGED tradeVars
    PROVE  TradeInv'
  <1>1. UNCHANGED <<rule, source, draft, txs>>
    BY DEF PoolMoves, TimeGoesOn, ClockGoesBack, tradeVars
  <1>2. pool' \in PoolReserves
    BY TradeInputs
    DEF PoolMoves, TimeGoesOn, ClockGoesBack, tradeVars, TradeInv, TradeTypes, PoolReserves
  <1>3. now' \in Nat
    BY DEF PoolMoves, TimeGoesOn, ClockGoesBack, tradeVars, TradeInv, TradeTypes
  <1>4. OpenedAs' <=> OpenedAs
    BY <1>1 DEF OpenedAs
  <1>5. TradeTypes'
    BY <1>1, <1>2, <1>3, <1>4 DEF TradeInv, TradeTypes
  <1>6. RuleIsFunded'
    BY <1>1, <1>4 DEF TradeInv, RuleIsFunded
  <1>7. DaysAreCounted' /\ TxsAreSound' /\ SalesAreCounted'
    BY <1>1, <1>4 DEF TradeInv, DaysAreCounted, TxsAreSound, SalesAreCounted
  <1> QED
    BY <1>5, <1>6, <1>7 DEF TradeInv

\* Every step of a trade rule keeps the invariant.
LEMMA TradesGoOn == ASSUME TradeInv, [TradeNext]_tradeVars PROVE TradeInv'
  <1>1. CASE AgentTries
    BY <1>1, TryStep DEF AgentTries
  <1>2. CASE OthersAct
    BY <1>2, FloorStep, OpenStep, OwnerStep, WorldStep DEF OthersAct
  <1>3. CASE UNCHANGED tradeVars
    BY <1>3, WorldStep
  <1> QED
    BY <1>1, <1>2, <1>3 DEF TradeNext

\* The invariant of trade rules: types, the terms of the form, the account that holds what is
\* left of the cap, buckets that hold their hours, and days and trades within their bounds
\* (programs/veto/src/trade.rs).
THEOREM TradeSpecInv == TradeSpec => []TradeInv
  <1>1. TradeInit => TradeInv
    BY TradesStart
  <1>2. TradeInv /\ [TradeNext]_tradeVars => TradeInv'
    BY TradesGoOn
  <1> QED
    BY <1>1, <1>2, PTL DEF TradeSpec

-----------------------------------------------------------------------------
(* Trades are sound                                                        *)

\* What trades moved, added up.
LEMMA EventsAreTotal ==
    ASSUME NEW b, NEW S
    PROVE  MapThenSumSet(LAMBDA x : b[x].event.amount_in, S)
             = Total([x \in S |-> b[x].event.amount_in], S)
  <1> DEFINE f == [x \in S |-> b[x].event.amount_in]
             body(g) == [s \in SUBSET S |-> IF s = {} THEN 0
                                            ELSE b[Picked(s)].event.amount_in + g[s \ {Picked(s)}]]
  <1>1. ASSUME NEW g PROVE TotalsOver(f, S, g) = body(g)
    BY DEF TotalsOver, Picked
  <1>2. Totals(f, S) = CHOOSE g : g = body(g)
    BY <1>1 DEF Totals, Solves
  <1>3. MapThenSumSet(LAMBDA x : b[x].event.amount_in, S) = (CHOOSE g : g = body(g))[S]
    BY DEF MapThenSumSet, MapThenFoldSet, Picked
  <1>4. Total(f, S) = Totals(f, S)[S]
    BY DEF Total, MapThenSumSet, MapThenFoldSet, Totals, Solves, TotalsOver, Picked
  <1> QED
    BY <1>2, <1>3, <1>4

\* SumIn is the sum of what the transactions moved.
LEMMA SumIsMoved ==
    ASSUME txs \in Seq(TxRows), NEW S, S \subseteq DOMAIN txs
    PROVE  SumIn(S) = Total(MovedIn(txs), S)
  <1> DEFINE f == [x \in S |-> txs[x].event.amount_in]
             g == MovedIn(txs)
  <1>1. SumIn(S) = Total(f, S)
    BY EventsAreTotal DEF SumIn
  <1>2. IsFiniteSet(S)
    BY RowsType
  <1>3. \A i \in S : f[i] = g[i] /\ g[i] \in Int
    BY RowsType
  <1> HIDE DEF f, g
  <1>4. Total(f, S) = Total(g, S)
    BY <1>2, <1>3, TotalSame
  <1> QED
    BY <1>1, <1>4 DEF g

\* What the rule counts is what left the account, and the days are kept.
LEMMA LimitsKept == TradeInv => TradesKeepTheLimits
  <1> SUFFICES ASSUME TradeInv, OpenedAs
               PROVE  /\ rule.spent = source.sold /\ rule.spent = SumIn(Trades)
                      /\ rule.spent <= draft.limits.cap
                      /\ source.delegate /\ ~source.own => source.delegated = rule.cap - rule.spent
                      /\ \A i \in Trades :
                           SumIn({k \in Trades : k <= i /\ txs[k].at >= LatestTrade(i) - WINDOW_SECS})
                             <= draft.limits.daily_limit
    BY DEF TradesKeepTheLimits
  <1>1. rule.spent = SumIn(Trades)
    <2>1. Trades = TradesIn(txs) /\ TradesIn(txs) \subseteq DOMAIN txs
      BY DEF Trades, TradesIn
    <2>2. SumIn(TradesIn(txs)) = Total(MovedIn(txs), TradesIn(txs))
      BY <2>1, WhenOpened, SumIsMoved
    <2> QED BY <2>1, <2>2 DEF TradeInv, SalesAreCounted
  <1>2. /\ rule.cap = draft.limits.cap /\ rule.daily_limit = draft.limits.daily_limit
        /\ rule.spent = source.sold /\ rule.spent <= rule.cap
        /\ source.delegate /\ ~source.own => source.delegated = rule.cap - rule.spent
    BY DEF TradeInv, RuleIsFunded
  <1>3. Trades = TradesIn(txs) /\ \A i : LatestTrade(i) = LatestIn(txs, i)
    BY DEF Trades, TradesIn, LatestTrade, LatestIn
  <1>4. ASSUME NEW i \in Trades
        PROVE  SumIn({k \in Trades : k <= i /\ txs[k].at >= LatestTrade(i) - WINDOW_SECS})
                 <= draft.limits.daily_limit
    <2>1. {k \in Trades : k <= i /\ txs[k].at >= LatestTrade(i) - WINDOW_SECS} = DayIn(txs, i)
      BY <1>3 DEF DayIn
    <2>2. DayIn(txs, i) \subseteq DOMAIN txs
      BY DEF DayIn, TradesIn
    <2>3. Total(MovedIn(txs), DayIn(txs, i)) <= rule.daily_limit
      BY <1>3, WhenOpened DEF DaysKept
    <2>4. SumIn(DayIn(txs, i)) = Total(MovedIn(txs), DayIn(txs, i))
      BY <2>2, WhenOpened, SumIsMoved
    <2> QED BY <1>2, <2>1, <2>3, <2>4
  <1> QED
    BY <1>1, <1>2, <1>4

\* Every trade gave at least the floor, and the floor is the percentage read.
LEMMA FloorKept == TradeInv => TradesClearTheFloor
  <1> SUFFICES ASSUME TradeInv, OpenedAs PROVE TradesClearTheFloor
    BY DEF TradesClearTheFloor
  <1>1. FloorIsFair(draft.floor, draft.read.in, draft.read.out, draft.percent)
    BY WhenOpened DEF TradeInv, TradeTypes
  <1>2. ASSUME NEW i \in Trades
        PROVE  txs[i].event.amount_out * draft.floor.den >= txs[i].event.amount_in * draft.floor.num
    BY WhenOpened DEF Trades, TxIsSound
  <1> QED
    BY <1>1, <1>2 DEF TradesClearTheFloor, FloorIsFair

\* No attempt that passed fails the exchange.
LEMMA QuoteKept == TradeInv => PassedTradesSettle
  <1> SUFFICES ASSUME TradeInv, NEW i \in DOMAIN txs
               PROVE  txs[i].event.reason # "below the floor after all"
    BY DEF PassedTradesSettle
  <1>1. txs[i] \in TxRows
    BY RowsType DEF TradeInv, TradeTypes
  <1>2. txs[i].event.reason \in Reasons
    BY <1>1 DEF TxRows, TxEvents
  <1> QED
    BY <1>2 DEF Reasons

\* A clock that is behind forgets no bucket that one ahead of it still counts.
LEMMA SpentBehind ==
    ASSUME NEW b \in Buckets, NEW t \in Nat, NEW u \in Nat, t <= u
    PROVE  Spent(b, u) <= Spent(b, t) /\ Spent(b, t) \in Nat /\ Spent(b, u) \in Nat
  <1> DEFINE W == InWindow(b, t)
             V == InWindow(b, u)
             f == [s \in W |-> b[s].amount]
             g == [s \in V |-> b[s].amount]
  <1>1. /\ Spent(b, t) = Total(f, W) /\ Spent(b, u) = Total(g, V)
        /\ Total(f, W) \in Nat /\ Total(g, V) \in Nat
    BY SpentIsTotal
  <1>2. IsFiniteSet(W) /\ IsFiniteSet(V)
    BY BucketsFinite
  <1>3. Hour(t) \in Int /\ Hour(u) \in Int /\ Hour(t) <= Hour(u) /\ WINDOW_HOURS \in Nat
    BY BucketsFinite, HoursOfADay, WindowAssumption
  <1>4. \A s \in BucketSlots : b[s].hour \in Int /\ b[s].amount \in Nat
    BY WindowAssumption DEF Buckets
  <1>5. V \subseteq W
    BY <1>3, <1>4 DEF InWindow
  <1>6. /\ \A s \in V : g[s] = f[s] /\ f[s] \in Int
        /\ \A s \in W : f[s] \in Nat
    BY <1>4, <1>5 DEF InWindow
  <1>7. Total(g, V) = Total(f, V)
    <2> HIDE DEF f, g, V, W
    <2> QED BY <1>2, <1>6, TotalSame
  <1>8. Total(f, V) <= Total(f, W)
    <2> HIDE DEF f, g, V, W
    <2>1. \A s \in W : f[s] \in Nat /\ f[s] <= f[s]
      BY <1>6
    <2> QED BY <1>2, <1>5, <2>1, TotalMonotone
  <1> QED
    BY <1>1, <1>7, <1>8

\* The agent's own sum of the window is at least the program's when its machine is not ahead.
LEMMA RoomIsSeen == TradeInv => AgentSeesItsRoom
  <1> SUFFICES ASSUME TradeInv PROVE AgentSeesItsRoom
    OBVIOUS
  <1>1. ASSUME NEW i \in DOMAIN txs PROVE txs[i].event.kind = "failed" \/ TradeResult(txs[i]) # {}
    <2>1. OpenedAs /\ txs[i] \in TxRows
      BY RowsType DEF TradeInv, TradeTypes
    <2>2. txs[i].event.kind \in {"failed", "traded", "refused"}
      BY <2>1 DEF TxRows, TxEvents
    <2>3. txs[i].event.kind = "refused" => txs[i].event.amount_in = txs[i].amount_in
      BY <2>1, WhenOpened DEF TxIsSound
    <2>4. txs[i].event.kind # "failed" => txs[i].event \in TradeResult(txs[i])
      BY <2>2, <2>3 DEF TradeResult
    <2> QED BY <2>4
  <1>2. ASSUME OpenedAs, rule.status = "active", NEW amount \in Amounts, NEW clock \in 0 .. now,
               amount <= EffectivePerTradeMax(NextTradeNonce), amount <= StatusToday(clock),
               amount <= Remaining
        PROVE  Evaluate(amount, NextTradeNonce, "pinned")
                 \notin {"stale nonce", "over per trade max", "over daily", "over cap"}
    <2> DEFINE n == NextTradeNonce
               s == Spent(rule.buckets, now)
    <2>1. /\ rule.cap \in Nat /\ rule.spent \in Nat /\ rule.daily_limit \in Nat
          /\ rule.override_nonce \in Nat /\ rule.last_nonce \in Nat
          /\ rule.per_trade_max \in Nat /\ rule.override_amount \in Nat
      BY <1>2, WhenOpened DEF RuleAccounts
    <2>2. amount \in Nat /\ s \in Nat
      BY <1>2, TradeInputs, WhenOpened, SpentIsTotal
    <2>3. n \in Nat /\ ~(n <= rule.last_nonce)
      BY <2>1 DEF NextTradeNonce
    <2>4. EffectivePerTradeMax(n) \in Nat /\ ~(amount > EffectivePerTradeMax(n))
      <3>1. EffectivePerTradeMax(n) \in Nat
        BY <2>1 DEF EffectivePerTradeMax, Larger
      <3> HIDE DEF n
      <3> QED BY <1>2, <2>2, <3>1 DEF n
    <2>5. /\ StatusToday(clock) = Larger(0, rule.daily_limit - Spent(rule.buckets, clock))
          /\ s <= Spent(rule.buckets, clock) /\ Spent(rule.buckets, clock) \in Nat
      <3>1. StatusToday(clock) = Larger(0, rule.daily_limit - Spent(rule.buckets, clock))
        BY DEF StatusToday, Spent
      <3>2. clock \in Nat /\ clock <= now /\ now \in Nat /\ rule.buckets \in Buckets
        BY <1>2, WhenOpened
      <3> QED BY <3>1, <3>2, SpentBehind
    <2> HIDE DEF s, n
    <2>6. amount = 0 \/ ~(s + amount > rule.daily_limit)
      BY <1>2, <2>1, <2>2, <2>5 DEF Larger
    <2>7. ~(rule.spent + amount > rule.cap)
      BY <1>2, <2>1, <2>2 DEF Remaining
    <2>8. Evaluate(amount, n, "pinned")
            \notin {"stale nonce", "over per trade max", "over daily", "over cap"}
      BY <2>3, <2>4, <2>6, <2>7, Zenon DEF Evaluate, s
    <2> QED BY <2>8 DEF n
  <1> QED
    BY <1>1, <1>2 DEF AgentSeesItsRoom

\* A confirmed record matches the one row the transaction is matched with.
LEMMA ConfirmedIsSound == ConfirmedTradesHappened
  <1> SUFFICES ASSUME NEW i \in DOMAIN txs, NEW k \in DOMAIN ledger, Confirmed(ledger[k], txs[i])
               PROVE  /\ ledger[k].kind = txs[i].event.kind
                      /\ ledger[k].amount_in = txs[i].event.amount_in
                      /\ ledger[k].amount_out = txs[i].event.amount_out
                      /\ ledger[k].min_out = txs[i].min_out
                      /\ ledger[k].reason = txs[i].event.reason
    BY DEF ConfirmedTradesHappened
  <1> DEFINE R == RowsOf(txs[i])
             j == CHOOSE j \in R : TRUE
  <1>1. HasEvent(txs[i]) /\ Cardinality(R) = 1 /\ ledger[k] = ledger[j]
    BY DEF Confirmed, ExportedTrade
  <1>2. R # {}
    BY <1>1, FS_EmptySet
  <1>3. j \in R
    BY <1>2
  <1> HIDE DEF j
  <1> QED
    BY <1>1, <1>3 DEF RowsOf, HasEvent

\* However the pool, the mint, the owner and the clock move, and whatever the agent tries: what
\* the rule counts is what its swaps took, the day and the floor are kept, what passes the
\* program's quote settles, and what the agent reads on a machine that is not ahead of the chain
\* and a reader confirms is what happened
\* (programs/veto/src/trade.rs, sdk/src/agent.ts, tools/trade.ts).
THEOREM TradesAreSoundAlways == TradeSpec => []TradesAreSound
  <1>1. TradeInv => TradesAreSound
    BY LimitsKept, FloorKept, QuoteKept, RoomIsSeen, ConfirmedIsSound DEF TradesAreSound
  <1> QED
    BY <1>1, TradeSpecInv, PTL

=============================================================================
