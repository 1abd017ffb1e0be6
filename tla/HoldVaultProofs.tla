--------------------------- MODULE HoldVaultProofs ---------------------------
(***************************************************************************)
(* Theorems about HoldVault, for any keys, destinations, rules, amounts    *)
(* and clock values, any window length, and any capacity of its lists and  *)
(* of its ledger.                                                          *)
(*                                                                         *)
(* First what each instruction keeps; then what the instructions of a      *)
(* vault add up to: the record a reader decodes tells what stands, every   *)
(* withdrawal ends the way the phone and the SDK said it would, and        *)
(* everyday payments stay within the limits.                               *)
(***************************************************************************)
EXTENDS HoldPreview, CommonProofs

-----------------------------------------------------------------------------
(* Helpers                                                                 *)

\* One step forward in a ring and one step back.
LEMMA BackOneSlot ==
    ASSUME NEW c \in Nat \ {0}, NEW slot \in 0 .. c - 1
    PROVE  (((slot + 1) % c) + c - 1) % c = slot
  <1>1. CASE slot + 1 < c
    <2>1. (slot + 1) % c = slot + 1
      BY <1>1
    <2>2. slot + 1 + c - 1 = slot + c
      OBVIOUS
    <2>3. (slot + c) % c = slot
      OBVIOUS
    <2> QED BY <2>1, <2>2, <2>3
  <1>2. CASE slot + 1 = c
    <2>1. (slot + 1) % c = 0
      BY <1>2
    <2>2. 0 + c - 1 = slot
      BY <1>2
    <2>3. slot % c = slot
      OBVIOUS
    <2> QED BY <2>1, <2>2, <2>3
  <1> QED BY <1>1, <1>2

\* The entry record has just written is the newest one.
LEMMA NewestIsRecorded ==
    ASSUME NEW E, NEW ring \in Ring(E), NEW e
    PROVE  Newest(Record(ring, e)) = e
  <1> DEFINE slot == ring.head % LEDGER_CAPACITY
             head == (slot + 1) % LEDGER_CAPACITY
  <1>1. slot \in Slots /\ ring.entries \in [Slots -> E \union {EmptySlot}]
    BY RingAssumption DEF Ring, Slots
  <1>2. (head + LEDGER_CAPACITY - 1) % LEDGER_CAPACITY = slot
    <2> HIDE DEF slot
    <2> QED BY <1>1, BackOneSlot, RingAssumption DEF Slots
  <1>3. Record(ring, e).head = head /\ Record(ring, e).entries[slot] = e
    <2> HIDE DEF slot
    <2> QED BY <1>1 DEF Record, slot
  <1> QED
    BY <1>2, <1>3 DEF Newest

\* A window lasts at least a second.
LEMMA WindowPositive == WINDOW_SECS \in Nat /\ WINDOW_SECS >= 1
  BY WindowAssumption DEF WINDOW_SECS

\* A delay is at least a window.
LEMMA DelayIsADay ==
    ASSUME NEW delay, DelayAllowed(delay)
    PROVE  delay \in Nat /\ delay >= WINDOW_SECS
  BY WindowPositive DEF DelayAllowed

\* record_release keeps the buckets buckets.
LEMMA ReleaseType ==
    ASSUME NEW buckets \in Buckets, NEW amount \in Nat, NEW t \in Int
    PROVE  RecordRelease(buckets, amount, t) \in Buckets
  <1> DEFINE old == buckets[SlotOf(t)]
             base == IF ReleaseResets(old, Hour(t)) THEN [hour |-> Hour(t), amount |-> 0]
                     ELSE old
  <1>1. Hour(t) \in Int
    BY WindowAssumption DEF Hour
  <1>2. SlotOf(t) \in BucketSlots
    BY <1>1, WindowAssumption DEF SlotOf, BucketSlots, BUCKET_COUNT
  <1>3. base \in [hour : Int, amount : 0 .. U64_MAX]
    BY <1>1, <1>2, WindowAssumption DEF Buckets
  <1>4. SatAdd(base.amount, amount) \in 0 .. U64_MAX
    BY <1>3, WindowAssumption DEF SatAdd
  <1>5. [base EXCEPT !.amount = SatAdd(@, amount)] \in [hour : Int, amount : 0 .. U64_MAX]
    BY <1>3, <1>4
  <1> QED
    BY <1>2, <1>5 DEF RecordRelease, Buckets

-----------------------------------------------------------------------------
(* Type correctness                                                        *)

\* The rules taken field by field from two sets of rules are rules.
LEMMA AdoptType ==
    ASSUME NEW r \in HoldChange, NEW values \in HoldChange, NEW fields
    PROVE  Adopt(r, values, fields) \in HoldChange
  BY DEF Adopt, HoldChange

\* A record written by an instruction keeps the ledger's type.
LEMMA WritesType ==
    ASSUME TypeOK, NEW kind \in Kinds, NEW amount \in Nat,
           NEW destination \in Keys \union Destinations \union {NoKey, Vault},
           NEW id \in Ids \union {0},
           NEW reason \in {"NONE", "INSUFFICIENT_FUNDS", "PENDING_FULL"} \union SUBSET Fields,
           Writes(kind, amount, destination, id, reason)
    PROVE  ledger' \in Ring(HoldEntry)
  <1>1. MkEntry(kind, amount, destination, id, reason) \in HoldEntry
    BY DEF MkEntry, HoldEntry
  <1> QED
    BY <1>1, RecordType DEF Writes, TypeOK

\* Releasing an amount keeps the history's type, and touches what was released only.
LEMMA ReleasedType ==
    ASSUME NEW p \in Past, NEW amount \in Nat, now \in Seconds
    PROVE  /\ Released(p, amount) \in Past
           /\ Released(p, amount).held = p.held /\ Released(p, amount).settled = p.settled
           /\ Released(p, amount).paidTo = p.paidTo /\ Released(p, amount).asked = p.asked
           /\ Released(p, amount).armed = p.armed
  <1>1. PICK last, recent, q :
            /\ last = IF now > p.lastOut THEN now ELSE p.lastOut
            /\ recent = [t \in Seconds |-> IF t <= DayBefore(last) THEN 0
                                            ELSE p.recent[t] + IF t = now THEN amount ELSE 0]
            /\ q = Released(p, amount)
    OBVIOUS
  <1>2. q = [p EXCEPT !.lastOut = last, !.recent = recent]
    BY <1>1 DEF Released
  <1>3. last \in Seconds
    BY <1>1 DEF Past
  <1>4. recent \in [Seconds -> Nat]
    <2>1. \A t \in Seconds : p.recent[t] \in Nat
      BY DEF Past
    <2> QED BY <1>1, <2>1
  <1>5. /\ q \in Past /\ q.held = p.held /\ q.settled = p.settled /\ q.paidTo = p.paidTo
        /\ q.asked = p.asked /\ q.armed = p.armed
    BY <1>2, <1>3, <1>4 DEF Past
  <1> QED
    BY <1>1, <1>5

\* Clearing rows keeps the account's type.
LEMMA PendingType ==
    ASSUME NEW v \in HoldVaultAccount, NEW rows \in SUBSET PendingWithdrawal
    PROVE  [v EXCEPT !.pending = rows] \in HoldVaultAccount
  BY DEF HoldVaultAccount

\* A withdrawal keeps every variable's type, whichever way it goes.
LEMMA WithdrawType ==
    ASSUME TypeOK, NEW destination \in Destinations, NEW amount \in Amounts,
           Withdraw(destination, amount)
    PROVE  TypeOK'
  <1>1. amount \in Nat /\ amount > 0
    BY HoldAssumption DEF Withdraw
  <1>2. CASE WithdrawUncovered(destination, amount)
    <2>1. ledger' \in Ring(HoldEntry)
      BY <1>1, <1>2, WritesType DEF WithdrawUncovered, Kinds
    <2> QED BY <1>2, <2>1 DEF WithdrawUncovered, TypeOK
  <1>3. CASE WithdrawPaid(destination, amount)
    <2>1. ledger' \in Ring(HoldEntry)
      BY <1>1, <1>3, WritesType DEF WithdrawPaid, Kinds
    <2>2. RecordRelease(vault.daily_buckets, amount, now) \in Buckets
      BY <1>1, ReleaseType DEF TypeOK, HoldVaultAccount, Seconds
    <2>3. vault' \in HoldVaultAccount
      BY <1>3, <2>2 DEF WithdrawPaid, TypeOK, HoldVaultAccount
    <2>4. past' \in Past
      BY <1>1, <1>3, ReleasedType DEF WithdrawPaid, TypeOK
    <2>5. balance' \in Nat /\ now' \in Seconds
      BY <1>1, <1>3 DEF WithdrawPaid, TypeOK
    <2> QED BY <2>1, <2>3, <2>4, <2>5 DEF TypeOK
  <1>4. CASE WithdrawHeld(destination, amount)
    <2> DEFINE id == vault.next_withdrawal_id
               row == [id |-> id, amount |-> amount, destination |-> destination,
                       unlock_at |-> Due(vault.rules.delay_secs)]
               origin == [at |-> now, delay |-> vault.rules.delay_secs,
                          guardian |-> vault.rules.guardian]
    <2>1. id \in Ids /\ id + 1 \in Ids
      BY <1>4, WindowAssumption DEF WithdrawHeld, TypeOK, HoldVaultAccount, Ids
    <2>2. row \in PendingWithdrawal
      BY <1>1, <2>1 DEF PendingWithdrawal, Due, TypeOK, HoldVaultAccount, HoldChange, Seconds
    <2>3. origin \in Origin
      BY DEF Origin, TypeOK, HoldVaultAccount, HoldChange
    <2>4. ledger' \in Ring(HoldEntry)
      BY <1>1, <1>4, <2>1, WritesType DEF WithdrawHeld, Kinds
    <2>5. vault' = [vault EXCEPT !.next_withdrawal_id = id + 1, !.pending = @ \union {row}]
      BY <1>4 DEF WithdrawHeld
    <2>6. vault' \in HoldVaultAccount
      <3> HIDE DEF id, row
      <3> QED BY <2>1, <2>2, <2>5 DEF TypeOK, HoldVaultAccount
    <2>7. past' = [past EXCEPT !.held[id] = origin]
      BY <1>4 DEF WithdrawHeld
    <2>8. past' \in Past
      <3> HIDE DEF id, origin
      <3> QED BY <2>1, <2>3, <2>7 DEF TypeOK, Past
    <2> QED BY <1>4, <2>4, <2>6, <2>8 DEF WithdrawHeld, TypeOK
  <1>5. CASE WithdrawFull(destination, amount)
    <2>1. ledger' \in Ring(HoldEntry)
      BY <1>1, <1>5, WritesType DEF WithdrawFull, Kinds
    <2> QED BY <1>5, <2>1 DEF WithdrawFull, TypeOK
  <1> QED
    BY <1>2, <1>3, <1>4, <1>5 DEF Withdraw

\* Paying a row out keeps every variable's type.
LEMMA PayRowType ==
    ASSUME TypeOK, NEW row \in vault.pending, NEW kind \in Kinds, PayRow(row, kind)
    PROVE  TypeOK'
  <1>1. row \in PendingWithdrawal
    BY DEF TypeOK, HoldVaultAccount
  <1>2. /\ row.id \in Ids /\ row.amount \in Nat /\ row.destination \in Destinations
    BY <1>1 DEF PendingWithdrawal
  <1>3. ledger' \in Ring(HoldEntry)
    BY <1>2, WritesType DEF PayRow
  <1>4. vault' \in HoldVaultAccount
    <2>1. RecordRelease(vault.daily_buckets, row.amount, now) \in Buckets
      BY <1>2, ReleaseType DEF TypeOK, HoldVaultAccount, Seconds
    <2>2. Remember(vault.known, row.destination) \in SUBSET Destinations
      BY <1>2 DEF Remember, TypeOK, HoldVaultAccount
    <2>3. Without(row) \in SUBSET PendingWithdrawal
      BY DEF Without, TypeOK, HoldVaultAccount
    <2> QED BY <2>1, <2>2, <2>3 DEF PayRow, TypeOK, HoldVaultAccount
  <1>5. past' \in Past
    <2> DEFINE p == Released(past, row.amount)
    <2>1. p \in Past
      BY <1>2, ReleasedType DEF TypeOK
    <2>2. past' = [p EXCEPT !.held[row.id] = NoOrigin,
                            !.settled = @ \union {row.id},
                            !.paidTo = @ \union {row.destination}]
      BY DEF PayRow
    <2>3. NoOrigin \in Origin
      BY HoldAssumption DEF NoOrigin, Origin, Seconds
    <2> HIDE DEF p
    <2> QED BY <1>2, <2>1, <2>2, <2>3 DEF Past
  <1>6. balance' \in Nat /\ now' \in Seconds
    BY <1>2 DEF PayRow, TypeOK
  <1> QED
    BY <1>3, <1>4, <1>5, <1>6 DEF TypeOK

\* What waits, and what propose_change applies at once, are fields.
LEMMA FieldsType ==
    ASSUME NEW r, NEW values
    PROVE  Tightened(r, values) \subseteq Fields /\ Loosened(r, values) \subseteq Fields
  BY DEF Tightened, Loosened

\* A proposed change keeps every variable's type.
LEMMA ProposeType ==
    ASSUME TypeOK, NEW values \in Rules, ProposeChange(values)
    PROVE  TypeOK'
  <1> DEFINE tighten == Tightened(vault.rules, values)
             loosen == Loosened(vault.rules, values)
             r == Adopt(vault.rules, values, tighten)
             change == [active |-> TRUE, fields |-> loosen, values |-> values,
                        effective_at |-> Due(r.delay_secs)]
             origin == [at |-> now, delay |-> r.delay_secs, guardian |-> r.guardian]
  <1>1. values \in HoldChange /\ vault.rules \in HoldChange
    BY HoldAssumption DEF TypeOK, HoldVaultAccount
  <1>2. r \in HoldChange
    BY <1>1, AdoptType
  <1>3. change \in PendingChange
    <2> HIDE DEF r
    <2>1. Due(r.delay_secs) \in Int
      BY <1>2 DEF Due, TypeOK, Seconds, HoldChange
    <2> QED BY <1>1, <2>1, FieldsType DEF PendingChange
  <1>4. origin \in Origin
    <2> HIDE DEF r
    <2> QED BY <1>2 DEF Origin, TypeOK, HoldChange
  <1>5. vault' \in HoldVaultAccount
    <2>1. vault' = [vault EXCEPT !.rules = r, !.change = IF loosen = {} THEN @ ELSE change]
      BY DEF ProposeChange
    <2> HIDE DEF r, change, loosen
    <2> QED BY <1>2, <1>3, <2>1 DEF TypeOK, HoldVaultAccount
  <1>6. past' \in Past
    <2>1. past' = IF loosen = {} THEN past ELSE [past EXCEPT !.asked = origin]
      BY DEF ProposeChange
    <2> HIDE DEF origin, loosen
    <2> QED BY <1>4, <2>1 DEF TypeOK, Past
  <1>7. ledger' \in Ring(HoldEntry)
    <2>1. /\ MkEntry("CHANGE_APPLIED", 0, NoKey, 0, tighten) \in HoldEntry
          /\ MkEntry("CHANGE_PROPOSED", 0, values.safe_address, 0, loosen) \in HoldEntry
      <3> HIDE DEF tighten, loosen
      <3> QED BY <1>1, FieldsType DEF MkEntry, HoldEntry, Kinds, HoldChange, tighten, loosen
    <2> QED BY <2>1, RecordType DEF ProposeChange, WritesChange, TypeOK
  <1>8. now' \in Seconds /\ balance' \in Nat
    BY DEF ProposeChange, TypeOK
  <1> QED
    BY <1>5, <1>6, <1>7, <1>8 DEF TypeOK

\* Those who may stop, freeze, recover and cancel are wallets.
LEMMA AuthorityType == OwnerOrGuardian \subseteq Keys
  BY DEF OwnerOrGuardian

\* NoChange and NoOrigin are values of their types.
LEMMA NothingType == NoChange \in PendingChange /\ NoOrigin \in Origin
  <1>1. NoRules \in HoldChange
    BY WindowAssumption DEF NoRules, HoldChange
  <1> QED
    BY <1>1, HoldAssumption DEF NoChange, NoOrigin, PendingChange, Origin, Seconds

\* The history of the armed thaw may be set to any origin.
LEMMA ArmedType ==
    ASSUME NEW p \in Past, NEW o \in Origin
    PROVE  [p EXCEPT !.armed = o] \in Past /\ [p EXCEPT !.armed = o].armed = o
  BY DEF Past

\* Every variable keeps its type through every instruction and every tick.
LEMMA HoldTypeStep == TypeOK /\ [Next]_vars => TypeOK'
  <1> SUFFICES ASSUME TypeOK, [Next]_vars PROVE TypeOK'
    OBVIOUS
  <1>1. ASSUME NEW amount \in Amounts, Deposit(amount) PROVE TypeOK'
    <2>1. amount \in Nat
      BY HoldAssumption
    <2>2. ledger' \in Ring(HoldEntry)
      BY <1>1, <2>1, WritesType DEF Deposit, Kinds
    <2> QED BY <1>1, <2>1, <2>2 DEF Deposit, TypeOK
  <1>2. ASSUME NEW amount \in Amounts, Send(amount) PROVE TypeOK'
    BY <1>2, HoldAssumption DEF Send, TypeOK
  <1>3. ASSUME NEW destination \in Destinations, NEW amount \in Amounts,
               Withdraw(destination, amount)
        PROVE  TypeOK'
    BY <1>3, WithdrawType
  <1>4. ASSUME NEW row \in vault.pending, Execute(row) \/ Skip(row) PROVE TypeOK'
    BY <1>4, PayRowType DEF Execute, Skip, Kinds
  <1>5. ASSUME NEW row \in vault.pending, Stop(row) PROVE TypeOK'
    <2>1. row \in PendingWithdrawal
      BY DEF TypeOK, HoldVaultAccount
    <2>2. row.id \in Ids /\ row.amount \in Nat /\ row.destination \in Destinations
      BY <2>1 DEF PendingWithdrawal
    <2>3. ledger' \in Ring(HoldEntry)
      BY <1>5, <2>2, WritesType DEF Stop, Kinds
    <2>4. vault' \in HoldVaultAccount
      BY <1>5, PendingType DEF Stop, Without, TypeOK, HoldVaultAccount
    <2>5. past' \in Past
      <3> DEFINE p == [past EXCEPT !.held[row.id] = NoOrigin]
      <3>1. p \in Past
        BY <2>2, NothingType DEF TypeOK, Past
      <3>2. past' = [p EXCEPT !.settled = @ \union {row.id}]
        BY <1>5 DEF Stop
      <3> HIDE DEF p
      <3>3. [p EXCEPT !.settled = @ \union {row.id}] \in Past
        BY <2>2, <3>1 DEF Past
      <3> QED BY <3>2, <3>3
    <2> QED BY <1>5, <2>3, <2>4, <2>5 DEF Stop, TypeOK
  <1>6. ASSUME NEW authority \in Keys, Freeze(authority) PROVE TypeOK'
    <2>1. ledger' \in Ring(HoldEntry)
      BY <1>6, WritesType DEF Freeze, Kinds
    <2>2. vault' \in HoldVaultAccount
      BY <1>6 DEF Freeze, TypeOK, HoldVaultAccount
    <2>3. past' \in Past
      <3>1. past' = [past EXCEPT !.armed = NoOrigin]
        BY <1>6 DEF Freeze
      <3>2. past \in Past
        BY DEF TypeOK
      <3> QED BY <3>1, <3>2, ArmedType, NothingType
    <2> QED BY <1>6, <2>1, <2>2, <2>3 DEF Freeze, TypeOK
  <1>7. CASE Unfreeze
    <2>1. CASE FinishUnfreeze
      <3>1. ledger' \in Ring(HoldEntry)
        BY <2>1, WritesType DEF FinishUnfreeze, Kinds
      <3>2. vault' \in HoldVaultAccount
        <4> DEFINE v == [vault EXCEPT !.frozen = FALSE]
        <4>1. v \in HoldVaultAccount
          BY DEF TypeOK, HoldVaultAccount
        <4>2. vault' = [v EXCEPT !.unfreeze_at = 0]
          BY <2>1 DEF FinishUnfreeze, Thawed
        <4> HIDE DEF v
        <4>3. [v EXCEPT !.unfreeze_at = 0] \in HoldVaultAccount
          BY <4>1 DEF HoldVaultAccount
        <4> QED BY <4>2, <4>3
      <3>3. past' \in Past
        BY <2>1, ArmedType, NothingType DEF FinishUnfreeze, TypeOK
      <3> QED BY <2>1, <3>1, <3>2, <3>3 DEF FinishUnfreeze, TypeOK
    <2>2. CASE ArmUnfreeze
      <3>1. ledger' \in Ring(HoldEntry)
        <4>1. Writes("UNFREEZE_SCHEDULED", 0, NoKey, 0, "NONE")
          BY <2>2 DEF ArmUnfreeze
        <4> QED BY <4>1, WritesType DEF Kinds
      <3>2. Due(vault.rules.delay_secs) \in Int
        BY DEF Due, TypeOK, Seconds, HoldVaultAccount, HoldChange
      <3>3. vault' \in HoldVaultAccount
        BY <2>2, <3>2 DEF ArmUnfreeze, TypeOK, HoldVaultAccount
      <3>4. PICK o : o = [at |-> now, delay |-> vault.rules.delay_secs, guardian |-> NoKey]
        OBVIOUS
      <3>5. o \in Origin
        BY <3>4 DEF Origin, TypeOK, HoldVaultAccount, HoldChange
      <3>6. past' \in Past
        BY <2>2, <3>4, <3>5, ArmedType DEF ArmUnfreeze, TypeOK
      <3> QED BY <2>2, <3>1, <3>3, <3>6 DEF ArmUnfreeze, TypeOK
    <2> QED BY <1>7, <2>1, <2>2 DEF Unfreeze, UnfreezeByBoth, UnfreezeAlone
  <1>8. ASSUME NEW destination \in Destinations, Recover(destination) PROVE TypeOK'
    <2>1. ledger' \in Ring(HoldEntry)
      BY <1>8, WritesType DEF Recover, Kinds, TypeOK
    <2>2. vault' \in HoldVaultAccount
      BY <1>8, PendingType DEF Recover, Unclaimed, TypeOK
    <2>3. PendingIds \subseteq Ids
      BY DEF PendingIds, TypeOK, HoldVaultAccount, PendingWithdrawal
    <2>4. past' \in Past
      <3>1. [i \in Ids |-> NoOrigin] \in [Ids -> Origin]
        BY NothingType
      <3> QED BY <1>8, <2>3, <3>1 DEF Recover, TypeOK, Past
    <2> QED BY <1>8, <2>1, <2>2, <2>4 DEF Recover, TypeOK
  <1>9. ASSUME NEW values \in Rules, ProposeChange(values) PROVE TypeOK'
    BY <1>9, ProposeType
  <1>10. CASE ApplyChange
    <2>1. vault.change \in PendingChange /\ vault.rules \in HoldChange
      BY DEF TypeOK, HoldVaultAccount
    <2>2. /\ vault.change.values \in HoldChange
          /\ vault.change.fields \in SUBSET Fields
          /\ vault.change.values.safe_address \in Keys \union {NoKey, Vault}
      BY <2>1 DEF PendingChange, HoldChange
    <2>3. ledger' \in Ring(HoldEntry)
      BY <1>10, <2>2, WritesType DEF ApplyChange, Kinds
    <2>4. Adopt(vault.rules, vault.change.values, vault.change.fields) \in HoldChange
      BY <2>1, <2>2, AdoptType
    <2>5. vault' \in HoldVaultAccount
      BY <1>10, <2>4, NothingType DEF ApplyChange, TypeOK, HoldVaultAccount
    <2>6. past' \in Past
      BY <1>10, NothingType DEF ApplyChange, TypeOK, Past
    <2> QED BY <1>10, <2>3, <2>5, <2>6 DEF ApplyChange, TypeOK
  <1>11. CASE CancelChange
    <2>1. ledger' \in Ring(HoldEntry)
      BY <1>11, WritesType DEF CancelChange, Kinds
    <2>2. vault' \in HoldVaultAccount /\ past' \in Past
      BY <1>11, NothingType DEF CancelChange, TypeOK, HoldVaultAccount, Past
    <2> QED BY <1>11, <2>1, <2>2 DEF CancelChange, TypeOK
  <1>12. CASE Tick \/ Rewind
    <2>1. now' \in Seconds
      BY <1>12, HoldAssumption DEF Tick, Rewind, TypeOK, Seconds
    <2> QED BY <1>12, <2>1 DEF Tick, Rewind, TypeOK
  <1>13. CASE UNCHANGED vars
    BY <1>13 DEF vars, TypeOK
  <1> QED
    BY <1>1, <1>2, <1>3, <1>4, <1>5, <1>6, <1>7, <1>8, <1>9, <1>10, <1>11, <1>12, <1>13
    DEF Next

\* A vault as init_vault leaves it is well typed.
LEMMA HoldTypeInit == Init => TypeOK
  <1> SUFFICES ASSUME Init PROVE TypeOK
    OBVIOUS
  <1>1. PICK r \in Rules : InitVault(r)
    BY DEF Init
  <1>2. r \in HoldChange
    BY HoldAssumption
  <1>3. NoBuckets \in Buckets
    BY WindowAssumption DEF NoBuckets, Buckets
  <1>4. 1 \in Ids
    BY HoldAssumption, WindowAssumption DEF Ids
  <1>5. vault \in HoldVaultAccount
    BY <1>1, <1>2, <1>3, <1>4, NothingType DEF InitVault, HoldVaultAccount
  <1>6. ledger \in Ring(HoldEntry)
    <2>1. EmptyRing \in Ring(HoldEntry)
      BY RingAssumption DEF EmptyRing, Ring, Slots
    <2>2. MkEntry("OPENED", 0, r.safe_address, 0, "NONE") \in HoldEntry
      BY <1>2 DEF MkEntry, HoldEntry, Kinds, HoldChange
    <2> QED BY <1>1, <2>1, <2>2, RecordType DEF InitVault
  <1>7. past \in Past
    BY NothingType, HoldAssumption DEF Init, Past, Seconds
  <1> QED
    BY <1>1, <1>5, <1>6, <1>7, HoldAssumption DEF Init, InitVault, TypeOK, Seconds

\* HoldVault: every account and history stays well typed; no identifier or amount leaves its
\* width (next_withdrawal_id, record_release).
THEOREM HoldTypeCorrect == Spec => []TypeOK
  <1> QED
    BY HoldTypeInit, HoldTypeStep, PTL DEF Spec

-----------------------------------------------------------------------------
(* Rules loosen only after a wait                                          *)

\* Only propose_change, apply_change and cancel_change touch the rules and the change that
\* waits.
LEMMA RulesFrame ==
    ASSUME TypeOK, [Next]_vars,
           \A values \in Rules : ~ProposeChange(values),
           ~ApplyChange, ~CancelChange
    PROVE  vault'.rules = vault.rules /\ vault'.change = vault.change /\ past'.asked = past.asked
  <1> DEFINE Same == /\ vault'.rules = vault.rules
                     /\ vault'.change = vault.change
                     /\ past'.asked = past.asked
  <1> USE DEF TypeOK, HoldVaultAccount, Past
  <1>1. ASSUME NEW amount \in Amounts, Deposit(amount) \/ Send(amount) PROVE Same
    BY <1>1 DEF Deposit, Send
  <1>2. ASSUME NEW destination \in Destinations, NEW amount \in Amounts,
               Withdraw(destination, amount)
        PROVE  Same
    BY <1>2
    DEF Withdraw, WithdrawUncovered, WithdrawPaid, WithdrawHeld, WithdrawFull, Released
  <1>3. ASSUME NEW row \in vault.pending, Execute(row) \/ Skip(row) PROVE Same
    BY <1>3 DEF Execute, Skip, PayRow, Released
  <1>4. ASSUME NEW row \in vault.pending, Stop(row) PROVE Same
    BY <1>4 DEF Stop
  <1>5. ASSUME NEW authority \in Keys, Freeze(authority) PROVE Same
    BY <1>5 DEF Freeze
  <1>6. CASE Unfreeze
    BY <1>6 DEF Unfreeze, UnfreezeByBoth, ArmUnfreeze, UnfreezeAlone, FinishUnfreeze, Thawed
  <1>7. ASSUME NEW destination \in Destinations, Recover(destination) PROVE Same
    BY <1>7 DEF Recover
  <1>8. CASE Tick \/ Rewind
    BY <1>8 DEF Tick, Rewind
  <1>9. CASE UNCHANGED vars
    BY <1>9 DEF vars
  <1> HIDE DEF TypeOK, HoldVaultAccount, Past
  <1> QED
    BY <1>1, <1>2, <1>3, <1>4, <1>5, <1>6, <1>7, <1>8, <1>9 DEF Next

\* What propose_change applies at once leaves a waiting change a loosening: no field is both
\* tightened and loosened, and a tightening moves a field further from the waiting value.
LEMMA TighteningKeepsLoosened ==
    ASSUME NEW r \in HoldChange, NEW values \in HoldChange, NEW asked \in HoldChange,
           NEW fields, fields \subseteq Loosened(r, asked)
    PROVE  fields \subseteq Loosened(Adopt(r, values, Tightened(r, values)), asked)
  <1> DEFINE t == Tightened(r, values)
             s == Adopt(r, values, t)
  <1>1. /\ s.daily_limit \in Int /\ s.daily_limit <= r.daily_limit
        /\ s.delay_secs \in Int /\ s.delay_secs >= r.delay_secs
        /\ s.big_share_bps \in Int /\ s.big_share_bps <= r.big_share_bps
        /\ r.guardian # NoKey => s.guardian = r.guardian
        /\ s.safe_address = r.safe_address
    <2>1. /\ "daily_limit" \in t => values.daily_limit < r.daily_limit
          /\ "delay_secs" \in t => values.delay_secs > r.delay_secs
          /\ "big_share_bps" \in t => values.big_share_bps < r.big_share_bps
          /\ "guardian" \in t => r.guardian = NoKey
          /\ "safe_address" \notin t
      BY DEF Tightened
    <2> HIDE DEF t
    <2> QED BY <2>1, WindowAssumption DEF Adopt, HoldChange
  <1> HIDE DEF s
  <1>2. ASSUME NEW f \in fields PROVE f \in Loosened(s, asked)
    <2>1. f \in Loosened(r, asked)
      BY <1>2
    <2> QED BY <1>1, <2>1, WindowAssumption DEF Loosened, HoldChange, Fields
  <1> QED
    BY <1>2 DEF s

\* Rules loosen nothing compared with themselves.
LEMMA SameLoosensNothing == ASSUME NEW r \in HoldChange PROVE Loosened(r, r) = {}
  BY WindowAssumption DEF Loosened, HoldChange

\* The rules and the change that waits, after any step.
RulesInv == RulesStayAllowed /\ PendingChangeLoosens

\* propose_change leaves allowed rules, and a change that loosens them.
LEMMA ProposeRules ==
    ASSUME TypeOK, RulesInv, NEW values \in Rules, ProposeChange(values)
    PROVE  RulesInv'
  <1> DEFINE tighten == Tightened(vault.rules, values)
             loosen == Loosened(vault.rules, values)
             r == Adopt(vault.rules, values, tighten)
             change == [active |-> TRUE, fields |-> loosen, values |-> values,
                        effective_at |-> Due(r.delay_secs)]
  <1>1. /\ values \in HoldChange /\ vault.rules \in HoldChange
        /\ vault.change \in PendingChange /\ vault.change.values \in HoldChange
    BY HoldAssumption DEF TypeOK, HoldVaultAccount, PendingChange
  <1>2. vault'.rules = r /\ vault'.change = IF loosen = {} THEN vault.change ELSE change
    BY DEF ProposeChange, TypeOK, HoldVaultAccount
  <1>3. RulesAllowed(values) /\ (loosen # {} => ~vault.change.active)
    BY DEF ProposeChange
  <1>4. RulesStayAllowed'
    <2>1. /\ values.guardian # Owner
          /\ values.safe_address \in Keys
          /\ values.delay_secs >= WINDOW_SECS
          /\ values.big_share_bps <= HOLD_BPS_DENOMINATOR
      BY <1>1, <1>3, DelayIsADay DEF RulesAllowed, HoldChange
    <2>2. /\ r.guardian # Owner
          /\ r.safe_address \in Keys
          /\ r.delay_secs >= WINDOW_SECS
          /\ r.big_share_bps <= HOLD_BPS_DENOMINATOR
      <3> HIDE DEF tighten
      <3> QED BY <2>1 DEF Adopt, RulesInv, RulesStayAllowed
    <2> HIDE DEF r
    <2> QED BY <1>2, <2>2 DEF RulesStayAllowed
  <1>5. CASE loosen = {}
    <2>1. vault'.change = vault.change
      BY <1>2, <1>5
    <2>2. past' = past
      BY <1>5 DEF ProposeChange
    <2>3. ASSUME vault.change.active
          PROVE  vault.change.fields \subseteq Loosened(r, vault.change.values)
      BY <1>1, <2>3, TighteningKeepsLoosened DEF RulesInv, PendingChangeLoosens
    <2> HIDE DEF r
    <2>4. PendingChangeLoosens'
      BY <1>2, <2>1, <2>2, <2>3 DEF RulesInv, PendingChangeLoosens
    <2> QED BY <1>4, <2>4 DEF RulesInv
  <1>6. CASE loosen # {}
    <2>1. vault'.change = change
      BY <1>2, <1>6
    <2>2. past'.asked = [at |-> now, delay |-> r.delay_secs, guardian |-> r.guardian]
      BY <1>6 DEF ProposeChange, TypeOK, Past
    <2>3. loosen \subseteq Loosened(r, values)
      BY <1>1, TighteningKeepsLoosened
    <2> HIDE DEF r, loosen
    <2>4. change.effective_at = now + r.delay_secs
      BY DEF Due
    <2>5. PendingChangeLoosens'
      BY <1>2, <1>6, <2>1, <2>2, <2>3, <2>4 DEF PendingChangeLoosens
    <2> QED BY <1>4, <2>5 DEF RulesInv
  <1> QED
    BY <1>5, <1>6

\* Every step leaves allowed rules, and a waiting change that loosens them.
LEMMA RulesStep == TypeOK /\ RulesInv /\ [Next]_vars => RulesInv'
  <1> SUFFICES ASSUME TypeOK, RulesInv, [Next]_vars PROVE RulesInv'
    OBVIOUS
  <1>1. ASSUME NEW values \in Rules, ProposeChange(values) PROVE RulesInv'
    BY <1>1, ProposeRules
  <1>2. CASE ApplyChange
    <2> DEFINE change == vault.change
               r == Adopt(vault.rules, change.values, change.fields)
    <2>1. vault'.rules = r /\ vault'.change = NoChange /\ Applicable(change)
      BY <1>2 DEF ApplyChange, TypeOK, HoldVaultAccount
    <2>2. change.values \in HoldChange
      BY DEF TypeOK, HoldVaultAccount, PendingChange
    <2>3. /\ "delay_secs" \in change.fields => change.values.delay_secs >= WINDOW_SECS
          /\ "big_share_bps" \in change.fields =>
                change.values.big_share_bps <= HOLD_BPS_DENOMINATOR
          /\ "guardian" \in change.fields => change.values.guardian # Owner
          /\ "safe_address" \in change.fields => change.values.safe_address \in Keys
      BY <2>1, <2>2, DelayIsADay DEF Applicable, HoldChange
    <2>4. /\ r.guardian # Owner
          /\ r.safe_address \in Keys
          /\ r.delay_secs >= WINDOW_SECS
          /\ r.big_share_bps <= HOLD_BPS_DENOMINATOR
      <3> HIDE DEF change
      <3> QED BY <2>3 DEF Adopt, RulesInv, RulesStayAllowed
    <2> HIDE DEF r
    <2> QED BY <2>1, <2>4 DEF RulesInv, RulesStayAllowed, PendingChangeLoosens, NoChange
  <1>3. CASE CancelChange
    <2>1. vault'.rules = vault.rules /\ vault'.change = NoChange
      BY <1>3 DEF CancelChange, TypeOK, HoldVaultAccount
    <2> QED BY <2>1 DEF RulesInv, RulesStayAllowed, PendingChangeLoosens, NoChange
  <1>4. CASE /\ \A values \in Rules : ~ProposeChange(values)
             /\ ~ApplyChange /\ ~CancelChange
    BY <1>4, RulesFrame DEF RulesInv, RulesStayAllowed, PendingChangeLoosens
  <1> QED
    BY <1>1, <1>2, <1>3, <1>4

\* A vault opens with allowed rules and no change waiting.
LEMMA RulesInit == Init => RulesInv
  <1> SUFFICES ASSUME Init PROVE RulesInv
    OBVIOUS
  <1>1. PICK r \in Rules : InitVault(r)
    BY DEF Init
  <1>2. vault.rules = r /\ vault.change = NoChange /\ RulesAllowed(r) /\ r \in HoldChange
    BY <1>1, HoldAssumption DEF InitVault
  <1>3. RulesStayAllowed
    BY <1>2, DelayIsADay DEF RulesAllowed, RulesStayAllowed, HoldChange
  <1> QED
    BY <1>2, <1>3 DEF RulesInv, PendingChangeLoosens, NoChange

\* After any sequence of changes the two keys of a vault are two keys and a wait is at least
\* a day, and what waits to be applied is still a loosening, due a full delay after it was
\* asked for (propose_change, apply_change, cancel_change).
THEOREM ChangesAreOrderly == Spec => [](RulesStayAllowed /\ PendingChangeLoosens)
  <1>1. Init => TypeOK /\ RulesInv
    BY HoldTypeInit, RulesInit
  <1>2. TypeOK /\ RulesInv /\ [Next]_vars => TypeOK' /\ RulesInv'
    BY HoldTypeStep, RulesStep
  <1>3. RulesInv => RulesStayAllowed /\ PendingChangeLoosens
    BY DEF RulesInv
  <1> QED
    BY <1>1, <1>2, <1>3, PTL DEF Spec

\* What propose_change applies at once loosens nothing.
LEMMA TighteningLoosensNothing ==
    ASSUME NEW r \in HoldChange, NEW values \in HoldChange
    PROVE  Loosened(r, Adopt(r, values, Tightened(r, values))) = {}
  <1> DEFINE t == Tightened(r, values)
             s == Adopt(r, values, t)
  <1>1. /\ "daily_limit" \in t => values.daily_limit < r.daily_limit
        /\ "delay_secs" \in t => values.delay_secs > r.delay_secs
        /\ "big_share_bps" \in t => values.big_share_bps < r.big_share_bps
        /\ "guardian" \in t => r.guardian = NoKey
        /\ "safe_address" \notin t
    BY DEF Tightened
  <1> HIDE DEF t
  <1>2. /\ s.daily_limit \in Int /\ s.daily_limit <= r.daily_limit
        /\ s.delay_secs \in Int /\ s.delay_secs >= r.delay_secs
        /\ s.big_share_bps \in Int /\ s.big_share_bps <= r.big_share_bps
        /\ r.guardian # NoKey => s.guardian = r.guardian
        /\ s.safe_address = r.safe_address
    BY <1>1, WindowAssumption DEF Adopt, HoldChange
  <1> HIDE DEF s
  <1>3. Loosened(r, s) = {}
    BY <1>2, WindowAssumption DEF Loosened, HoldChange
  <1> QED
    BY <1>3 DEF s, t

\* The owner cannot weaken the rules of her vault without the wait she set: a rule loosens
\* only when a change asked for at least the delay then in force ago is applied.
THEOREM LooseningAlwaysWaits == Spec => LooseningWaits
  <1>1. ASSUME TypeOK, RulesInv, [Next]_vars
        PROVE  Loosened(vault.rules, vault'.rules) # {} =>
                   vault.change.active /\ now >= past.asked.at + past.asked.delay
    <2>1. vault.rules \in HoldChange
      BY <1>1 DEF TypeOK, HoldVaultAccount
    <2>2. ASSUME NEW values \in Rules, ProposeChange(values)
          PROVE  Loosened(vault.rules, vault'.rules) = {}
      <3>1. vault'.rules = Adopt(vault.rules, values, Tightened(vault.rules, values))
        BY <1>1, <2>2 DEF ProposeChange, TypeOK, HoldVaultAccount
      <3> QED BY <2>1, <3>1, TighteningLoosensNothing, HoldAssumption
    <2>3. CASE ApplyChange
      <3>1. vault.change.active /\ now >= vault.change.effective_at
        BY <2>3 DEF ApplyChange
      <3> QED BY <1>1, <3>1 DEF RulesInv, PendingChangeLoosens
    <2>4. CASE CancelChange
      <3>1. vault'.rules = vault.rules
        BY <1>1, <2>4 DEF CancelChange, TypeOK, HoldVaultAccount
      <3> QED BY <2>1, <3>1, SameLoosensNothing
    <2>5. CASE /\ \A values \in Rules : ~ProposeChange(values)
               /\ ~ApplyChange /\ ~CancelChange
      BY <1>1, <2>1, <2>5, RulesFrame, SameLoosensNothing
    <2> QED BY <2>2, <2>3, <2>4, <2>5
  <1>2. Init => TypeOK /\ RulesInv
    BY HoldTypeInit, RulesInit
  <1>3. TypeOK /\ RulesInv /\ [Next]_vars => TypeOK' /\ RulesInv'
    BY HoldTypeStep, RulesStep
  <1> QED
    BY <1>1, <1>2, <1>3, PTL DEF Spec, LooseningWaits

-----------------------------------------------------------------------------
(* A freeze holds                                                          *)

\* Only freeze and unfreeze touch the freeze.
LEMMA FreezeFrame ==
    ASSUME TypeOK, [Next]_vars, \A authority \in Keys : ~Freeze(authority), ~Unfreeze
    PROVE  /\ vault'.frozen = vault.frozen
           /\ vault'.unfreeze_at = vault.unfreeze_at
           /\ past'.armed = past.armed
  <1> DEFINE Same == /\ vault'.frozen = vault.frozen
                     /\ vault'.unfreeze_at = vault.unfreeze_at
                     /\ past'.armed = past.armed
  <1> USE DEF TypeOK, HoldVaultAccount, Past
  <1>1. ASSUME NEW amount \in Amounts, Deposit(amount) \/ Send(amount) PROVE Same
    BY <1>1 DEF Deposit, Send
  <1>2. ASSUME NEW destination \in Destinations, NEW amount \in Amounts,
               Withdraw(destination, amount)
        PROVE  Same
    <2>1. CASE WithdrawUncovered(destination, amount) \/ WithdrawFull(destination, amount)
      BY <2>1 DEF WithdrawUncovered, WithdrawFull
    <2>2. CASE WithdrawPaid(destination, amount)
      BY <2>2 DEF WithdrawPaid, Released
    <2>3. CASE WithdrawHeld(destination, amount)
      BY <2>3 DEF WithdrawHeld
    <2> QED BY <1>2, <2>1, <2>2, <2>3 DEF Withdraw
  <1>3. ASSUME NEW row \in vault.pending, Execute(row) \/ Skip(row) PROVE Same
    <2>1. \E kind \in Kinds : PayRow(row, kind)
      BY <1>3 DEF Execute, Skip, Kinds
    <2>2. vault'.frozen = vault.frozen /\ vault'.unfreeze_at = vault.unfreeze_at
      BY <2>1 DEF PayRow
    <2>3. past'.armed = past.armed
      BY <2>1 DEF PayRow, Released
    <2> QED BY <2>2, <2>3
  <1>4. ASSUME NEW row \in vault.pending, Stop(row) PROVE Same
    BY <1>4 DEF Stop
  <1>5. ASSUME NEW destination \in Destinations, Recover(destination) PROVE Same
    BY <1>5 DEF Recover
  <1>6. ASSUME NEW values \in Rules, ProposeChange(values) PROVE Same
    BY <1>6 DEF ProposeChange
  <1>7. CASE ApplyChange
    BY <1>7 DEF ApplyChange
  <1>8. CASE CancelChange
    BY <1>8 DEF CancelChange
  <1>9. CASE Tick \/ Rewind
    BY <1>9 DEF Tick, Rewind
  <1>10. CASE UNCHANGED vars
    BY <1>10 DEF vars
  <1> HIDE DEF TypeOK, HoldVaultAccount, Past
  <1> QED
    BY <1>1, <1>2, <1>3, <1>4, <1>5, <1>6, <1>7, <1>8, <1>9, <1>10 DEF Next

\* An armed thaw falls due the delay after it was armed, and ends with its freeze.
LEMMA ThawStep == TypeOK /\ RulesInv /\ ArmedThawIsFresh /\ [Next]_vars => ArmedThawIsFresh'
  <1> SUFFICES ASSUME TypeOK, RulesInv, ArmedThawIsFresh, [Next]_vars PROVE ArmedThawIsFresh'
    OBVIOUS
  <1>1. past \in Past
    BY DEF TypeOK
  <1>2. ASSUME NEW authority \in Keys, Freeze(authority) PROVE ArmedThawIsFresh'
    <2>1. ~vault.frozen /\ vault'.unfreeze_at = vault.unfreeze_at
      BY <1>2 DEF Freeze, TypeOK, HoldVaultAccount
    <2> QED BY <2>1 DEF ArmedThawIsFresh
  <1>3. CASE Unfreeze
    <2>1. CASE FinishUnfreeze
      <3>1. vault'.unfreeze_at = 0
        BY <2>1 DEF FinishUnfreeze, Thawed, TypeOK, HoldVaultAccount
      <3> QED BY <3>1 DEF ArmedThawIsFresh
    <2>2. CASE ArmUnfreeze
      <3>1. PICK o : o = [at |-> now, delay |-> vault.rules.delay_secs, guardian |-> NoKey]
        OBVIOUS
      <3>2. vault.rules.delay_secs \in Int /\ vault.rules.delay_secs >= WINDOW_SECS
        BY DEF RulesInv, RulesStayAllowed, TypeOK, HoldVaultAccount, HoldChange
      <3>3. o \in Origin
        BY <3>1, <3>2 DEF Origin, TypeOK
      <3>4. past'.armed = o
        BY <1>1, <2>2, <3>1, <3>3, ArmedType DEF ArmUnfreeze
      <3>5. vault.frozen /\ vault'.frozen = vault.frozen /\ vault'.unfreeze_at = now + vault.rules.delay_secs
        BY <1>3, <2>2 DEF Unfreeze, ArmUnfreeze, TypeOK, HoldVaultAccount, Due
      <3> QED BY <3>1, <3>2, <3>4, <3>5 DEF ArmedThawIsFresh
    <2> QED BY <1>3, <2>1, <2>2 DEF Unfreeze, UnfreezeByBoth, UnfreezeAlone
  <1>4. CASE (\A authority \in Keys : ~Freeze(authority)) /\ ~Unfreeze
    BY <1>4, FreezeFrame DEF ArmedThawIsFresh
  <1> QED
    BY <1>2, <1>3, <1>4

\* A vault opens with no thaw armed.
LEMMA ThawInit == Init => ArmedThawIsFresh
  BY DEF Init, InitVault, ArmedThawIsFresh

\* Against the owner alone a freeze stands until a thaw armed for this very freeze is due, a
\* day or more of the chain's clock after it was armed, however often that clock steps back;
\* an old armed thaw never opens a later freeze (freeze, unfreeze, finish_unfreeze).
THEOREM FreezesHold == Spec => []ArmedThawIsFresh /\ FreezeHolds
  <1>1. ASSUME TypeOK, ArmedThawIsFresh, [Next]_vars
        PROVE  vault.frozen /\ ~vault'.frozen =>
                   \/ vault.rules.guardian # NoKey
                   \/ past.armed.delay >= WINDOW_SECS /\ now >= past.armed.at + past.armed.delay
    <2>1. ASSUME NEW authority \in Keys, Freeze(authority) PROVE ~vault.frozen
      BY <2>1 DEF Freeze
    <2>2. CASE Unfreeze
      <3>1. CASE UnfreezeByBoth
        BY <3>1 DEF UnfreezeByBoth, BothKeys
      <3>2. CASE ArmUnfreeze
        BY <1>1, <3>2 DEF ArmUnfreeze, TypeOK, HoldVaultAccount
      <3>3. CASE UnfreezeAlone
        BY <1>1, <3>3 DEF UnfreezeAlone, ArmedThawIsFresh
      <3> QED BY <2>2, <3>1, <3>2, <3>3 DEF Unfreeze
    <2>3. CASE (\A authority \in Keys : ~Freeze(authority)) /\ ~Unfreeze
      BY <1>1, <2>3, FreezeFrame
    <2> QED BY <2>1, <2>2, <2>3
  <1>2. Init => TypeOK /\ RulesInv /\ ArmedThawIsFresh
    BY HoldTypeInit, RulesInit, ThawInit
  <1>3. TypeOK /\ RulesInv /\ ArmedThawIsFresh /\ [Next]_vars => TypeOK' /\ RulesInv' /\ ArmedThawIsFresh'
    BY HoldTypeStep, RulesStep, ThawStep
  <1> QED
    BY <1>1, <1>2, <1>3, PTL DEF Spec, FreezeHolds

-----------------------------------------------------------------------------
(* A held withdrawal is settled once, after its wait                       *)

\* The rows, the identifiers given out and the withdrawals settled.
RowsInv == SettledOnce /\ RowsKeepTheirWait

\* Only a held withdrawal, a payment of a row, stop and recover touch the rows.
LEMMA RowsFrame ==
    ASSUME TypeOK, [Next]_vars,
           \A destination \in Destinations, amount \in Amounts :
               ~WithdrawHeld(destination, amount),
           \A row \in vault.pending : ~Execute(row) /\ ~Skip(row) /\ ~Stop(row),
           \A destination \in Destinations : ~Recover(destination)
    PROVE  /\ vault'.pending = vault.pending
           /\ vault'.next_withdrawal_id = vault.next_withdrawal_id
           /\ past'.held = past.held
           /\ past'.settled = past.settled
  <1> DEFINE Same == /\ vault'.pending = vault.pending
                     /\ vault'.next_withdrawal_id = vault.next_withdrawal_id
                     /\ past'.held = past.held
                     /\ past'.settled = past.settled
  <1> USE DEF TypeOK, HoldVaultAccount, Past
  <1>1. ASSUME NEW amount \in Amounts, Deposit(amount) \/ Send(amount) PROVE Same
    BY <1>1 DEF Deposit, Send
  <1>2. ASSUME NEW destination \in Destinations, NEW amount \in Amounts,
               Withdraw(destination, amount)
        PROVE  Same
    <2>1. CASE WithdrawUncovered(destination, amount) \/ WithdrawFull(destination, amount)
      BY <2>1 DEF WithdrawUncovered, WithdrawFull
    <2>2. CASE WithdrawPaid(destination, amount)
      BY <2>2 DEF WithdrawPaid, Released
    <2> QED BY <1>2, <2>1, <2>2 DEF Withdraw
  <1>3. ASSUME NEW authority \in Keys, Freeze(authority) PROVE Same
    BY <1>3 DEF Freeze
  <1>4. CASE Unfreeze
    BY <1>4 DEF Unfreeze, UnfreezeByBoth, ArmUnfreeze, UnfreezeAlone, FinishUnfreeze, Thawed
  <1>5. ASSUME NEW values \in Rules, ProposeChange(values) PROVE Same
    BY <1>5 DEF ProposeChange
  <1>6. CASE ApplyChange
    BY <1>6 DEF ApplyChange
  <1>7. CASE CancelChange
    BY <1>7 DEF CancelChange
  <1>8. CASE Tick \/ Rewind
    BY <1>8 DEF Tick, Rewind
  <1>9. CASE UNCHANGED vars
    BY <1>9 DEF vars
  <1> HIDE DEF TypeOK, HoldVaultAccount, Past
  <1> QED
    BY <1>1, <1>2, <1>3, <1>4, <1>5, <1>6, <1>7, <1>8, <1>9 DEF Next

\* What RowsInv says, row by row.
LEMMA RowsInvMeans ==
    RowsInv <=>
        /\ \A row \in vault.pending :
            /\ row.id \notin past.settled
            /\ row.id < vault.next_withdrawal_id
            /\ row.unlock_at = past.held[row.id].at + past.held[row.id].delay
        /\ \A id \in past.settled : id < vault.next_withdrawal_id
        /\ \A a, b \in vault.pending : a.id = b.id => a = b
  BY DEF RowsInv, SettledOnce, RowsKeepTheirWait, PendingIds

\* Settling a row moves its identifier from the pending ones to the settled ones.
LEMMA SettleRow ==
    ASSUME TypeOK, RowsInv, NEW row \in vault.pending,
           vault'.pending = vault.pending \ {row},
           vault'.next_withdrawal_id = vault.next_withdrawal_id,
           past'.held = [past.held EXCEPT ![row.id] = NoOrigin],
           past'.settled = past.settled \union {row.id}
    PROVE  RowsInv'
  <1>1. \A a \in vault.pending : a.id \in Ids
    BY DEF TypeOK, HoldVaultAccount, PendingWithdrawal
  <1>2. past.held \in [Ids -> Origin]
    BY DEF TypeOK, Past
  <1>3. ASSUME NEW a \in vault.pending \ {row}
        PROVE  a.id # row.id /\ past'.held[a.id] = past.held[a.id]
    BY <1>1, <1>2, RowsInvMeans
  <1>4. /\ \A a \in vault'.pending :
            /\ a.id \notin past'.settled
            /\ a.id < vault'.next_withdrawal_id
            /\ a.unlock_at = past'.held[a.id].at + past'.held[a.id].delay
        /\ \A id \in past'.settled : id < vault'.next_withdrawal_id
        /\ \A a, b \in vault'.pending : a.id = b.id => a = b
    BY <1>3, RowsInvMeans
  <1> QED
    BY <1>4 DEF RowsInv, SettledOnce, RowsKeepTheirWait, PendingIds

\* Every step keeps the rows apart from what was settled, each with its wait.
LEMMA RowsStep == TypeOK /\ RowsInv /\ [Next]_vars => RowsInv'
  <1> SUFFICES ASSUME TypeOK, RowsInv, [Next]_vars PROVE RowsInv'
    OBVIOUS
  <1>1. ASSUME NEW destination \in Destinations, NEW amount \in Amounts,
               WithdrawHeld(destination, amount)
        PROVE  RowsInv'
    <2> DEFINE id == vault.next_withdrawal_id
               row == [id |-> id, amount |-> amount, destination |-> destination,
                       unlock_at |-> Due(vault.rules.delay_secs)]
               origin == [at |-> now, delay |-> vault.rules.delay_secs,
                          guardian |-> vault.rules.guardian]
    <2>1. /\ vault'.pending = vault.pending \union {row}
          /\ vault'.next_withdrawal_id = id + 1
      BY <1>1 DEF WithdrawHeld, TypeOK, HoldVaultAccount
    <2>2. /\ past'.held = [past.held EXCEPT ![id] = origin]
          /\ past'.settled = past.settled
      BY <1>1 DEF WithdrawHeld, TypeOK, Past
    <2>3. id \in Ids /\ past.held \in [Ids -> Origin] /\ past.settled \subseteq Ids
      BY DEF TypeOK, HoldVaultAccount, Past
    <2>4. \A a \in vault.pending : a.id \in Ids
      BY DEF TypeOK, HoldVaultAccount, PendingWithdrawal
    <2>5. row.id = id /\ row.unlock_at = origin.at + origin.delay
      BY DEF Due
    <2> HIDE DEF id, row, origin
    <2>6. ASSUME NEW a \in vault.pending
          PROVE  /\ a.id < id /\ past'.held[a.id] = past.held[a.id]
                 /\ a.id \notin past.settled
                 /\ a.unlock_at = past.held[a.id].at + past.held[a.id].delay
      BY <2>2, <2>3, <2>4, RowsInvMeans DEF Ids, id
    <2>7. id \notin past.settled /\ \A i \in past.settled : i < id
      BY <2>3, RowsInvMeans DEF Ids, id
    <2>8. past'.held[id] = origin
      BY <2>2, <2>3
    <2>9. /\ \A a \in vault'.pending :
              /\ a.id \notin past'.settled
              /\ a.id < vault'.next_withdrawal_id
              /\ a.unlock_at = past'.held[a.id].at + past'.held[a.id].delay
          /\ \A i \in past'.settled : i < vault'.next_withdrawal_id
      BY <2>1, <2>2, <2>3, <2>4, <2>5, <2>6, <2>7, <2>8 DEF Ids
    <2>10. \A a, b \in vault'.pending : a.id = b.id => a = b
      BY <2>1, <2>3, <2>4, <2>5, <2>6, RowsInvMeans DEF Ids
    <2> QED
      BY <2>9, <2>10 DEF RowsInv, SettledOnce, RowsKeepTheirWait, PendingIds
  <1>2. ASSUME NEW row \in vault.pending, Execute(row) \/ Skip(row) PROVE RowsInv'
    <2>1. \E kind \in Kinds : PayRow(row, kind)
      BY <1>2 DEF Execute, Skip, Kinds
    <2>2. /\ vault'.pending = vault.pending \ {row}
          /\ vault'.next_withdrawal_id = vault.next_withdrawal_id
      BY <2>1 DEF PayRow, Without, TypeOK, HoldVaultAccount
    <2>3. /\ past'.held = [past.held EXCEPT ![row.id] = NoOrigin]
          /\ past'.settled = past.settled \union {row.id}
      BY <2>1 DEF PayRow, Released, TypeOK, Past
    <2> QED BY <2>2, <2>3, SettleRow
  <1>3. ASSUME NEW row \in vault.pending, Stop(row) PROVE RowsInv'
    <2>1. /\ vault'.pending = vault.pending \ {row}
          /\ vault'.next_withdrawal_id = vault.next_withdrawal_id
      BY <1>3 DEF Stop, Without, TypeOK, HoldVaultAccount
    <2>2. /\ past'.held = [past.held EXCEPT ![row.id] = NoOrigin]
          /\ past'.settled = past.settled \union {row.id}
      BY <1>3 DEF Stop, TypeOK, Past
    <2> QED BY <2>1, <2>2, SettleRow
  <1>4. ASSUME NEW destination \in Destinations, Recover(destination) PROVE RowsInv'
    <2>1. /\ vault'.pending = {}
          /\ vault'.next_withdrawal_id = vault.next_withdrawal_id
          /\ past'.settled = past.settled \union PendingIds
      BY <1>4 DEF Recover, Unclaimed, TypeOK, HoldVaultAccount, Past
    <2> QED BY <2>1 DEF RowsInv, SettledOnce, RowsKeepTheirWait, PendingIds
  <1>5. CASE /\ \A destination \in Destinations, amount \in Amounts :
                    ~WithdrawHeld(destination, amount)
             /\ \A row \in vault.pending : ~Execute(row) /\ ~Skip(row) /\ ~Stop(row)
             /\ \A destination \in Destinations : ~Recover(destination)
    BY <1>5, RowsFrame DEF RowsInv, SettledOnce, RowsKeepTheirWait, PendingIds
  <1> QED
    BY <1>1, <1>2, <1>3, <1>4, <1>5

\* A vault opens with no row and nothing settled.
LEMMA RowsInit == Init => RowsInv
  BY DEF Init, InitVault, RowsInv, SettledOnce, RowsKeepTheirWait, PendingIds

\* Whatever is executed, skipped, stopped or recovered and in whatever order, a held
\* withdrawal is settled at most once, and falls due a full delay after it was held.
THEOREM WithdrawalsSettleOnce == Spec => [](SettledOnce /\ RowsKeepTheirWait)
  <1>1. Init => TypeOK /\ RowsInv
    BY HoldTypeInit, RowsInit
  <1>2. TypeOK /\ RowsInv /\ [Next]_vars => TypeOK' /\ RowsInv'
    BY HoldTypeStep, RowsStep
  <1>3. RowsInv => SettledOnce /\ RowsKeepTheirWait
    BY DEF RowsInv
  <1> QED
    BY <1>1, <1>2, <1>3, PTL DEF Spec

-----------------------------------------------------------------------------
(* Money leaves by the rules                                               *)

\* The known destinations, with what Cardinality needs.
KnownInv == KnownWerePaid /\ IsFiniteSet(vault.known)

\* Only a payment of a row adds a known destination.
LEMMA KnownFrame ==
    ASSUME TypeOK, [Next]_vars, \A row \in vault.pending : ~Execute(row) /\ ~Skip(row)
    PROVE  vault'.known = vault.known /\ past'.paidTo = past.paidTo
  <1> DEFINE Same == vault'.known = vault.known /\ past'.paidTo = past.paidTo
  <1> USE DEF TypeOK, HoldVaultAccount, Past
  <1>1. ASSUME NEW amount \in Amounts, Deposit(amount) \/ Send(amount) PROVE Same
    BY <1>1 DEF Deposit, Send
  <1>2. ASSUME NEW destination \in Destinations, NEW amount \in Amounts,
               Withdraw(destination, amount)
        PROVE  Same
    BY <1>2
    DEF Withdraw, WithdrawUncovered, WithdrawPaid, WithdrawHeld, WithdrawFull, Released
  <1>3. ASSUME NEW row \in vault.pending, Stop(row) PROVE Same
    BY <1>3 DEF Stop
  <1>4. ASSUME NEW authority \in Keys, Freeze(authority) PROVE Same
    BY <1>4 DEF Freeze
  <1>5. CASE Unfreeze
    BY <1>5 DEF Unfreeze, UnfreezeByBoth, ArmUnfreeze, UnfreezeAlone, FinishUnfreeze, Thawed
  <1>6. ASSUME NEW destination \in Destinations, Recover(destination) PROVE Same
    BY <1>6 DEF Recover
  <1>7. ASSUME NEW values \in Rules, ProposeChange(values) PROVE Same
    BY <1>7 DEF ProposeChange
  <1>8. CASE ApplyChange
    BY <1>8 DEF ApplyChange
  <1>9. CASE CancelChange
    BY <1>9 DEF CancelChange
  <1>10. CASE Tick \/ Rewind
    BY <1>10 DEF Tick, Rewind
  <1>11. CASE UNCHANGED vars
    BY <1>11 DEF vars
  <1> HIDE DEF TypeOK, HoldVaultAccount, Past
  <1> QED
    BY <1>1, <1>2, <1>3, <1>4, <1>5, <1>6, <1>7, <1>8, <1>9, <1>10, <1>11 DEF Next

\* remember stays within the array.
LEMMA RememberFits ==
    ASSUME NEW known, IsFiniteSet(known), Cardinality(known) <= HOLD_KNOWN_CAPACITY,
           NEW destination
    PROVE  /\ IsFiniteSet(Remember(known, destination))
           /\ Cardinality(Remember(known, destination)) <= HOLD_KNOWN_CAPACITY
           /\ Remember(known, destination) \subseteq known \union {destination}
  <1>1. CASE destination \in known \/ Cardinality(known) >= HOLD_KNOWN_CAPACITY
    BY <1>1 DEF Remember
  <1>2. CASE destination \notin known /\ ~(Cardinality(known) >= HOLD_KNOWN_CAPACITY)
    <2>1. Remember(known, destination) = known \union {destination}
      BY <1>2 DEF Remember
    <2>2. /\ IsFiniteSet(known \union {destination})
          /\ Cardinality(known \union {destination}) = Cardinality(known) + 1
      BY <1>2, FS_AddElement
    <2>3. Cardinality(known) \in Nat
      BY FS_CardinalityType
    <2> QED BY <1>2, <2>1, <2>2, <2>3, HoldAssumption
  <1> QED
    BY <1>1, <1>2

\* Every step leaves only paid destinations known.
LEMMA KnownStep == TypeOK /\ KnownInv /\ [Next]_vars => KnownInv'
  <1> SUFFICES ASSUME TypeOK, KnownInv, [Next]_vars PROVE KnownInv'
    OBVIOUS
  <1>1. ASSUME NEW row \in vault.pending, Execute(row) \/ Skip(row) PROVE KnownInv'
    <2>1. \E kind \in Kinds : PayRow(row, kind)
      BY <1>1 DEF Execute, Skip, Kinds
    <2>2. vault'.known = Remember(vault.known, row.destination)
      BY <2>1 DEF PayRow, TypeOK, HoldVaultAccount
    <2>3. past'.paidTo = past.paidTo \union {row.destination}
      BY <2>1 DEF PayRow, Released, TypeOK, Past
    <2> QED BY <2>2, <2>3, RememberFits DEF KnownInv, KnownWerePaid
  <1>2. CASE \A row \in vault.pending : ~Execute(row) /\ ~Skip(row)
    BY <1>2, KnownFrame DEF KnownInv, KnownWerePaid
  <1> QED
    BY <1>1, <1>2

\* A vault opens with no known destination.
LEMMA KnownInit == Init => KnownInv
  <1> SUFFICES ASSUME Init PROVE KnownInv
    OBVIOUS
  <1>1. vault.known = {}
    BY DEF Init, InitVault
  <1> QED
    BY <1>1, FS_EmptySet, HoldAssumption DEF KnownInv, KnownWerePaid

\* The record an instruction writes is the newest one after it.
LEMMA WritesNewest ==
    ASSUME TypeOK, NEW kind, NEW amount, NEW destination, NEW id, NEW reason,
           Writes(kind, amount, destination, id, reason)
    PROVE  Newest(ledger') = MkEntry(kind, amount, destination, id, reason)
  BY NewestIsRecorded DEF Writes, TypeOK

\* The step of MoneyLeavesByTheRules.
LEMMA MoneyStep ==
    ASSUME TypeOK, RowsInv, KnownInv, [Next]_vars, balance' < balance
    PROVE  balance = balance' + Newest(ledger').amount /\ LeftByAnOpenWay
  <1> DEFINE e == Newest(ledger')
             OfRow == \E row \in vault.pending :
                         /\ row.id = e.id
                         /\ row.amount = e.amount
                         /\ row.destination = e.destination
             Ways == \/ /\ e.kind = "PAID" /\ e.id = 0 /\ ~vault.frozen
                        /\ e.destination \in past.paidTo
                     \/ /\ e.kind = "PAID" /\ ~vault.frozen /\ OfRow
                        /\ now >= past.held[e.id].at + past.held[e.id].delay
                     \/ /\ e.kind = "SKIPPED" /\ ~vault.frozen /\ OfRow
                        /\ vault.rules.guardian # NoKey
                     \/ /\ e.kind = "RECOVERED" /\ balance' = 0
                        /\ HolderOf[e.destination] = vault.rules.safe_address
             Goal == balance = balance' + e.amount /\ Ways
  <1>1. balance \in Nat /\ balance' \in Nat
    BY HoldTypeStep DEF TypeOK
  <1>2. ASSUME NEW destination \in Destinations, NEW amount \in Amounts,
               WithdrawPaid(destination, amount)
        PROVE  Goal
    <2>1. e = MkEntry("PAID", amount, destination, 0, "NONE")
      BY <1>2, WritesNewest DEF WithdrawPaid
    <2>2. balance = balance' + amount
      BY <1>1, <1>2, HoldAssumption DEF WithdrawPaid
    <2>3. ~vault.frozen /\ destination \in past.paidTo
      BY <1>2 DEF WithdrawPaid, CanPayNow, KnownInv, KnownWerePaid
    <2> HIDE DEF e
    <2> QED BY <2>1, <2>2, <2>3 DEF MkEntry
  <1>3. ASSUME NEW row \in vault.pending, NEW kind, PayRow(row, kind)
        PROVE  /\ e.kind = kind /\ e.id = row.id /\ OfRow
               /\ balance = balance' + e.amount
    <2>1. e = MkEntry(kind, row.amount, row.destination, row.id, "NONE")
      BY <1>3, WritesNewest DEF PayRow
    <2>2. row.amount \in Nat
      BY DEF TypeOK, HoldVaultAccount, PendingWithdrawal
    <2>3. balance = balance' + row.amount
      BY <1>1, <1>3, <2>2 DEF PayRow
    <2> HIDE DEF e
    <2> QED BY <2>1, <2>3 DEF MkEntry
  <1>4. ASSUME NEW row \in vault.pending, Execute(row) PROVE Goal
    <2>1. ~vault.frozen /\ IsDue(row) /\ PayRow(row, "PAID")
      BY <1>4 DEF Execute
    <2>2. now >= past.held[row.id].at + past.held[row.id].delay
      BY <2>1, RowsInvMeans DEF IsDue
    <2> HIDE DEF e
    <2> QED BY <1>3, <2>1, <2>2
  <1>5. ASSUME NEW row \in vault.pending, Skip(row) PROVE Goal
    <2>1. ~vault.frozen /\ PayRow(row, "SKIPPED") /\ vault.rules.guardian # NoKey
      BY <1>5 DEF Skip, BothKeys
    <2> HIDE DEF e
    <2> QED BY <1>3, <2>1
  <1>6. ASSUME NEW destination \in Destinations, Recover(destination) PROVE Goal
    <2>1. e = MkEntry("RECOVERED", balance, destination, 0, "NONE")
      BY <1>6, WritesNewest DEF Recover
    <2>2. balance' = 0 /\ HolderOf[destination] = vault.rules.safe_address
      BY <1>6 DEF Recover
    <2> HIDE DEF e
    <2> QED BY <1>1, <2>1, <2>2 DEF MkEntry
  <1>7. ASSUME NEW amount \in Amounts, Deposit(amount) \/ Send(amount) PROVE FALSE
    BY <1>1, <1>7, HoldAssumption DEF Deposit, Send
  <1>8. ASSUME balance' = balance PROVE FALSE
    BY <1>1, <1>8
  <1>9. ASSUME NEW destination \in Destinations, NEW amount \in Amounts,
               Withdraw(destination, amount)
        PROVE  Goal
    BY <1>2, <1>8, <1>9 DEF Withdraw, WithdrawUncovered, WithdrawHeld, WithdrawFull
  <1>10. ASSUME NEW row \in vault.pending, Stop(row) PROVE balance' = balance
    BY <1>10 DEF Stop
  <1>11. ASSUME NEW authority \in Keys, Freeze(authority) PROVE balance' = balance
    BY <1>11 DEF Freeze
  <1>12. ASSUME NEW values \in Rules, ProposeChange(values) PROVE balance' = balance
    BY <1>12 DEF ProposeChange
  <1>13. Unfreeze \/ ApplyChange \/ CancelChange \/ Tick \/ Rewind \/ UNCHANGED vars => balance' = balance
    BY DEF Unfreeze, UnfreezeByBoth, ArmUnfreeze, UnfreezeAlone, FinishUnfreeze, ApplyChange,
           CancelChange, Tick, Rewind, vars
  <1> HIDE DEF Goal
  <1>14. Goal
    BY <1>4, <1>5, <1>6, <1>7, <1>8, <1>9, <1>10, <1>11, <1>12, <1>13 DEF Next
  <1> QED
    BY <1>14 DEF Goal, LeftByAnOpenWay

\* Money leaves a vault in four ways only, each recorded with its amount: at once to a
\* destination already paid; a held withdrawal after its wait; a held withdrawal by both
\* keys; everything to the safe address (withdraw, execute, skip, recover).
THEOREM MoneyLeavesByTheRulesOnly == Spec => MoneyLeavesByTheRules /\ []KnownWerePaid
  <1>1. Init => TypeOK /\ RowsInv /\ KnownInv
    BY HoldTypeInit, RowsInit, KnownInit
  <1>2. TypeOK /\ RowsInv /\ KnownInv /\ [Next]_vars => TypeOK' /\ RowsInv' /\ KnownInv'
    BY HoldTypeStep, RowsStep, KnownStep
  <1>3. KnownInv => KnownWerePaid
    BY DEF KnownInv
  <1>4. ASSUME TypeOK, RowsInv, KnownInv, [Next]_vars
        PROVE  balance' < balance =>
                   balance = balance' + Newest(ledger').amount /\ LeftByAnOpenWay
    BY <1>4, MoneyStep
  <1> QED
    BY <1>1, <1>2, <1>3, <1>4, PTL DEF Spec, MoneyLeavesByTheRules

-----------------------------------------------------------------------------
(* The record of a vault against the vault itself. An entry changes what a *)
(* reader takes for standing in three small ways, one lemma each; the step *)
(* of the invariant then compares them with what the instruction did to    *)
(* the account.                                                            *)

-----------------------------------------------------------------------------
(* What the first n entries of a record leave standing                     *)

\* A freeze that nothing thawed.
Frozen(record, n) ==
    \E i \in 1 .. n : /\ record[i].kind = "FROZEN"
                      /\ \A j \in i + 1 .. n : record[j].kind # "UNFROZEN"

\* The entry ends a change that waited.
EndsChange(e) ==
    e.kind = "CHANGE_CANCELLED" \/ (e.kind = "CHANGE_APPLIED" /\ e.destination # NoKey)

\* A change that was neither cancelled nor applied.
Waits(record, n) ==
    \E i \in 1 .. n : /\ record[i].kind = "CHANGE_PROPOSED"
                      /\ \A j \in i + 1 .. n : ~EndsChange(record[j])

\* The entry settles the withdrawal of this identifier.
Settles(e, id) ==
    e.kind = "RECOVERED" \/ (e.kind \in {"PAID", "SKIPPED", "STOPPED"} /\ e.id = id)

\* Withdrawals that were held and not settled.
Held(record, n) ==
    {record[i].id : i \in
        {k \in 1 .. n : /\ record[k].kind = "HELD"
                        /\ \A j \in k + 1 .. n : ~Settles(record[j], record[k].id)}}

\* One more entry at the end freezes, thaws, or leaves it.
LEMMA FrozenAppend ==
    ASSUME NEW r, NEW n \in Nat, NEW s, \A i \in 1 .. n : s[i] = r[i]
    PROVE  Frozen(s, n + 1) <=>
               \/ s[n + 1].kind = "FROZEN"
               \/ Frozen(r, n) /\ s[n + 1].kind # "UNFROZEN"
  <1>1. ASSUME s[n + 1].kind = "FROZEN" PROVE Frozen(s, n + 1)
    <2>1. n + 1 \in 1 .. n + 1 /\ \A j \in n + 1 + 1 .. n + 1 : FALSE
      OBVIOUS
    <2> QED BY <1>1, <2>1 DEF Frozen
  <1>2. ASSUME Frozen(r, n), s[n + 1].kind # "UNFROZEN" PROVE Frozen(s, n + 1)
    <2>1. PICK i \in 1 .. n : /\ r[i].kind = "FROZEN"
                              /\ \A j \in i + 1 .. n : r[j].kind # "UNFROZEN"
      BY <1>2 DEF Frozen
    <2>2. i \in 1 .. n + 1 /\ s[i].kind = "FROZEN"
      BY <2>1
    <2>3. \A j \in i + 1 .. n + 1 : s[j].kind # "UNFROZEN"
      <3> SUFFICES ASSUME NEW j \in i + 1 .. n + 1 PROVE s[j].kind # "UNFROZEN"
        OBVIOUS
      <3>1. CASE j = n + 1
        BY <1>2, <3>1
      <3>2. CASE j # n + 1
        <4>1. j \in 1 .. n /\ j \in i + 1 .. n
          BY <3>2
        <4> QED BY <2>1, <4>1
      <3> QED BY <3>1, <3>2
    <2> QED BY <2>2, <2>3 DEF Frozen
  <1>3. ASSUME Frozen(s, n + 1), s[n + 1].kind # "FROZEN"
        PROVE  Frozen(r, n) /\ s[n + 1].kind # "UNFROZEN"
    <2>1. PICK i \in 1 .. n + 1 : /\ s[i].kind = "FROZEN"
                                  /\ \A j \in i + 1 .. n + 1 : s[j].kind # "UNFROZEN"
      BY <1>3 DEF Frozen
    <2>2. i \in 1 .. n /\ n + 1 \in i + 1 .. n + 1
      BY <1>3, <2>1
    <2>3. r[i].kind = "FROZEN"
      BY <2>1, <2>2
    <2>4. \A j \in i + 1 .. n : r[j].kind # "UNFROZEN"
      <3> SUFFICES ASSUME NEW j \in i + 1 .. n PROVE r[j].kind # "UNFROZEN"
        OBVIOUS
      <3>1. j \in 1 .. n /\ j \in i + 1 .. n + 1
        BY <2>2
      <3> QED BY <2>1, <3>1
    <2> QED BY <2>1, <2>2, <2>3, <2>4 DEF Frozen
  <1> QED
    BY <1>1, <1>2, <1>3

\* One more entry at the end proposes a change, ends one, or leaves it.
LEMMA WaitsAppend ==
    ASSUME NEW r, NEW n \in Nat, NEW s, \A i \in 1 .. n : s[i] = r[i]
    PROVE  Waits(s, n + 1) <=>
               \/ s[n + 1].kind = "CHANGE_PROPOSED"
               \/ Waits(r, n) /\ ~EndsChange(s[n + 1])
  <1>1. ASSUME s[n + 1].kind = "CHANGE_PROPOSED" PROVE Waits(s, n + 1)
    <2>1. n + 1 \in 1 .. n + 1 /\ \A j \in n + 1 + 1 .. n + 1 : FALSE
      OBVIOUS
    <2> QED BY <1>1, <2>1 DEF Waits
  <1>2. ASSUME Waits(r, n), ~EndsChange(s[n + 1]) PROVE Waits(s, n + 1)
    <2>1. PICK i \in 1 .. n : /\ r[i].kind = "CHANGE_PROPOSED"
                              /\ \A j \in i + 1 .. n : ~EndsChange(r[j])
      BY <1>2 DEF Waits
    <2>2. i \in 1 .. n + 1 /\ s[i].kind = "CHANGE_PROPOSED"
      BY <2>1
    <2>3. \A j \in i + 1 .. n + 1 : ~EndsChange(s[j])
      <3> SUFFICES ASSUME NEW j \in i + 1 .. n + 1 PROVE ~EndsChange(s[j])
        OBVIOUS
      <3>1. CASE j = n + 1
        BY <1>2, <3>1
      <3>2. CASE j # n + 1
        <4>1. j \in 1 .. n /\ j \in i + 1 .. n
          BY <3>2
        <4>2. s[j] = r[j]
          BY <4>1
        <4> QED BY <2>1, <4>1, <4>2
      <3> QED BY <3>1, <3>2
    <2> QED BY <2>2, <2>3 DEF Waits
  <1>3. ASSUME Waits(s, n + 1), s[n + 1].kind # "CHANGE_PROPOSED"
        PROVE  Waits(r, n) /\ ~EndsChange(s[n + 1])
    <2>1. PICK i \in 1 .. n + 1 : /\ s[i].kind = "CHANGE_PROPOSED"
                                  /\ \A j \in i + 1 .. n + 1 : ~EndsChange(s[j])
      BY <1>3 DEF Waits
    <2>2. i \in 1 .. n /\ n + 1 \in i + 1 .. n + 1
      BY <1>3, <2>1
    <2>3. r[i].kind = "CHANGE_PROPOSED"
      BY <2>1, <2>2
    <2>4. \A j \in i + 1 .. n : ~EndsChange(r[j])
      <3> SUFFICES ASSUME NEW j \in i + 1 .. n PROVE ~EndsChange(r[j])
        OBVIOUS
      <3>1. j \in 1 .. n /\ j \in i + 1 .. n + 1
        BY <2>2
      <3>2. s[j] = r[j]
        BY <3>1
      <3> QED BY <2>1, <3>1, <3>2
    <2> QED BY <2>1, <2>2, <2>3, <2>4 DEF Waits
  <1> QED
    BY <1>1, <1>2, <1>3

\* One more entry at the end holds a withdrawal, settles some, or leaves them.
LEMMA HeldAppend ==
    ASSUME NEW r, NEW n \in Nat, NEW s, \A i \in 1 .. n : s[i] = r[i]
    PROVE  \A id : id \in Held(s, n + 1) <=>
               \/ s[n + 1].kind = "HELD" /\ s[n + 1].id = id
               \/ id \in Held(r, n) /\ ~Settles(s[n + 1], id)
  <1> SUFFICES ASSUME NEW id
               PROVE  id \in Held(s, n + 1) <=>
                          \/ s[n + 1].kind = "HELD" /\ s[n + 1].id = id
                          \/ id \in Held(r, n) /\ ~Settles(s[n + 1], id)
    OBVIOUS
  <1>0. ASSUME NEW t, NEW m
        PROVE  id \in Held(t, m) <=>
                   \E i \in 1 .. m : /\ t[i].kind = "HELD" /\ t[i].id = id
                                     /\ \A j \in i + 1 .. m : ~Settles(t[j], id)
    BY DEF Held
  <1>1. ASSUME s[n + 1].kind = "HELD", s[n + 1].id = id PROVE id \in Held(s, n + 1)
    <2>1. n + 1 \in 1 .. n + 1 /\ \A j \in n + 1 + 1 .. n + 1 : FALSE
      OBVIOUS
    <2> QED BY <1>0, <1>1, <2>1
  <1>2. ASSUME id \in Held(r, n), ~Settles(s[n + 1], id) PROVE id \in Held(s, n + 1)
    <2>1. PICK i \in 1 .. n : /\ r[i].kind = "HELD" /\ r[i].id = id
                              /\ \A j \in i + 1 .. n : ~Settles(r[j], id)
      BY <1>0, <1>2
    <2>2. i \in 1 .. n + 1 /\ s[i].kind = "HELD" /\ s[i].id = id
      BY <2>1
    <2>3. \A j \in i + 1 .. n + 1 : ~Settles(s[j], id)
      <3> SUFFICES ASSUME NEW j \in i + 1 .. n + 1 PROVE ~Settles(s[j], id)
        OBVIOUS
      <3>1. CASE j = n + 1
        BY <1>2, <3>1
      <3>2. CASE j # n + 1
        <4>1. j \in 1 .. n /\ j \in i + 1 .. n
          BY <3>2
        <4>2. s[j] = r[j]
          BY <4>1
        <4> QED BY <2>1, <4>1, <4>2
      <3> QED BY <3>1, <3>2
    <2> QED BY <1>0, <2>2, <2>3
  <1>3. ASSUME id \in Held(s, n + 1), ~(s[n + 1].kind = "HELD" /\ s[n + 1].id = id)
        PROVE  id \in Held(r, n) /\ ~Settles(s[n + 1], id)
    <2>1. PICK i \in 1 .. n + 1 : /\ s[i].kind = "HELD" /\ s[i].id = id
                                  /\ \A j \in i + 1 .. n + 1 : ~Settles(s[j], id)
      BY <1>0, <1>3
    <2>2. i \in 1 .. n /\ n + 1 \in i + 1 .. n + 1
      BY <1>3, <2>1
    <2>3. r[i].kind = "HELD" /\ r[i].id = id
      BY <2>1, <2>2
    <2>4. \A j \in i + 1 .. n : ~Settles(r[j], id)
      <3> SUFFICES ASSUME NEW j \in i + 1 .. n PROVE ~Settles(r[j], id)
        OBVIOUS
      <3>1. j \in 1 .. n /\ j \in i + 1 .. n + 1
        BY <2>2
      <3>2. s[j] = r[j]
        BY <3>1
      <3> QED BY <2>1, <3>1, <3>2
    <2> QED BY <1>0, <2>1, <2>2, <2>3, <2>4
  <1> QED
    BY <1>1, <1>2, <1>3

-----------------------------------------------------------------------------
(* What a reader of the ring makes of it                                   *)

ReadFrozen(ring) == Frozen(Decode(ring), Occupied(ring))

ReadWaits(ring) == Waits(Decode(ring), Occupied(ring))

ReadHeld(ring) == Held(Decode(ring), Occupied(ring))

\* Nothing was overwritten yet.
Unwrapped(ring) == ring.total <= LEDGER_CAPACITY /\ ring.total < U32_MAX

\* What one record changes for the reader, as long as nothing is overwritten.
LEMMA ReadAfter ==
    ASSUME NEW E, NEW ring \in Ring(E), FilledInOrder(ring), NEW e \in E,
           Unwrapped(Record(ring, e))
    PROVE  /\ Unwrapped(ring)
           /\ ReadFrozen(Record(ring, e)) <=>
                  e.kind = "FROZEN" \/ (ReadFrozen(ring) /\ e.kind # "UNFROZEN")
           /\ ReadWaits(Record(ring, e)) <=>
                  e.kind = "CHANGE_PROPOSED" \/ (ReadWaits(ring) /\ ~EndsChange(e))
           /\ \A id : id \in ReadHeld(Record(ring, e)) <=>
                  \/ e.kind = "HELD" /\ e.id = id
                  \/ id \in ReadHeld(ring) /\ ~Settles(e, id)
  <1> DEFINE r == Decode(ring)
             s == Decode(Record(ring, e))
             n == Occupied(ring)
  <1>1. /\ LEDGER_CAPACITY \in Nat \ {0} /\ U32_MAX \in Nat /\ LEDGER_CAPACITY <= U32_MAX
        /\ ring.total \in Nat /\ ring.total <= U32_MAX
    BY RingAssumption DEF Ring
  <1>2. Record(ring, e).total = IF ring.total < U32_MAX THEN ring.total + 1 ELSE U32_MAX
    BY <1>1, RecordFields DEF SatInc
  <1>3. ring.total < LEDGER_CAPACITY /\ Unwrapped(ring)
    BY <1>1, <1>2 DEF Unwrapped
  <1>4. Displaced(ring) = 0 /\ n \in Nat
    BY <1>1, <1>3 DEF Displaced, Occupied
  <1>5. /\ n + 1 - 0 = n + 1 /\ n + 1 - 1 = n /\ \A i \in 1 .. n : i + 0 = i
    BY <1>4
  <1>6. /\ Occupied(Record(ring, e)) = n + 1 /\ s[n + 1] = e
        /\ \A i \in 1 .. n : s[i] = r[i]
    BY <1>4, <1>5, DecodeRecord
  <1> HIDE DEF r, s, n
  <1>7. Frozen(s, n + 1) <=> e.kind = "FROZEN" \/ (Frozen(r, n) /\ e.kind # "UNFROZEN")
    BY <1>4, <1>6, FrozenAppend
  <1>8. Waits(s, n + 1) <=> e.kind = "CHANGE_PROPOSED" \/ (Waits(r, n) /\ ~EndsChange(e))
    BY <1>4, <1>6, WaitsAppend
  <1>9. \A id : id \in Held(s, n + 1) <=>
            \/ e.kind = "HELD" /\ e.id = id
            \/ id \in Held(r, n) /\ ~Settles(e, id)
    BY <1>4, <1>6, HeldAppend
  <1> QED
    BY <1>3, <1>6, <1>7, <1>8, <1>9 DEF ReadFrozen, ReadWaits, ReadHeld, r, s, n

\* The reader finds the vault as it is, until the ring wraps.
RecordTells ==
    Unwrapped(ledger) =>
        /\ vault.frozen <=> ReadFrozen(ledger)
        /\ vault.change.active <=> ReadWaits(ledger)
        /\ PendingIds = ReadHeld(ledger)

\* With it: the ring fills from its first slot on, and the change that waits names a safe
\* address, which is what tells its end from a change applied at once.
RecordInv ==
    /\ FilledInOrder(ledger)
    /\ vault.change.active => vault.change.values.safe_address # NoKey
    /\ RecordTells

\* RecordTells is what RecordTellsTheVault says of the decoded record.
LEMMA RecordTellsIsRead == TypeOK /\ RecordTells => RecordTellsTheVault
  <1> SUFFICES ASSUME TypeOK, RecordTells, Unwrapped(ledger) PROVE RecordTellsTheVault
    BY DEF RecordTellsTheVault, Unwrapped
  <1> DEFINE record == Decode(ledger)
             n == Occupied(ledger)
  <1>1. n \in Nat /\ DOMAIN record = 1 .. n /\ Len(record) = n
    <2>1. n \in Nat /\ DOMAIN record = 1 .. n
      BY DecodeSlots DEF TypeOK
    <2>2. record = [i \in 1 .. n |-> record[i]]
      BY <2>1 DEF Decode
    <2> HIDE DEF record, n
    <2> QED BY <2>1, <2>2
  <1>2. /\ vault.frozen <=> Frozen(record, n)
        /\ vault.change.active <=> Waits(record, n)
        /\ PendingIds = Held(record, n)
    BY DEF RecordTells, ReadFrozen, ReadWaits, ReadHeld
  <1> HIDE DEF record, n
  <1> QED
    BY <1>1, <1>2, SMTT(30)
    DEF RecordTellsTheVault, LastWord, Frozen, Waits, Held, EndsChange, Settles, record

-----------------------------------------------------------------------------
(* The invariant                                                           *)

\* A vault opens with one record, which leaves nothing standing.
LEMMA RecordInit == Init => RecordInv
  <1> SUFFICES ASSUME Init PROVE RecordInv
    OBVIOUS
  <1>1. PICK r \in Rules : InitVault(r)
    BY DEF Init
  <1> DEFINE e == MkEntry("OPENED", 0, r.safe_address, 0, "NONE")
  <1>2. e \in HoldEntry /\ e.kind = "OPENED"
    <2>1. r.safe_address \in Keys \union {NoKey, Vault}
      BY HoldAssumption DEF HoldChange
    <2> QED BY <2>1 DEF MkEntry, HoldEntry, Kinds
  <1>3. EmptyRing \in Ring(HoldEntry) /\ FilledInOrder(EmptyRing)
    BY EmptyRingType DEF EmptyRing, FilledInOrder
  <1>4. /\ vault.frozen = FALSE /\ vault.change.active = FALSE /\ PendingIds = {}
        /\ ledger = Record(EmptyRing, e)
    BY <1>1 DEF InitVault, NoChange, PendingIds
  <1>5. ~ReadFrozen(EmptyRing) /\ ~ReadWaits(EmptyRing) /\ ReadHeld(EmptyRing) = {}
    <2>1. 1 .. Occupied(EmptyRing) = {}
      BY RingAssumption DEF Occupied, EmptyRing
    <2> QED
      BY <2>1 DEF ReadFrozen, ReadWaits, ReadHeld, Frozen, Waits, Held
  <1> HIDE DEF e
  <1>6. FilledInOrder(ledger)
    BY <1>2, <1>3, <1>4, DecodeRecord
  <1>7. RecordTells
    <2> SUFFICES ASSUME Unwrapped(ledger)
                 PROVE  /\ ~ReadFrozen(ledger) /\ ~ReadWaits(ledger)
                        /\ ReadHeld(ledger) = {}
      BY <1>4 DEF RecordTells
    <2> QED
      BY <1>2, <1>3, <1>4, <1>5, ReadAfter
  <1> QED
    BY <1>4, <1>6, <1>7 DEF RecordInv

\* An instruction that writes one record keeps the invariant if it does to the account what
\* the record says.
LEMMA OneRecord ==
    ASSUME TypeOK, RecordInv, NEW e \in HoldEntry, ledger' = Record(ledger, e),
           vault'.change.active => vault'.change.values.safe_address # NoKey,
           vault'.frozen <=> e.kind = "FROZEN" \/ (vault.frozen /\ e.kind # "UNFROZEN"),
           vault'.change.active <=>
               e.kind = "CHANGE_PROPOSED" \/ (vault.change.active /\ ~EndsChange(e)),
           \A id : id \in PendingIds' <=>
               \/ e.kind = "HELD" /\ e.id = id
               \/ id \in PendingIds /\ ~Settles(e, id)
    PROVE  RecordInv'
  <1>1. ledger \in Ring(HoldEntry) /\ FilledInOrder(ledger)
    BY DEF TypeOK, RecordInv
  <1>2. FilledInOrder(ledger')
    BY <1>1, DecodeRecord
  <1>3. ASSUME Unwrapped(ledger')
        PROVE  /\ vault'.frozen <=> ReadFrozen(ledger')
               /\ vault'.change.active <=> ReadWaits(ledger')
               /\ PendingIds' = ReadHeld(ledger')
    <2>1. /\ Unwrapped(ledger)
          /\ ReadFrozen(ledger') <=>
                 e.kind = "FROZEN" \/ (ReadFrozen(ledger) /\ e.kind # "UNFROZEN")
          /\ ReadWaits(ledger') <=>
                 e.kind = "CHANGE_PROPOSED" \/ (ReadWaits(ledger) /\ ~EndsChange(e))
          /\ \A id : id \in ReadHeld(ledger') <=>
                 \/ e.kind = "HELD" /\ e.id = id
                 \/ id \in ReadHeld(ledger) /\ ~Settles(e, id)
      BY <1>1, <1>3, ReadAfter
    <2>2. /\ vault.frozen <=> ReadFrozen(ledger)
          /\ vault.change.active <=> ReadWaits(ledger)
          /\ PendingIds = ReadHeld(ledger)
      BY <2>1 DEF RecordInv, RecordTells
    <2>3. \A id : id \in PendingIds' <=> id \in ReadHeld(ledger')
      BY <2>1, <2>2
    <2> QED
      BY <2>1, <2>2, <2>3
  <1> QED
    BY <1>2, <1>3 DEF RecordInv, RecordTells

\* The entries that change nothing a reader takes for standing.
LEMMA QuietRecord ==
    ASSUME TypeOK, RecordInv, NEW e \in HoldEntry, ledger' = Record(ledger, e),
           \/ e.kind \in {"OPENED", "DEPOSITED", "REFUSED", "UNFREEZE_SCHEDULED"}
           \/ e.kind = "PAID" /\ e.id = 0
           \/ e.kind = "CHANGE_APPLIED" /\ e.destination = NoKey,
           vault'.frozen = vault.frozen, vault'.change = vault.change,
           vault'.pending = vault.pending
    PROVE  RecordInv'
  <1>1. PendingIds' = PendingIds
    BY DEF PendingIds
  <1>2. \A id \in PendingIds : id # 0
    BY DEF PendingIds, TypeOK, HoldVaultAccount, PendingWithdrawal, Ids
  <1>3. ~EndsChange(e) /\ \A id \in PendingIds : ~Settles(e, id)
    BY <1>2 DEF EndsChange, Settles
  <1> QED
    BY <1>1, <1>3, OneRecord DEF RecordInv

\* The entry that settles one row.
LEMMA SettlingRecord ==
    ASSUME TypeOK, RowsInv, RecordInv, NEW row \in vault.pending, NEW e \in HoldEntry,
           ledger' = Record(ledger, e), e.kind \in {"PAID", "SKIPPED", "STOPPED"},
           e.id = row.id,
           vault'.frozen = vault.frozen, vault'.change = vault.change,
           vault'.pending = vault.pending \ {row}
    PROVE  RecordInv'
  <1>1. \A a \in vault.pending : a.id = row.id => a = row
    BY RowsInvMeans
  <1>2. \A id : id \in PendingIds' <=> id \in PendingIds /\ id # row.id
    BY <1>1 DEF PendingIds
  <1>3. ~EndsChange(e) /\ \A id : Settles(e, id) <=> id = row.id
    BY DEF EndsChange, Settles
  <1> QED
    BY <1>2, <1>3, OneRecord DEF RecordInv

\* What MkEntry makes is an entry.
LEMMA EntryMade ==
    ASSUME NEW kind \in Kinds, NEW amount \in Nat,
           NEW destination \in Keys \union Destinations \union {NoKey, Vault},
           NEW id \in Ids \union {0},
           NEW reason \in {"NONE", "INSUFFICIENT_FUNDS", "PENDING_FULL"} \union SUBSET Fields
    PROVE  LET e == MkEntry(kind, amount, destination, id, reason)
           IN  e \in HoldEntry /\ e.kind = kind /\ e.destination = destination /\ e.id = id
  BY DEF MkEntry, HoldEntry

\* A withdrawal, whichever way it goes, is told by its record.
LEMMA WithdrawTells ==
    ASSUME TypeOK, RecordInv, NEW destination \in Destinations, NEW amount \in Amounts,
           Withdraw(destination, amount)
    PROVE  RecordInv'
  <1> DEFINE E(kind, id, reason) == MkEntry(kind, amount, destination, id, reason)
  <1>1. amount \in Nat
    BY HoldAssumption
  <1>2. ASSUME NEW reason \in {"INSUFFICIENT_FUNDS", "PENDING_FULL"},
               Writes("REFUSED", amount, destination, 0, reason), vault' = vault
        PROVE  RecordInv'
    <2>1. /\ E("REFUSED", 0, reason) \in HoldEntry
          /\ E("REFUSED", 0, reason).kind = "REFUSED"
      BY <1>1, EntryMade DEF Kinds
    <2> QED
      BY <1>2, <2>1, QuietRecord DEF Writes
  <1>3. CASE WithdrawPaid(destination, amount)
    <2>1. /\ E("PAID", 0, "NONE") \in HoldEntry
          /\ E("PAID", 0, "NONE").kind = "PAID" /\ E("PAID", 0, "NONE").id = 0
      BY <1>1, EntryMade DEF Kinds
    <2>2. /\ vault'.frozen = vault.frozen /\ vault'.change = vault.change
          /\ vault'.pending = vault.pending
      BY <1>3 DEF WithdrawPaid, TypeOK, HoldVaultAccount
    <2>3. ledger' = Record(ledger, E("PAID", 0, "NONE"))
      BY <1>3 DEF WithdrawPaid, Writes
    <2> HIDE DEF E
    <2> QED
      BY <2>1, <2>2, <2>3, QuietRecord
  <1>4. CASE WithdrawHeld(destination, amount)
    <2> DEFINE id == vault.next_withdrawal_id
               row == [id |-> id, amount |-> amount, destination |-> destination,
                       unlock_at |-> Due(vault.rules.delay_secs)]
               e == E("HELD", id, "NONE")
    <2>1. id \in Ids
      BY DEF TypeOK, HoldVaultAccount
    <2>2. e \in HoldEntry /\ e.kind = "HELD" /\ e.id = id
      BY <1>1, <2>1, EntryMade DEF Kinds
    <2>3. /\ vault'.frozen = vault.frozen /\ vault'.change = vault.change
          /\ vault'.pending = vault.pending \union {row}
      BY <1>4 DEF WithdrawHeld, TypeOK, HoldVaultAccount
    <2>4. ledger' = Record(ledger, e)
      BY <1>4 DEF WithdrawHeld, Writes
    <2>5. row.id = id
      OBVIOUS
    <2> HIDE DEF e, row, id
    <2>6. \A x : x \in PendingIds' <=> x = id \/ x \in PendingIds
      BY <2>3, <2>5 DEF PendingIds
    <2>7. ~EndsChange(e) /\ \A x : ~Settles(e, x)
      BY <2>2 DEF EndsChange, Settles
    <2> QED
      BY <2>2, <2>3, <2>4, <2>6, <2>7, OneRecord DEF RecordInv
  <1>5. CASE WithdrawUncovered(destination, amount) \/ WithdrawFull(destination, amount)
    BY <1>2, <1>5 DEF WithdrawUncovered, WithdrawFull
  <1> QED
    BY <1>3, <1>4, <1>5 DEF Withdraw

\* Executing, skipping and stopping a row are told by their records.
LEMMA RowTells ==
    ASSUME TypeOK, RowsInv, RecordInv, NEW row \in vault.pending,
           Execute(row) \/ Skip(row) \/ Stop(row)
    PROVE  RecordInv'
  <1>1. PICK kind \in {"PAID", "SKIPPED", "STOPPED"} :
            Writes(kind, row.amount, row.destination, row.id, "NONE")
    BY DEF Execute, Skip, Stop, PayRow
  <1> DEFINE e == MkEntry(kind, row.amount, row.destination, row.id, "NONE")
  <1>2. row \in PendingWithdrawal
    BY DEF TypeOK, HoldVaultAccount
  <1>3. e \in HoldEntry /\ e.kind = kind /\ e.id = row.id
    BY <1>2, EntryMade DEF PendingWithdrawal, Kinds
  <1>4. /\ vault'.frozen = vault.frozen /\ vault'.change = vault.change
        /\ vault'.pending = vault.pending \ {row}
    BY DEF Execute, Skip, Stop, PayRow, Without, TypeOK, HoldVaultAccount
  <1>5. ledger' = Record(ledger, e)
    BY <1>1 DEF Writes
  <1> HIDE DEF e
  <1> QED
    BY <1>3, <1>4, <1>5, SettlingRecord

\* Freezing and every way to thaw are told by their records.
LEMMA FreezeTells ==
    ASSUME TypeOK, RecordInv, (\E authority \in Keys : Freeze(authority)) \/ Unfreeze
    PROVE  RecordInv'
  <1> DEFINE e(kind, authority) == MkEntry(kind, 0, authority, 0, "NONE")
  <1>0. ASSUME NEW kind \in Kinds, NEW authority \in Keys \union {NoKey}
        PROVE  e(kind, authority) \in HoldEntry /\ e(kind, authority).kind = kind
    BY EntryMade
  <1>1. ASSUME NEW authority \in Keys, Freeze(authority) PROVE RecordInv'
    <2>1. /\ e("FROZEN", authority) \in HoldEntry
          /\ e("FROZEN", authority).kind = "FROZEN"
      BY <1>0 DEF Kinds
    <2>2. /\ vault'.frozen = TRUE /\ vault'.change = vault.change
          /\ vault'.pending = vault.pending
          /\ ledger' = Record(ledger, e("FROZEN", authority))
      BY <1>1 DEF Freeze, Writes, TypeOK, HoldVaultAccount
    <2> HIDE DEF e
    <2>3. /\ ~EndsChange(e("FROZEN", authority))
          /\ \A id : ~Settles(e("FROZEN", authority), id)
      BY <2>1 DEF EndsChange, Settles
    <2> QED
      BY <2>1, <2>2, <2>3, OneRecord DEF RecordInv, PendingIds
  <1>2. CASE FinishUnfreeze
    <2>1. e("UNFROZEN", NoKey) \in HoldEntry /\ e("UNFROZEN", NoKey).kind = "UNFROZEN"
      BY <1>0 DEF Kinds
    <2>2. /\ vault'.frozen = FALSE /\ vault'.change = vault.change
          /\ vault'.pending = vault.pending
          /\ ledger' = Record(ledger, e("UNFROZEN", NoKey))
      BY <1>2 DEF FinishUnfreeze, Thawed, Writes, TypeOK, HoldVaultAccount
    <2> HIDE DEF e
    <2>3. /\ ~EndsChange(e("UNFROZEN", NoKey))
          /\ \A id : ~Settles(e("UNFROZEN", NoKey), id)
      BY <2>1 DEF EndsChange, Settles
    <2> QED
      BY <2>1, <2>2, <2>3, OneRecord DEF RecordInv, PendingIds
  <1>3. CASE ArmUnfreeze
    <2>1. /\ e("UNFREEZE_SCHEDULED", NoKey) \in HoldEntry
          /\ e("UNFREEZE_SCHEDULED", NoKey).kind = "UNFREEZE_SCHEDULED"
      BY <1>0 DEF Kinds
    <2>2. /\ vault'.frozen = vault.frozen /\ vault'.change = vault.change
          /\ vault'.pending = vault.pending
          /\ ledger' = Record(ledger, e("UNFREEZE_SCHEDULED", NoKey))
      BY <1>3 DEF ArmUnfreeze, Writes, TypeOK, HoldVaultAccount
    <2> HIDE DEF e
    <2> QED
      BY <2>1, <2>2, QuietRecord
  <1> QED
    BY <1>1, <1>2, <1>3 DEF Unfreeze, UnfreezeByBoth, UnfreezeAlone

\* Recovering settles every row, and its record says so.
LEMMA RecoverTells ==
    ASSUME TypeOK, RecordInv, NEW destination \in Destinations, Recover(destination)
    PROVE  RecordInv'
  <1> DEFINE e == MkEntry("RECOVERED", balance, destination, 0, "NONE")
  <1>1. e \in HoldEntry /\ e.kind = "RECOVERED"
    BY EntryMade DEF TypeOK, Kinds
  <1>2. /\ vault'.frozen = vault.frozen /\ vault'.change = vault.change
        /\ vault'.pending = {} /\ ledger' = Record(ledger, e)
    BY DEF Recover, Unclaimed, Writes, TypeOK, HoldVaultAccount
  <1> HIDE DEF e
  <1>3. ~EndsChange(e) /\ \A id : Settles(e, id)
    BY <1>1 DEF EndsChange, Settles
  <1> QED
    BY <1>1, <1>2, <1>3, OneRecord DEF RecordInv, PendingIds

\* Applying and cancelling a change are told by their records: a change that waited is
\* applied with its safe address.
LEMMA EndOfChangeTells ==
    ASSUME TypeOK, RecordInv, ApplyChange \/ CancelChange
    PROVE  RecordInv'
  <1>1. NoChange.active = FALSE
    BY DEF NoChange
  <1>2. ASSUME NEW e \in HoldEntry, EndsChange(e),
               e.kind \in {"CHANGE_APPLIED", "CHANGE_CANCELLED"},
               ledger' = Record(ledger, e), vault'.frozen = vault.frozen,
               vault'.change = NoChange, vault'.pending = vault.pending
        PROVE  RecordInv'
    <2>1. \A id : ~Settles(e, id)
      BY <1>2 DEF Settles
    <2> QED
      BY <1>1, <1>2, <2>1, OneRecord DEF PendingIds
  <1>3. CASE ApplyChange
    <2> DEFINE change == vault.change
               e == MkEntry("CHANGE_APPLIED", 0, change.values.safe_address, 0, change.fields)
    <2>1. /\ change.values.safe_address \in Keys \union {NoKey, Vault}
          /\ change.fields \in SUBSET Fields
      BY DEF TypeOK, HoldVaultAccount, PendingChange, HoldChange
    <2>2. e \in HoldEntry /\ e.kind = "CHANGE_APPLIED"
          /\ e.destination = change.values.safe_address
      <3>1. "CHANGE_APPLIED" \in Kinds /\ 0 \in Nat
        BY DEF Kinds
      <3> HIDE DEF change
      <3> QED BY <2>1, <3>1 DEF MkEntry, HoldEntry
    <2>3. change.values.safe_address # NoKey
      BY <1>3 DEF ApplyChange, RecordInv
    <2>4. /\ vault'.frozen = vault.frozen /\ vault'.change = NoChange
          /\ vault'.pending = vault.pending
      BY <1>3 DEF ApplyChange, TypeOK, HoldVaultAccount
    <2>5. ledger' = Record(ledger, e)
      BY <1>3 DEF ApplyChange, Writes
    <2> HIDE DEF e, change
    <2>6. EndsChange(e)
      BY <2>2, <2>3 DEF EndsChange
    <2> QED
      BY <1>2, <2>2, <2>4, <2>5, <2>6
  <1>4. CASE CancelChange
    <2> DEFINE e == MkEntry("CHANGE_CANCELLED", 0, NoKey, 0, "NONE")
    <2>1. e \in HoldEntry /\ e.kind = "CHANGE_CANCELLED"
      BY DEF MkEntry, HoldEntry, Kinds
    <2>2. /\ vault'.frozen = vault.frozen /\ vault'.change = NoChange
          /\ vault'.pending = vault.pending /\ ledger' = Record(ledger, e)
      BY <1>4 DEF CancelChange, Writes, TypeOK, HoldVaultAccount
    <2> HIDE DEF e
    <2> QED
      BY <1>2, <2>1, <2>2 DEF EndsChange
  <1> QED
    BY <1>3, <1>4

\* A proposed change is told by its one or two records: what was applied at once is not
\* taken for the end of a change that waited.
LEMMA ProposeTells ==
    ASSUME TypeOK, RecordInv, NEW values \in Rules, ProposeChange(values)
    PROVE  RecordInv'
  <1> DEFINE tighten == Tightened(vault.rules, values)
             loosen == Loosened(vault.rules, values)
             a == MkEntry("CHANGE_APPLIED", 0, NoKey, 0, tighten)
             p == MkEntry("CHANGE_PROPOSED", 0, values.safe_address, 0, loosen)
             mid == IF tighten = {} THEN ledger ELSE Record(ledger, a)
  <1>1. /\ values.safe_address \in Keys \union {NoKey, Vault}
        /\ values.safe_address # NoKey
    BY HoldAssumption DEF HoldChange, ProposeChange, RulesAllowed
  <1>2. tighten \in SUBSET Fields /\ loosen \in SUBSET Fields
    BY FieldsType
  <1>3. /\ ledger' = IF loosen = {} THEN mid ELSE Record(mid, p)
        /\ tighten # {} \/ loosen # {}
        /\ loosen # {} => ~vault.change.active
    BY DEF ProposeChange, WritesChange
  <1>4. /\ vault'.frozen = vault.frozen /\ vault'.pending = vault.pending
        /\ loosen = {} => vault'.change = vault.change
        /\ loosen # {} => /\ vault'.change.active = TRUE
                          /\ vault'.change.values = values
    BY DEF ProposeChange, TypeOK, HoldVaultAccount
  <1>5. a \in HoldEntry /\ a.kind = "CHANGE_APPLIED" /\ a.destination = NoKey
    <2>1. "CHANGE_APPLIED" \in Kinds /\ 0 \in Nat
      BY DEF Kinds
    <2> HIDE DEF tighten
    <2> QED BY <1>2, <2>1 DEF MkEntry, HoldEntry
  <1>6. p \in HoldEntry /\ p.kind = "CHANGE_PROPOSED"
    <2>1. "CHANGE_PROPOSED" \in Kinds /\ 0 \in Nat
      BY DEF Kinds
    <2> HIDE DEF loosen
    <2> QED BY <1>1, <1>2, <2>1 DEF MkEntry, HoldEntry
  <1>7. /\ ~EndsChange(a) /\ \A id : ~Settles(a, id)
        /\ ~EndsChange(p) /\ \A id : ~Settles(p, id)
    <2> HIDE DEF a, p
    <2> QED BY <1>5, <1>6 DEF EndsChange, Settles
  <1> HIDE DEF a, p, tighten, loosen
  <1>8. CASE loosen = {}
    BY <1>3, <1>4, <1>5, <1>8, QuietRecord
  <1>9. CASE loosen # {}
    <2>1. ledger \in Ring(HoldEntry) /\ FilledInOrder(ledger)
      BY DEF TypeOK, RecordInv
    <2>2. mid \in Ring(HoldEntry) /\ FilledInOrder(mid)
      BY <1>5, <2>1, RecordType, DecodeRecord
    <2>3. ASSUME Unwrapped(mid)
          PROVE  /\ Unwrapped(ledger)
                 /\ ReadFrozen(mid) <=> ReadFrozen(ledger)
                 /\ ReadWaits(mid) <=> ReadWaits(ledger)
                 /\ \A id : id \in ReadHeld(mid) <=> id \in ReadHeld(ledger)
      <3>1. CASE tighten = {}
        BY <2>3, <3>1
      <3>2. CASE tighten # {}
        <4>1. mid = Record(ledger, a)
          BY <3>2
        <4> HIDE DEF mid
        <4> QED
          BY <1>5, <1>7, <2>1, <2>3, <4>1, ReadAfter
      <3> QED
        BY <3>1, <3>2
    <2>4. ledger' = Record(mid, p)
      BY <1>3, <1>9
    <2> HIDE DEF mid
    <2>5. FilledInOrder(ledger')
      BY <1>6, <2>2, <2>4, DecodeRecord
    <2>6. ASSUME Unwrapped(ledger')
          PROVE  /\ vault'.frozen <=> ReadFrozen(ledger')
                 /\ vault'.change.active <=> ReadWaits(ledger')
                 /\ PendingIds' = ReadHeld(ledger')
      <3>1. /\ Unwrapped(mid)
            /\ ReadFrozen(ledger') <=> ReadFrozen(mid)
            /\ ReadWaits(ledger')
            /\ \A id : id \in ReadHeld(ledger') <=> id \in ReadHeld(mid)
        BY <1>6, <1>7, <2>2, <2>4, <2>6, ReadAfter
      <3>2. /\ vault.frozen <=> ReadFrozen(ledger)
            /\ PendingIds = ReadHeld(ledger)
        BY <2>3, <3>1 DEF RecordInv, RecordTells
      <3>3. \A id : id \in PendingIds' <=> id \in ReadHeld(ledger')
        BY <1>4, <2>3, <3>1, <3>2 DEF PendingIds
      <3>4. PendingIds' = ReadHeld(ledger')
        BY <3>3
      <3> QED
        BY <1>4, <1>9, <2>3, <3>1, <3>2, <3>4
    <2> QED
      BY <1>1, <1>4, <1>9, <2>5, <2>6 DEF RecordInv, RecordTells
  <1> QED
    BY <1>8, <1>9

\* Every instruction tells by its record what it did.
LEMMA RecordStep == TypeOK /\ RowsInv /\ RecordInv /\ [Next]_vars => RecordInv'
  <1> SUFFICES ASSUME TypeOK, RowsInv, RecordInv, [Next]_vars PROVE RecordInv'
    OBVIOUS
  <1>1. ASSUME NEW amount \in Amounts, Deposit(amount) PROVE RecordInv'
    <2> DEFINE e == MkEntry("DEPOSITED", amount, Vault, 0, "NONE")
    <2>1. e \in HoldEntry /\ e.kind = "DEPOSITED"
      BY HoldAssumption, EntryMade DEF Kinds
    <2>2. vault' = vault /\ ledger' = Record(ledger, e)
      BY <1>1 DEF Deposit, Writes
    <2> HIDE DEF e
    <2> QED
      BY <2>1, <2>2, QuietRecord
  <1>2. ASSUME vault' = vault, ledger' = ledger PROVE RecordInv'
    BY <1>2 DEF RecordInv, RecordTells, PendingIds
  <1>3. (\E amount \in Amounts : Send(amount)) \/ Tick \/ Rewind \/ UNCHANGED vars
            => vault' = vault /\ ledger' = ledger
    BY DEF Send, Tick, Rewind, vars
  <1> QED
    BY <1>1, <1>2, <1>3, WithdrawTells, RowTells, FreezeTells, RecoverTells, EndOfChangeTells,
       ProposeTells
    DEF Next

\* Until the ring wraps, whoever reads the record of a vault knows from it alone whether the
\* vault is frozen, which withdrawals are pending and whether a change waits: write_record
\* is called once for everything an instruction does, and twice when propose_change both
\* tightens and makes wait.
THEOREM TheRecordTellsTheVault == Spec => []RecordTellsTheVault
  <1>1. Init => TypeOK /\ RowsInv /\ RecordInv
    BY HoldTypeInit, RowsInit, RecordInit
  <1>2. TypeOK /\ RowsInv /\ RecordInv /\ [Next]_vars => TypeOK' /\ RowsInv' /\ RecordInv'
    BY HoldTypeStep, RowsStep, RecordStep
  <1>3. TypeOK /\ RecordInv => RecordTellsTheVault
    BY RecordTellsIsRead DEF RecordInv
  <1> QED
    BY <1>1, <1>2, <1>3, PTL DEF Spec

-----------------------------------------------------------------------------
(* What the buckets hold                                                   *)

\* Seconds are finitely many integers, as slots and hours are.
LEMMA SlotsFinite ==
    /\ IsFiniteSet(BucketSlots) /\ IsFiniteSet(Seconds)
    /\ \A buckets, t : IsFiniteSet(InWindow(buckets, t))
    /\ \A t \in Int : Hour(t) \in Int /\ SlotOf(t) \in BucketSlots
  <1>1. IsFiniteSet(Seconds)
    BY FS_Interval, HoldAssumption DEF Seconds
  <1> QED
    BY <1>1, BucketsFinite

-----------------------------------------------------------------------------
(* The preview                                                             *)

\* holdRead.ts adds up the day as can_pay_now does, and starts from the amount asked for.
LEMMA DailyNextIsSpent ==
    ASSUME NEW amount
    PROVE  DailyNext(vault, amount) = amount + Spent(vault.daily_buckets, now)
  BY DEF DailyNext, Spent, Hour

\* No row that is pending carries the identifier 0, so the reader drops none.
LEMMA ReadAccountIsVault == TypeOK => ReadAccount = vault
  <1> SUFFICES ASSUME TypeOK PROVE ReadAccount = vault
    OBVIOUS
  <1>1. {row \in vault.pending : row.id # 0} = vault.pending
    BY DEF TypeOK, HoldVaultAccount, PendingWithdrawal, Ids
  <1> QED
    BY <1>1 DEF ReadAccount, TypeOK, HoldVaultAccount

\* The preview finds a reason against paying at once exactly when can_pay_now does.
LEMMA ReasonsAreCanPayNow ==
    ASSUME TypeOK, NEW destination \in Destinations, NEW amount \in Nat
    PROVE  Reasons(vault, destination, amount) = {} <=> CanPayNow(destination, amount)
  <1> DEFINE spent == Spent(vault.daily_buckets, now)
             daily == DailyNext(vault, amount)
             cap == ShareCap(balance, vault.rules.big_share_bps)
  <1>1. spent \in Nat
    BY SpentIsTotal DEF TypeOK, HoldVaultAccount
  <1>2. daily = spent + amount /\ daily \in Nat
    <2> HIDE DEF spent
    <2>1. daily = amount + spent
      BY DailyNextIsSpent DEF spent
    <2> HIDE DEF daily
    <2> QED BY <1>1, <2>1
  <1>3. AppShareCap(balance, vault.rules.big_share_bps) = cap
    BY DEF AppShareCap, ShareCap
  <1>4. cap \in Int /\ vault.rules.daily_limit \in Int /\ U64_MAX \in Int
    BY HoldAssumption, WindowAssumption
    DEF TypeOK, HoldVaultAccount, HoldChange, ShareCap
  <1> DEFINE R == {"frozen", "new_address", "over_daily_limit", "over_share"}
             Against(r) ==
                \/ r = "frozen" /\ vault.frozen
                \/ r = "new_address" /\ destination \notin vault.known
                \/ r = "over_daily_limit"
                        /\ (daily > U64_MAX \/ daily > vault.rules.daily_limit)
                \/ r = "over_share" /\ daily > cap
  <1>5. Reasons(vault, destination, amount) = {r \in R : Against(r)}
    <2> HIDE DEF cap
    <2> QED BY <1>3 DEF Reasons
  <1>6. {r \in R : Against(r)} = {} <=> \A r \in R : ~Against(r)
    <2> HIDE DEF R, Against
    <2> QED OBVIOUS
  <1>7. (\A r \in R : ~Against(r)) <=>
            /\ ~vault.frozen
            /\ destination \in vault.known
            /\ ~(daily > U64_MAX) /\ ~(daily > vault.rules.daily_limit)
            /\ ~(daily > cap)
    <2> HIDE DEF cap, daily
    <2> QED OBVIOUS
  <1>8. CanPayNow(destination, amount) <=>
            /\ ~vault.frozen
            /\ destination \in vault.known
            /\ daily <= U64_MAX /\ daily <= vault.rules.daily_limit /\ daily <= cap
    <2> HIDE DEF daily
    <2> QED BY <1>2 DEF CanPayNow
  <1> HIDE DEF daily, cap, R, Against
  <1> QED
    BY <1>2, <1>4, <1>5, <1>6, <1>7, <1>8

\* The records the preview is about: only withdraw writes them.
Foretold(e) == e.kind \in {"PAID", "HELD", "REFUSED"} /\ e.id \in {0, vault.next_withdrawal_id}

\* Every step but withdraw leaves the ledger alone or ends with another record.
LEMMA OnlyWithdrawIsForetold ==
    ASSUME TypeOK, RowsInv, [Next]_vars, ledger' # ledger, Foretold(Newest(ledger'))
    PROVE  \E destination \in Destinations, amount \in Amounts : Withdraw(destination, amount)
  <1> DEFINE e == Newest(ledger')
             Written(kinds) ==
                \E kind \in kinds : \E amount, destination, id, reason :
                    Writes(kind, amount, destination, id, reason)
             Others == Kinds \ {"PAID", "HELD", "REFUSED"}
  <1>1. ASSUME Written(Others) PROVE FALSE
    <2>1. PICK kind, amount, destination, id, reason :
              kind \in Others /\ Writes(kind, amount, destination, id, reason)
      BY <1>1
    <2>2. e = MkEntry(kind, amount, destination, id, reason)
      BY <2>1, WritesNewest
    <2> QED BY <2>1, <2>2 DEF Foretold, MkEntry
  <1>2. ASSUME NEW amount \in Amounts, Deposit(amount) \/ Send(amount) PROVE FALSE
    BY <1>1, <1>2 DEF Deposit, Send, Kinds
  <1>3. ASSUME NEW row \in vault.pending, Execute(row) PROVE FALSE
    <2>1. Writes("PAID", row.amount, row.destination, row.id, "NONE")
      BY <1>3 DEF Execute, PayRow
    <2>2. e.id = row.id
      BY <2>1, WritesNewest DEF MkEntry
    <2>3. row.id \in Ids /\ row.id < vault.next_withdrawal_id
      BY RowsInvMeans DEF TypeOK, HoldVaultAccount, PendingWithdrawal
    <2>4. vault.next_withdrawal_id \in Ids
      BY DEF TypeOK, HoldVaultAccount
    <2> QED BY <2>2, <2>3, <2>4 DEF Foretold, Ids
  <1>4. ASSUME NEW row \in vault.pending, Skip(row) \/ Stop(row) PROVE FALSE
    BY <1>1, <1>4 DEF Skip, PayRow, Stop, Kinds
  <1>5. ASSUME NEW authority \in Keys, Freeze(authority) PROVE FALSE
    BY <1>1, <1>5 DEF Freeze, Kinds
  <1>6. CASE Unfreeze
    BY <1>1, <1>6 DEF Unfreeze, UnfreezeByBoth, ArmUnfreeze, UnfreezeAlone, FinishUnfreeze, Kinds
  <1>7. ASSUME NEW destination \in Destinations, Recover(destination) PROVE FALSE
    BY <1>1, <1>7 DEF Recover, Kinds
  <1>8. ASSUME NEW values \in Rules, ProposeChange(values) PROVE FALSE
    <2> DEFINE tighten == Tightened(vault.rules, values)
               loosen == Loosened(vault.rules, values)
               a == MkEntry("CHANGE_APPLIED", 0, NoKey, 0, tighten)
               p == MkEntry("CHANGE_PROPOSED", 0, values.safe_address, 0, loosen)
               applied == IF tighten = {} THEN ledger ELSE Record(ledger, a)
    <2>1. /\ tighten # {} \/ loosen # {}
          /\ ledger' = IF loosen = {} THEN applied ELSE Record(applied, p)
      BY <1>8 DEF ProposeChange, WritesChange
    <2>2. ledger \in Ring(HoldEntry) /\ a \in HoldEntry
      <3>1. tighten \in SUBSET Fields
        BY FieldsType
      <3> QED BY <3>1 DEF TypeOK, MkEntry, HoldEntry, Kinds
    <2>3. applied \in Ring(HoldEntry)
      BY <2>2, RecordType
    <2>4. e = a \/ e = p
      <3> HIDE DEF a, p, tighten, loosen
      <3>1. CASE loosen = {}
        BY <2>1, <2>2, <3>1, NewestIsRecorded
      <3>2. CASE loosen # {}
        <4> HIDE DEF applied
        <4> QED BY <2>1, <2>3, <3>2, NewestIsRecorded
      <3> QED BY <3>1, <3>2
    <2> QED BY <2>4 DEF Foretold, MkEntry
  <1>9. CASE ApplyChange
    BY <1>1, <1>9 DEF ApplyChange, Kinds
  <1>10. CASE CancelChange
    BY <1>1, <1>10 DEF CancelChange, Kinds
  <1>11. CASE Tick \/ Rewind \/ UNCHANGED vars
    BY <1>11 DEF Tick, Rewind, vars
  <1> QED
    BY <1>2, <1>3, <1>4, <1>5, <1>6, <1>7, <1>8, <1>9, <1>10, <1>11 DEF Next

\* The rows fit their array.
PendingFits ==
    IsFiniteSet(vault.pending) /\ Cardinality(vault.pending) <= HOLD_PENDING_CAPACITY

\* A row is added only while one is free (withdraw).
LEMMA PendingFitsStep == TypeOK /\ PendingFits /\ [Next]_vars => PendingFits'
  <1> SUFFICES ASSUME TypeOK, PendingFits, [Next]_vars PROVE PendingFits'
    OBVIOUS
  <1>0. Cardinality(vault.pending) \in Nat /\ HOLD_PENDING_CAPACITY \in Nat
    BY FS_CardinalityType, HoldAssumption DEF PendingFits
  <1>1. ASSUME NEW destination \in Destinations, NEW amount \in Amounts,
               WithdrawHeld(destination, amount)
        PROVE  PendingFits'
    <2>1. PICK row : vault'.pending = vault.pending \union {row}
      BY <1>1 DEF WithdrawHeld, TypeOK, HoldVaultAccount
    <2>2. /\ IsFiniteSet(vault'.pending)
          /\ Cardinality(vault'.pending) <= Cardinality(vault.pending) + 1
      BY <1>0, <2>1, FS_AddElement DEF PendingFits
    <2>3. Cardinality(vault.pending) < HOLD_PENDING_CAPACITY
      BY <1>1 DEF WithdrawHeld
    <2>4. Cardinality(vault'.pending) \in Nat
      BY <2>2, FS_CardinalityType
    <2> QED BY <1>0, <2>2, <2>3, <2>4 DEF PendingFits
  <1>2. ASSUME vault'.pending \subseteq vault.pending PROVE PendingFits'
    <2>1. /\ IsFiniteSet(vault'.pending)
          /\ Cardinality(vault'.pending) <= Cardinality(vault.pending)
          /\ Cardinality(vault'.pending) \in Nat
      BY <1>2, FS_Subset, FS_CardinalityType DEF PendingFits
    <2> QED BY <1>0, <2>1 DEF PendingFits
  <1>3. ASSUME NEW row \in vault.pending, Execute(row) \/ Skip(row) \/ Stop(row)
        PROVE  vault'.pending \subseteq vault.pending
    BY <1>3 DEF Execute, Skip, Stop, PayRow, Without, TypeOK, HoldVaultAccount
  <1>4. ASSUME NEW destination \in Destinations, Recover(destination)
        PROVE  vault'.pending \subseteq vault.pending
    BY <1>4 DEF Recover, Unclaimed, TypeOK, HoldVaultAccount
  <1>5. CASE /\ \A destination \in Destinations, amount \in Amounts :
                    ~WithdrawHeld(destination, amount)
             /\ \A row \in vault.pending : ~Execute(row) /\ ~Skip(row) /\ ~Stop(row)
             /\ \A destination \in Destinations : ~Recover(destination)
    BY <1>2, <1>5, RowsFrame
  <1> QED
    BY <1>1, <1>2, <1>3, <1>4, <1>5

\* A withdrawal ends as the outlook computed just before it says.
LEMMA WithdrawAsForetold ==
    ASSUME TypeOK, RowsInv, PendingFits, [Next]_vars, NEW destination \in Destinations,
           NEW amount \in Amounts, Withdraw(destination, amount)
    PROVE  LET e == Newest(ledger') IN
           HoldWithdrawalOutlook(ReadAccount, e.destination, e.amount) = Outcome(e)
  <1> DEFINE e == Newest(ledger')
             outlook == HoldWithdrawalOutlook(vault, destination, amount)
             none == Reasons(vault, destination, amount) = {}
  <1>1. amount \in Nat /\ balance \in Nat
    BY HoldAssumption DEF TypeOK
  <1>2. none <=> CanPayNow(destination, amount)
    BY <1>1, ReasonsAreCanPayNow
  <1>3. outlook =
            CASE amount > balance -> Outlook("refused", "INSUFFICIENT_FUNDS", 0)
              [] amount <= balance /\ none -> Outlook("at_once", "NONE", 0)
              [] OTHER ->
                    IF Cardinality(vault.pending) >= HOLD_PENDING_CAPACITY
                    THEN Outlook("refused", "PENDING_FULL", 0)
                    ELSE Outlook("held", "NONE", now + vault.rules.delay_secs)
    BY DEF HoldWithdrawalOutlook
  <1> HIDE DEF outlook, none
  <1>4. ASSUME NEW kind, NEW id, NEW reason,
               Writes(kind, amount, destination, id, reason)
        PROVE  /\ e.kind = kind /\ e.amount = amount /\ e.destination = destination
               /\ e.id = id /\ e.reason = reason
    BY <1>4, WritesNewest DEF MkEntry
  <1> HIDE DEF e
  <1>5. CASE WithdrawUncovered(destination, amount)
    <2>1. e.kind = "REFUSED" /\ e.reason = "INSUFFICIENT_FUNDS"
      BY <1>4, <1>5 DEF WithdrawUncovered
    <2>2. outlook = Outlook("refused", "INSUFFICIENT_FUNDS", 0)
      BY <1>1, <1>3, <1>5 DEF WithdrawUncovered
    <2>3. Outcome(e) = outlook /\ e.amount = amount /\ e.destination = destination
      BY <1>4, <1>5, <2>1, <2>2 DEF Outcome, WithdrawUncovered
    <2> QED BY <2>3, ReadAccountIsVault DEF outlook, e
  <1>6. CASE WithdrawPaid(destination, amount)
    <2>1. e.kind = "PAID"
      BY <1>4, <1>6 DEF WithdrawPaid
    <2>2. outlook = Outlook("at_once", "NONE", 0)
      BY <1>1, <1>2, <1>3, <1>6 DEF WithdrawPaid
    <2>3. Outcome(e) = outlook /\ e.amount = amount /\ e.destination = destination
      BY <1>4, <1>6, <2>1, <2>2 DEF Outcome, WithdrawPaid
    <2> QED BY <2>3, ReadAccountIsVault DEF outlook, e
  <1>7. CASE WithdrawHeld(destination, amount)
    <2> DEFINE id == vault.next_withdrawal_id
               row == [id |-> id, amount |-> amount, destination |-> destination,
                       unlock_at |-> Due(vault.rules.delay_secs)]
    <2>1. e.kind = "HELD" /\ e.id = id
      BY <1>4, <1>7 DEF WithdrawHeld
    <2>2. vault'.pending = vault.pending \union {row}
      BY <1>7 DEF WithdrawHeld, TypeOK, HoldVaultAccount
    <2>3. RowsInv'
      BY RowsStep
    <2>4. \A a \in vault'.pending : a.id = id => a = row
      BY <2>2, <2>3, RowsInvMeans DEF RowsInv, SettledOnce
    <2>5. (CHOOSE a \in vault'.pending : a.id = id) = row
      <3>1. row \in vault'.pending /\ row.id = id
        BY <2>2
      <3> HIDE DEF row, id
      <3> QED BY <2>4, <3>1
    <2>6. row.unlock_at = now + vault.rules.delay_secs
      BY DEF Due
    <2>7. Outcome(e) = Outlook("held", "NONE", now + vault.rules.delay_secs)
      <3> HIDE DEF row, id
      <3> QED BY <2>1, <2>5, <2>6 DEF Outcome
    <2>8. outlook = Outlook("held", "NONE", now + vault.rules.delay_secs)
      <3>1. ~(Cardinality(vault.pending) >= HOLD_PENDING_CAPACITY)
        BY <1>7, FS_CardinalityType, HoldAssumption DEF WithdrawHeld, PendingFits
      <3> QED BY <1>1, <1>2, <1>3, <1>7, <3>1 DEF WithdrawHeld
    <2>9. e.amount = amount /\ e.destination = destination
      BY <1>4, <1>7 DEF WithdrawHeld
    <2> QED BY <2>7, <2>8, <2>9, ReadAccountIsVault DEF outlook, e
  <1>8. CASE WithdrawFull(destination, amount)
    <2>1. e.kind = "REFUSED" /\ e.reason = "PENDING_FULL"
      BY <1>4, <1>8 DEF WithdrawFull
    <2>2. outlook = Outlook("refused", "PENDING_FULL", 0)
      BY <1>1, <1>2, <1>3, <1>8 DEF WithdrawFull
    <2>3. Outcome(e) = outlook /\ e.amount = amount /\ e.destination = destination
      BY <1>4, <1>8, <2>1, <2>2 DEF Outcome, WithdrawFull
    <2> QED BY <2>3, ReadAccountIsVault DEF outlook, e
  <1> QED
    BY <1>5, <1>6, <1>7, <1>8 DEF Withdraw, e

\* Whatever was paid, held, frozen, stopped or recovered before, and whatever the rules, a
\* withdrawal ends the way the phone and the SDK said it would when they read the accounts
\* just before it (holdWithdrawalOutlook; withdraw, can_pay_now).
THEOREM WithdrawalsEndAsForetold == Spec => PreviewIsWhatHappens
  <1>1. Init => TypeOK /\ RowsInv /\ PendingFits
    <2>1. Init => vault.pending = {}
      BY DEF Init, InitVault
    <2>2. Cardinality({}) = 0 /\ IsFiniteSet({})
      BY FS_EmptySet
    <2>3. Init => PendingFits
      BY <2>1, <2>2, HoldAssumption DEF PendingFits
    <2> QED BY <2>3, HoldTypeInit, RowsInit
  <1>2. TypeOK /\ RowsInv /\ PendingFits /\ [Next]_vars => TypeOK' /\ RowsInv' /\ PendingFits'
    BY HoldTypeStep, RowsStep, PendingFitsStep
  <1>3. ASSUME TypeOK, RowsInv, PendingFits, [Next]_vars
        PROVE  LET e == Newest(ledger') IN
               ledger' # ledger /\ e.kind \in {"PAID", "HELD", "REFUSED"}
                       /\ e.id \in {0, vault.next_withdrawal_id} =>
                   HoldWithdrawalOutlook(ReadAccount, e.destination, e.amount) = Outcome(e)
    BY <1>3, OnlyWithdrawIsForetold, WithdrawAsForetold DEF Foretold
  <1> QED
    BY <1>1, <1>2, <1>3, PTL DEF Spec, PreviewIsWhatHappens

-----------------------------------------------------------------------------
(* Everyday payments stay within the limits                                *)

\* The seconds whose payments a bucket counts.
SecondsOf(s) == {t \in Seconds : SlotOf(t) = s}

\* What the buckets know of the day that ends with the latest release. Whatever was released in
\* a second of it is in the bucket of its hour, and the bucket carries that hour or, after a
\* release on a clock that had stepped back, a later one; a bucket holds at least what was
\* released in its seconds, unless it is saturated.
WindowInv ==
    /\ \A t \in Seconds :
        past.recent[t] # 0 =>
            /\ t <= past.lastOut /\ t > DayBefore(past.lastOut)
            /\ vault.daily_buckets[SlotOf(t)].hour >= Hour(t)
    /\ \A s \in BucketSlots :
        LET bucket == vault.daily_buckets[s] IN
        /\ bucket.amount = U64_MAX \/ Total(past.recent, SecondsOf(s)) <= bucket.amount
        /\ bucket.amount # 0 => bucket.hour % BUCKET_COUNT = s

\* The day a release now is measured against.
Today == {t \in Seconds : t > DayBefore(Latest)}

\* What the proofs need of the types.
LEMMA WindowTypes ==
    ASSUME TypeOK
    PROVE  /\ now \in Nat /\ now \in Seconds /\ Hour(now) \in Int
           /\ SlotOf(now) \in BucketSlots
           /\ past.recent \in [Seconds -> Nat] /\ past.lastOut \in Seconds
           /\ vault.daily_buckets \in Buckets
           /\ \A t \in Seconds : t \in Nat /\ Hour(t) \in Int /\ SlotOf(t) \in BucketSlots
           /\ \A s : IsFiniteSet(SecondsOf(s)) /\ SecondsOf(s) \subseteq Seconds
           /\ \A s \in BucketSlots :
                /\ vault.daily_buckets[s].hour \in Int
                /\ vault.daily_buckets[s].amount \in 0 .. U64_MAX
                /\ vault.daily_buckets[s].amount \in Nat
           /\ U64_MAX \in Nat /\ U64_MAX > 0 /\ WINDOW_HOURS \in Nat /\ WINDOW_SECS \in Nat
  <1>1. now \in Seconds /\ \A t \in Seconds : t \in Nat /\ t \in Int
    BY DEF TypeOK, Seconds
  <1>2. past.recent \in [Seconds -> Nat] /\ past.lastOut \in Seconds /\ vault.daily_buckets \in Buckets
    BY DEF TypeOK, Past, HoldVaultAccount
  <1>3. \A s : IsFiniteSet(SecondsOf(s)) /\ SecondsOf(s) \subseteq Seconds
    BY SlotsFinite, FS_Subset DEF SecondsOf
  <1>4. U64_MAX \in Nat /\ U64_MAX > 0 /\ WINDOW_HOURS \in Nat /\ WINDOW_SECS \in Nat
    BY WindowAssumption, HoldAssumption, WindowPositive
  <1>5. \A s \in BucketSlots :
            /\ vault.daily_buckets[s].hour \in Int
            /\ vault.daily_buckets[s].amount \in 0 .. U64_MAX
            /\ vault.daily_buckets[s].amount \in Nat
    BY <1>2, <1>4 DEF Buckets
  <1> QED
    BY <1>1, <1>2, <1>3, <1>4, <1>5, SlotsFinite

\* Nothing was released today in the seconds of a bucket outside the window.
LEMMA OutsideIsOver ==
    ASSUME TypeOK, WindowInv, NEW s \in BucketSlots, s \notin InWindow(vault.daily_buckets, now),
           NEW t \in SecondsOf(s), past.recent[t] # 0
    PROVE  t \notin Today /\ t < DayBefore(now)
  <1>1. t \in Seconds /\ t \in Nat /\ now \in Nat /\ SlotOf(t) = s /\ WINDOW_SECS \in Nat /\ WINDOW_HOURS \in Nat
        /\ Hour(t) \in Int /\ Hour(now) \in Int
    BY WindowTypes DEF SecondsOf
  <1>2. vault.daily_buckets[s].hour >= Hour(t) /\ vault.daily_buckets[s].hour \in Int
    BY <1>1, WindowTypes DEF WindowInv
  <1>3. vault.daily_buckets[s].hour < Hour(now) - WINDOW_HOURS
    BY <1>1, <1>2 DEF InWindow
  <1>4. Hour(t) < Hour(now) - WINDOW_HOURS
    BY <1>1, <1>2, <1>3
  <1>5. t <= now
    <2> SUFFICES ASSUME now <= t PROVE t = now
      BY <1>1
    <2>1. Hour(now) <= Hour(t)
      BY <1>1, HoursOfADay
    <2> QED BY <1>1, <1>4, <2>1
  <1>6. ~(t >= now - WINDOW_SECS)
    BY <1>1, <1>4, <1>5, HoursOfADay
  <1>7. Latest \in Nat /\ Latest >= now
    BY WindowTypes DEF Latest
  <1> QED
    BY <1>1, <1>6, <1>7 DEF Today, DayBefore

\* Of a vault whose buckets of the window are not saturated, `spent` is at least what was
\* released today.
LEMMA SpentCountsTheDay ==
    ASSUME TypeOK, WindowInv,
           \A s \in InWindow(vault.daily_buckets, now) :
               vault.daily_buckets[s].amount # U64_MAX
    PROVE  DayTotal <= Spent(vault.daily_buckets, now) /\ DayTotal \in Nat
  <1> DEFINE b == vault.daily_buckets
             f == [t \in Seconds |-> IF t \in Today THEN past.recent[t] ELSE 0]
             W == InWindow(b, now)
             p == [t \in Seconds |-> SlotOf(t)]
             g == [s \in BucketSlots |-> IF s \in W THEN b[s].amount ELSE 0]
             h == [s \in W |-> b[s].amount]
  <1>1. /\ \A t \in Seconds : f[t] \in Nat /\ p[t] \in BucketSlots
        /\ \A s \in BucketSlots : g[s] \in Nat
    BY WindowTypes
  <1>2. IsFiniteSet(Seconds) /\ IsFiniteSet(BucketSlots) /\ IsFiniteSet(W) /\ W \subseteq BucketSlots
    BY SlotsFinite DEF InWindow
  <1>3. ASSUME NEW s \in BucketSlots PROVE Total(f, {t \in Seconds : p[t] = s}) <= g[s]
    <2>1. {t \in Seconds : p[t] = s} = SecondsOf(s)
      BY DEF SecondsOf
    <2>2. CASE s \in W
      <3>1. IsFiniteSet(SecondsOf(s)) /\ SecondsOf(s) \subseteq Seconds
        BY WindowTypes
      <3>2. \A t \in SecondsOf(s) : f[t] \in Nat /\ past.recent[t] \in Nat /\ f[t] <= past.recent[t]
        BY <3>1, WindowTypes
      <3>3. /\ Total(f, SecondsOf(s)) <= Total(past.recent, SecondsOf(s))
            /\ Total(f, SecondsOf(s)) \in Nat /\ Total(past.recent, SecondsOf(s)) \in Nat
        <4> HIDE DEF f
        <4> QED BY <3>1, <3>2, TotalMonotone
      <3>4. Total(past.recent, SecondsOf(s)) <= b[s].amount
        BY <2>2 DEF WindowInv
      <3>5. b[s].amount \in Nat
        BY WindowTypes
      <3>6. g[s] = b[s].amount
        BY <2>2
      <3> HIDE DEF f, g, b
      <3>7. Total(f, SecondsOf(s)) <= g[s]
        BY <3>3, <3>4, <3>5, <3>6
      <3> QED BY <2>1, <3>7
    <2>3. CASE s \notin W
      <3>1. \A t \in SecondsOf(s) : f[t] = 0
        <4> SUFFICES ASSUME NEW t \in SecondsOf(s) PROVE f[t] = 0
          OBVIOUS
        <4>1. t \in Seconds
          BY DEF SecondsOf
        <4>2. CASE past.recent[t] = 0
          BY <4>1, <4>2
        <4>3. CASE past.recent[t] # 0
          BY <2>3, <4>1, <4>3, OutsideIsOver
        <4> QED BY <4>2, <4>3
      <3>2. IsFiniteSet(SecondsOf(s)) /\ {} \subseteq SecondsOf(s)
        BY WindowTypes
      <3>3. \A t \in SecondsOf(s) : f[t] \in Int
        BY <3>1
      <3>4. Total(f, {}) = Total(f, SecondsOf(s))
        <4> HIDE DEF f
        <4> QED BY <3>1, <3>2, <3>3, TotalZeros
      <3>5. Total(f, SecondsOf(s)) = 0
        BY <3>4, TotalEmpty
      <3>6. g[s] = 0
        BY <2>3
      <3> HIDE DEF f, p, g
      <3> QED BY <2>1, <3>5, <3>6
    <2> QED BY <2>2, <2>3
  <1>4. Total(f, Seconds) <= Total(g, BucketSlots)
    <2> HIDE DEF f, p, g
    <2> QED BY <1>1, <1>2, <1>3, TotalGrouped
  <1>5. Total(g, W) = Total(g, BucketSlots)
    <2>1. \A s \in BucketSlots \ W : g[s] = 0
      OBVIOUS
    <2>2. \A s \in BucketSlots : g[s] \in Int
      <3> HIDE DEF g
      <3> QED BY <1>1
    <2> HIDE DEF g, W
    <2> QED BY <1>2, <2>1, <2>2, TotalZeros
  <1>6. Total(h, W) = Total(g, W)
    <2>1. \A s \in W : h[s] = g[s]
      BY <1>2
    <2> HIDE DEF g, h, W
    <2> QED BY <1>2, <2>1, TotalSame
  <1>7. Spent(b, now) = Total(h, W)
    BY SpentIsTotal, WindowTypes
  <1>8. DayTotal = Total(f, Seconds)
    <2>1. DayTotal = Total(past.recent, Today)
      BY DEF DayTotal, Total, Today
    <2>2. Today \subseteq Seconds /\ IsFiniteSet(Today)
      BY <1>2, FS_Subset DEF Today
    <2>3. \A t \in Today : past.recent[t] = f[t]
      BY <2>2
    <2>4. Total(past.recent, Today) = Total(f, Today)
      <3> HIDE DEF f
      <3> QED BY <2>2, <2>3, TotalSame
    <2>5. \A t \in Seconds : f[t] \in Int
      <3> HIDE DEF f
      <3> QED BY <1>1
    <2>6. \A t \in Seconds \ Today : f[t] = 0
      OBVIOUS
    <2>7. Total(f, Today) = Total(f, Seconds)
      <3> HIDE DEF f
      <3> QED BY <1>2, <2>2, <2>5, <2>6, TotalZeros
    <2> QED BY <2>1, <2>4, <2>7
  <1>9. Total(f, Seconds) \in Nat
    <2> HIDE DEF f
    <2> QED BY <1>1, <1>2, TotalNat
  <1> HIDE DEF f, g, h, W
  <1> QED
    BY <1>4, <1>5, <1>6, <1>7, <1>8, <1>9

\* What a release makes of the history.
LEMMA ReleasedRecent ==
    ASSUME TypeOK, NEW amount \in Nat
    PROVE  LET q == Released(past, amount) IN
           /\ q.lastOut = Latest /\ Latest \in Seconds /\ Latest >= now /\ Latest >= past.lastOut
           /\ q.recent \in [Seconds -> Nat]
           /\ \A t \in Seconds :
                q.recent[t] = IF t <= DayBefore(Latest) THEN 0
                              ELSE past.recent[t] + IF t = now THEN amount ELSE 0
  <1>1. PICK recent, q :
            /\ recent = [t \in Seconds |-> IF t <= DayBefore(Latest) THEN 0
                                            ELSE past.recent[t] + IF t = now THEN amount ELSE 0]
            /\ q = Released(past, amount)
    OBVIOUS
  <1>2. q = [past EXCEPT !.lastOut = Latest, !.recent = recent]
    BY <1>1 DEF Released, Latest
  <1>3. past \in Past /\ q.lastOut = Latest /\ q.recent = recent
    BY <1>2 DEF TypeOK, Past
  <1>4. Latest \in Seconds /\ Latest >= now /\ Latest >= past.lastOut
    BY WindowTypes DEF Latest
  <1>5. \A t \in Seconds : past.recent[t] \in Nat
    BY WindowTypes
  <1> QED
    BY <1>1, <1>3, <1>4, <1>5

\* A release goes to the bucket of its hour, which is started afresh only when nothing of the
\* day is in it (record_release).
LEMMA ReleaseKeepsWindow ==
    ASSUME TypeOK, WindowInv, NEW amount \in Nat, NEW q, q = Released(past, amount),
           vault'.daily_buckets = RecordRelease(vault.daily_buckets, amount, now),
           past'.recent = q.recent, past'.lastOut = q.lastOut
    PROVE  WindowInv'
  <1> DEFINE b == vault.daily_buckets
             c == vault'.daily_buckets
             f == past.recent
             g == past'.recent
             z == SlotOf(now)
             old == b[z]
             resets == ReleaseResets(old, Hour(now))
             last == past'.lastOut
  <1>1. /\ f \in [Seconds -> Nat] /\ g \in [Seconds -> Nat]
        /\ now \in Seconds /\ now \in Nat
        /\ last \in Seconds /\ last \in Nat /\ last >= now /\ last >= past.lastOut
        /\ \A t \in Seconds :
              g[t] = IF t <= DayBefore(last) THEN 0 ELSE f[t] + IF t = now THEN amount ELSE 0
    BY WindowTypes, ReleasedRecent
  <1>2. /\ z \in BucketSlots /\ Hour(now) \in Int
        /\ old.hour \in Int /\ old.amount \in 0 .. U64_MAX /\ old.amount \in Nat
        /\ U64_MAX \in Nat /\ U64_MAX > 0 /\ WINDOW_HOURS \in Nat /\ WINDOW_SECS \in Nat
    BY WindowTypes
  <1>3. ASSUME resets, NEW t \in SecondsOf(z), f[t] # 0 PROVE t < DayBefore(now)
    <2>1. CASE old.amount = 0
      <3>1. Total(f, SecondsOf(z)) <= 0
        BY <1>2, <2>1 DEF WindowInv
      <3>2. IsFiniteSet(SecondsOf(z)) /\ SecondsOf(z) \subseteq Seconds
        BY WindowTypes
      <3>3. \A u \in SecondsOf(z) : f[u] \in Nat
        BY <1>1, <3>2
      <3>4. f[t] <= Total(f, SecondsOf(z)) /\ Total(f, SecondsOf(z)) \in Nat /\ f[t] \in Nat
        <4> HIDE DEF f, z
        <4> QED BY <1>3, <3>2, <3>3, TotalNat
      <3> HIDE DEF f, z
      <3> QED BY <1>3, <3>1, <3>4
    <2>2. CASE old.amount # 0
      <3>1. z \notin InWindow(b, now)
        BY <1>2, <1>3, <2>2 DEF ReleaseResets, InWindow
      <3> QED BY <1>2, <1>3, <3>1, OutsideIsOver
    <2> QED BY <2>1, <2>2
  <1>4. ASSUME ~resets PROVE old.hour >= Hour(now)
    <2>1. old.amount # 0 /\ old.hour >= Hour(now) - WINDOW_HOURS
      BY <1>2, <1>4 DEF ReleaseResets
    <2>2. old.hour % BUCKET_COUNT = z
      BY <1>2, <2>1 DEF WindowInv
    <2>3. z = Hour(now) % BUCKET_COUNT
      BY DEF SlotOf
    <2>4. CASE old.hour <= Hour(now)
      BY <1>2, <2>1, <2>2, <2>3, <2>4, SameSlotSameHour
    <2> QED BY <1>2, <2>4
  <1>5. /\ c[z].hour = (IF resets THEN Hour(now) ELSE old.hour)
        /\ c[z].amount = SatAdd(IF resets THEN 0 ELSE old.amount, amount)
        /\ \A s \in BucketSlots : s # z => c[s] = b[s]
    <2> DEFINE base == IF resets THEN [hour |-> Hour(now), amount |-> 0] ELSE old
    <2>1. b \in Buckets
      BY WindowTypes
    <2>2. c = [b EXCEPT ![z] = [base EXCEPT !.amount = SatAdd(@, amount)]]
      BY DEF RecordRelease
    <2>3. /\ base.hour = IF resets THEN Hour(now) ELSE old.hour
          /\ base.amount = IF resets THEN 0 ELSE old.amount
      OBVIOUS
    <2>4. base \in [hour : Int, amount : 0 .. U64_MAX]
      BY <1>2, <2>1 DEF Buckets
    <2> HIDE DEF base, resets, z, c
    <2>5. c[z] = [base EXCEPT !.amount = SatAdd(@, amount)]
      BY <1>2, <2>1, <2>2 DEF Buckets
    <2>6. \A s \in BucketSlots : s # z => c[s] = b[s]
      BY <2>1, <2>2 DEF Buckets
    <2> QED BY <2>3, <2>4, <2>5, <2>6
  <1>6. c[z].hour >= Hour(now) /\ c[z].hour \in Int
    <2> HIDE DEF c, resets
    <2> QED BY <1>2, <1>4, <1>5
  <1>7. ASSUME NEW t \in Seconds, g[t] # 0
        PROVE  t <= last /\ t > DayBefore(last) /\ c[SlotOf(t)].hour >= Hour(t)
    <2>1. t \in Nat /\ SlotOf(t) \in BucketSlots /\ Hour(t) \in Int /\ f[t] \in Nat
      BY <1>1, WindowTypes
    <2>2. t > DayBefore(last)
      BY <1>1, <1>2, <1>7, <2>1 DEF DayBefore
    <2>3. CASE t = now
      BY <1>1, <1>6, <2>2, <2>3
    <2>4. CASE t # now
      <3>1. f[t] # 0
        BY <1>1, <1>7, <2>1, <2>4
      <3>2. t <= past.lastOut /\ b[SlotOf(t)].hour >= Hour(t)
        BY <3>1 DEF WindowInv
      <3>3. t <= last
        <4>1. past.lastOut \in Nat
          BY WindowTypes
        <4> HIDE DEF last, f, g
        <4> QED BY <1>1, <2>1, <3>2, <4>1
      <3>4. CASE SlotOf(t) = z
        <4>1. ~resets
          <5> SUFFICES ASSUME resets PROVE FALSE
            OBVIOUS
          <5>1. t < DayBefore(now)
            BY <1>3, <3>1, <3>4 DEF SecondsOf
          <5> QED BY <1>1, <1>2, <2>1, <2>2, <5>1 DEF DayBefore
        <4> QED BY <1>5, <2>2, <3>2, <3>3, <3>4, <4>1
      <3>5. CASE SlotOf(t) # z
        BY <1>5, <2>1, <2>2, <3>2, <3>3, <3>5
      <3> QED BY <3>4, <3>5
    <2> QED BY <2>3, <2>4
  <1>8. ASSUME NEW s \in BucketSlots
        PROVE  /\ c[s].amount = U64_MAX \/ Total(g, SecondsOf(s)) <= c[s].amount
               /\ c[s].amount # 0 => c[s].hour % BUCKET_COUNT = s
    <2>1. IsFiniteSet(SecondsOf(s)) /\ SecondsOf(s) \subseteq Seconds
      BY WindowTypes
    <2>2. \A t \in SecondsOf(s) : f[t] \in Nat /\ g[t] \in Nat
      <3>1. \A t \in Seconds : f[t] \in Nat /\ g[t] \in Nat
        <4> HIDE DEF f, g
        <4> QED BY <1>1
      <3> QED BY <2>1, <3>1
    <2>3. CASE s # z
      <3>1. \A t \in SecondsOf(s) : g[t] <= f[t]
        <4> SUFFICES ASSUME NEW t \in SecondsOf(s) PROVE g[t] <= f[t]
          OBVIOUS
        <4>1. t \in Seconds /\ t # now
          BY <2>1, <2>3 DEF SecondsOf
        <4> HIDE DEF f, g, last
        <4> QED BY <1>1, <2>2, <4>1
      <3>2. /\ Total(g, SecondsOf(s)) <= Total(f, SecondsOf(s))
            /\ Total(g, SecondsOf(s)) \in Nat /\ Total(f, SecondsOf(s)) \in Nat
        <4> HIDE DEF f, g
        <4> QED BY <2>1, <2>2, <3>1, TotalMonotone
      <3>3. /\ b[s].amount = U64_MAX \/ Total(f, SecondsOf(s)) <= b[s].amount
            /\ b[s].amount # 0 => b[s].hour % BUCKET_COUNT = s
            /\ b[s].amount \in Nat
        BY WindowTypes DEF WindowInv
      <3>4. c[s] = b[s]
        BY <1>5, <2>3
      <3> HIDE DEF b, c, f, g
      <3> QED BY <3>2, <3>3, <3>4
    <2>4. CASE s = z
      <3> DEFINE k == [t \in Seconds |-> IF resets THEN 0 ELSE f[t]]
                 h == [t \in Seconds |-> k[t] + IF t = now THEN amount ELSE 0]
                 sum == Total(k, SecondsOf(s))
                 was == IF resets THEN 0 ELSE old.amount
      <3>1. /\ \A t \in Seconds : k[t] \in Nat /\ h[t] \in Nat
            /\ h[now] = k[now] + amount /\ \A t \in Seconds : t # now => k[t] = h[t]
        <4>1. \A t \in Seconds : k[t] \in Nat
          BY <1>1
        <4> HIDE DEF k
        <4>2. \A t \in Seconds : h[t] = k[t] + IF t = now THEN amount ELSE 0
          OBVIOUS
        <4>3. now \in Seconds
          BY <1>1
        <4> HIDE DEF h
        <4>4. \A t \in Seconds : h[t] \in Nat
          BY <4>1, <4>2
        <4>5. h[now] = k[now] + amount
          BY <4>2, <4>3
        <4>6. \A t \in Seconds : t # now => k[t] = h[t]
          BY <4>1, <4>2
        <4> QED BY <4>1, <4>4, <4>5, <4>6
      <3>2. \A t \in SecondsOf(s) : g[t] <= h[t]
        <4> SUFFICES ASSUME NEW t \in SecondsOf(s) PROVE g[t] <= h[t]
          OBVIOUS
        <4>1. t \in Seconds /\ t \in Nat /\ f[t] \in Nat /\ g[t] \in Nat
          BY <2>1, <2>2, WindowTypes
        <4>2. CASE resets /\ f[t] # 0
          <5>1. t < DayBefore(now)
            BY <1>3, <2>4, <4>2
          <5>2. g[t] = 0
            BY <1>1, <1>2, <4>1, <5>1 DEF DayBefore
          <5> QED
            <6> HIDE DEF h, g
            <6> QED BY <3>1, <4>1, <5>2
        <4>3. CASE ~resets \/ f[t] = 0
          <5>1. k[t] = f[t]
            BY <4>1, <4>3
          <5>2. h[t] = f[t] + IF t = now THEN amount ELSE 0
            BY <4>1, <5>1
          <5> HIDE DEF f, g, h, k, last
          <5> QED BY <1>1, <4>1, <5>2
        <4> QED BY <4>2, <4>3
      <3>3. /\ Total(g, SecondsOf(s)) <= Total(h, SecondsOf(s))
            /\ Total(g, SecondsOf(s)) \in Nat /\ Total(h, SecondsOf(s)) \in Nat
        <4>1. \A t \in SecondsOf(s) : g[t] \in Nat /\ h[t] \in Nat
          <5> HIDE DEF f, g, h, k
          <5> QED BY <2>1, <2>2, <3>1
        <4> HIDE DEF f, g, h, k
        <4> QED BY <2>1, <3>2, <4>1, TotalMonotone
      <3>4. Total(h, SecondsOf(s)) = sum + amount /\ sum \in Nat
        <4>1. now \in SecondsOf(s)
          BY <1>1, <2>4 DEF SecondsOf
        <4>2. /\ \A t \in SecondsOf(s) : k[t] \in Nat /\ h[t] \in Nat /\ k[t] \in Int /\ h[t] \in Int
              /\ \A t \in SecondsOf(s) : t # now => k[t] = h[t]
              /\ h[now] = k[now] + amount /\ k[now] \in Nat
          <5>1. now \in Seconds
            BY <1>1
          <5> HIDE DEF k, h
          <5> QED BY <2>1, <3>1, <5>1
        <4> HIDE DEF k, h
        <4>3. Total(h, SecondsOf(s)) = sum - k[now] + h[now]
          BY <2>1, <4>1, <4>2, TotalChanged
        <4>4. sum \in Nat
          BY <2>1, <4>2, TotalNat
        <4> HIDE DEF sum
        <4> QED BY <4>2, <4>3, <4>4
      <3>5. was \in 0 .. U64_MAX /\ (was = U64_MAX \/ sum <= was)
        <4>1. CASE resets
          <5>1. \A t \in SecondsOf(s) : k[t] = 0 /\ k[t] \in Int
            BY <2>1, <4>1
          <5>2. {} \subseteq SecondsOf(s)
            OBVIOUS
          <5>3. Total(k, {}) = Total(k, SecondsOf(s))
            <6> HIDE DEF k
            <6> QED BY <2>1, <5>1, <5>2, TotalZeros
          <5> QED BY <1>2, <4>1, <5>3, TotalEmpty
        <4>2. CASE ~resets
          <5>1. \A t \in SecondsOf(s) : k[t] = f[t]
            BY <2>1, <4>2
          <5>2. sum = Total(f, SecondsOf(s))
            <6> HIDE DEF k, f
            <6> QED BY <2>1, <5>1, TotalSame
          <5> QED BY <1>2, <2>4, <4>2, <5>2 DEF WindowInv
        <4> QED BY <4>1, <4>2
      <3>6. c[s].amount = SatAdd(was, amount) /\ c[s].hour % BUCKET_COUNT = s
        <4>1. c[s].amount = SatAdd(was, amount)
          BY <1>5, <2>4
        <4>2. CASE resets
          BY <1>5, <2>4, <4>2 DEF SlotOf
        <4>3. CASE ~resets
          <5>1. old.amount # 0
            BY <4>3 DEF ReleaseResets
          <5>2. old.hour % BUCKET_COUNT = z
            BY <1>2, <5>1 DEF WindowInv
          <5> QED BY <1>5, <2>4, <4>3, <5>2
        <4> QED BY <4>1, <4>2, <4>3
      <3> HIDE DEF sum, was, c, g, h, k, f
      <3>7. c[s].amount = U64_MAX \/ sum + amount <= c[s].amount
        BY <1>2, <3>4, <3>5, <3>6 DEF SatAdd
      <3>8. c[s].amount \in Nat
        BY <1>2, <3>5, <3>6 DEF SatAdd
      <3> QED BY <3>3, <3>4, <3>6, <3>7, <3>8
    <2> QED BY <2>3, <2>4
  <1> HIDE DEF c, g, last
  <1>9. /\ \A t \in Seconds :
            g[t] # 0 => t <= last /\ t > DayBefore(last) /\ c[SlotOf(t)].hour >= Hour(t)
        /\ \A s \in BucketSlots :
            /\ c[s].amount = U64_MAX \/ Total(g, SecondsOf(s)) <= c[s].amount
            /\ c[s].amount # 0 => c[s].hour % BUCKET_COUNT = s
    BY <1>7, <1>8
  <1> QED
    BY <1>9 DEF WindowInv, c, g, last, SecondsOf, DayBefore

\* Only a payment touches the buckets or what was released.
LEMMA WindowFrame ==
    ASSUME TypeOK, [Next]_vars,
           \A destination \in Destinations, amount \in Amounts :
               ~WithdrawPaid(destination, amount),
           \A row \in vault.pending : ~Execute(row) /\ ~Skip(row)
    PROVE  /\ vault'.daily_buckets = vault.daily_buckets
           /\ past'.recent = past.recent /\ past'.lastOut = past.lastOut
  <1> DEFINE Same == /\ vault'.daily_buckets = vault.daily_buckets
                     /\ past'.recent = past.recent /\ past'.lastOut = past.lastOut
  <1> USE DEF TypeOK, HoldVaultAccount, Past
  <1>1. ASSUME NEW amount \in Amounts, Deposit(amount) \/ Send(amount) PROVE Same
    BY <1>1 DEF Deposit, Send
  <1>2. ASSUME NEW destination \in Destinations, NEW amount \in Amounts,
               Withdraw(destination, amount)
        PROVE  Same
    <2>1. CASE WithdrawUncovered(destination, amount) \/ WithdrawFull(destination, amount)
      BY <2>1 DEF WithdrawUncovered, WithdrawFull
    <2>2. CASE WithdrawHeld(destination, amount)
      BY <2>2 DEF WithdrawHeld
    <2> QED BY <1>2, <2>1, <2>2 DEF Withdraw
  <1>3. ASSUME NEW row \in vault.pending, Stop(row) PROVE Same
    BY <1>3 DEF Stop
  <1>4. ASSUME NEW authority \in Keys, Freeze(authority) PROVE Same
    BY <1>4 DEF Freeze
  <1>5. CASE Unfreeze
    BY <1>5 DEF Unfreeze, UnfreezeByBoth, ArmUnfreeze, UnfreezeAlone, FinishUnfreeze, Thawed
  <1>6. ASSUME NEW destination \in Destinations, Recover(destination) PROVE Same
    BY <1>6 DEF Recover
  <1>7. ASSUME NEW values \in Rules, ProposeChange(values) PROVE Same
    BY <1>7 DEF ProposeChange
  <1>8. CASE ApplyChange
    BY <1>8 DEF ApplyChange
  <1>9. CASE CancelChange
    BY <1>9 DEF CancelChange
  <1>10. CASE UNCHANGED vars
    BY <1>10 DEF vars
  <1>11. CASE Tick \/ Rewind
    BY <1>11 DEF Tick, Rewind
  <1> HIDE DEF TypeOK, HoldVaultAccount, Past
  <1> QED
    BY <1>1, <1>2, <1>3, <1>4, <1>5, <1>6, <1>7, <1>8, <1>9, <1>10, <1>11 DEF Next

\* Every step keeps the buckets a bound on the last day.
LEMMA WindowStep == TypeOK /\ WindowInv /\ [Next]_vars => WindowInv'
  <1> SUFFICES ASSUME TypeOK, WindowInv, [Next]_vars PROVE WindowInv'
    OBVIOUS
  <1>1. ASSUME NEW destination \in Destinations, NEW amount \in Amounts,
               WithdrawPaid(destination, amount)
        PROVE  WindowInv'
    <2>1. PICK q : q = Released(past, amount)
      OBVIOUS
    <2>2. /\ amount \in Nat /\ past' = q
          /\ vault'.daily_buckets = RecordRelease(vault.daily_buckets, amount, now)
      BY <1>1, <2>1, HoldAssumption DEF WithdrawPaid, TypeOK, HoldVaultAccount
    <2> QED BY <2>1, <2>2, ReleaseKeepsWindow
  <1>2. ASSUME NEW row \in vault.pending, Execute(row) \/ Skip(row) PROVE WindowInv'
    <2>1. \E kind \in Kinds : PayRow(row, kind)
      BY <1>2 DEF Execute, Skip, Kinds
    <2>2. row.amount \in Nat
      BY DEF TypeOK, HoldVaultAccount, PendingWithdrawal
    <2>3. PICK q : q = Released(past, row.amount)
      OBVIOUS
    <2>4. q \in Past
      BY <2>2, <2>3, ReleasedType DEF TypeOK
    <2>5. past' = [q EXCEPT !.held[row.id] = NoOrigin, !.settled = @ \union {row.id},
                           !.paidTo = @ \union {row.destination}]
      BY <2>1, <2>3 DEF PayRow
    <2>6. past'.recent = q.recent /\ past'.lastOut = q.lastOut
      BY <2>4, <2>5 DEF Past
    <2>7. vault'.daily_buckets = RecordRelease(vault.daily_buckets, row.amount, now)
      BY <2>1 DEF PayRow, TypeOK, HoldVaultAccount
    <2> QED BY <2>2, <2>3, <2>6, <2>7, ReleaseKeepsWindow
  <1>3. CASE /\ \A destination \in Destinations, amount \in Amounts :
                    ~WithdrawPaid(destination, amount)
             /\ \A row \in vault.pending : ~Execute(row) /\ ~Skip(row)
    BY <1>3, WindowFrame DEF WindowInv, SecondsOf
  <1> QED
    BY <1>1, <1>2, <1>3

\* A vault opens with nothing released and nothing counted.
LEMMA WindowInit == Init => WindowInv
  <1> SUFFICES ASSUME Init PROVE WindowInv
    OBVIOUS
  <1>1. vault.daily_buckets = NoBuckets /\ past.recent = [t \in Seconds |-> 0]
    BY DEF Init, InitVault
  <1>2. ASSUME NEW s \in BucketSlots
        PROVE  NoBuckets[s].amount = 0 /\ Total(past.recent, SecondsOf(s)) <= 0
    <2>1. IsFiniteSet(SecondsOf(s)) /\ {} \subseteq SecondsOf(s)
      BY SlotsFinite, FS_Subset DEF SecondsOf
    <2>2. \A t \in SecondsOf(s) : past.recent[t] = 0
      BY <1>1 DEF SecondsOf
    <2>3. Total(past.recent, {}) = Total(past.recent, SecondsOf(s))
      BY <2>1, <2>2, TotalZeros
    <2>4. Total(past.recent, SecondsOf(s)) = 0
      BY <2>3, TotalEmpty
    <2> QED BY <2>4 DEF NoBuckets
  <1> QED
    BY <1>1, <1>2 DEF WindowInv

\* The share, rounded down in two parts, is at most the share.
LEMMA ShareCapBound ==
    ASSUME NEW amount \in Nat, NEW bps \in Nat
    PROVE  /\ ShareCap(amount, bps) \in Int
           /\ ShareCap(amount, bps) * HOLD_BPS_DENOMINATOR <= amount * bps
  <1> DEFINE d == HOLD_BPS_DENOMINATOR
             w == amount \div d
             r == amount % d
             q == (r * bps) \div d
  <1>1. d \in Nat /\ d > 0
    BY HoldAssumption
  <1>2. w \in Int /\ r \in Int /\ amount = d * w + r
    BY <1>1
  <1>3. ShareCap(amount, bps) = w * bps + q
    BY DEF ShareCap
  <1> HIDE DEF w, r
  <1>4. r * bps \in Int /\ w * bps \in Int
    BY <1>2
  <1>5. q \in Int /\ d * q <= r * bps
    <2> DEFINE x == r * bps
    <2>1. x \in Int
      BY <1>4
    <2> HIDE DEF x
    <2>2. x \div d \in Int /\ x = d * (x \div d) + (x % d) /\ x % d >= 0 /\ x % d \in Int
      BY <1>1, <2>1
    <2>3. d * (x \div d) \in Int
      BY <1>1, <2>2
    <2>4. d * (x \div d) <= x
      BY <2>1, <2>2, <2>3
    <2> QED BY <2>2, <2>4 DEF x
  <1> HIDE DEF q, d
  <1>6. (w * bps + q) * d = d * (w * bps) + d * q
    BY <1>1, <1>4, <1>5
  <1>7. amount * bps = d * (w * bps) + r * bps
    BY <1>1, <1>2
  <1>8. d * (w * bps) \in Int /\ d * q \in Int
    BY <1>1, <1>4, <1>5
  <1>9. (w * bps + q) * d <= amount * bps
    BY <1>4, <1>5, <1>6, <1>7, <1>8
  <1> QED
    BY <1>3, <1>4, <1>5, <1>9 DEF d

\* A fall of the balance that the record calls a payment of no row is an everyday payment.
LEMMA EverydayIsWithdrawPaid ==
    ASSUME TypeOK, [Next]_vars, balance' < balance,
           Newest(ledger').id = 0, Newest(ledger').kind = "PAID"
    PROVE  \E destination \in Destinations, amount \in Amounts :
               Withdraw(destination, amount) /\ WithdrawPaid(destination, amount)
  <1>1. balance \in Nat /\ balance' \in Nat
    BY HoldTypeStep DEF TypeOK
  <1>2. ASSUME balance' = balance PROVE FALSE
    BY <1>1, <1>2
  <1>3. ASSUME NEW amount \in Amounts, Deposit(amount) \/ Send(amount) PROVE FALSE
    BY <1>1, <1>3, HoldAssumption DEF Deposit, Send
  <1>4. ASSUME NEW destination \in Destinations, NEW amount \in Amounts,
               Withdraw(destination, amount)
        PROVE  WithdrawPaid(destination, amount)
    BY <1>2, <1>4 DEF Withdraw, WithdrawUncovered, WithdrawHeld, WithdrawFull
  <1>5. ASSUME NEW row \in vault.pending, Execute(row) \/ Skip(row) PROVE FALSE
    <2>1. PICK kind : PayRow(row, kind)
      BY <1>5 DEF Execute, Skip
    <2>2. Newest(ledger').id = row.id
      BY <2>1, WritesNewest DEF PayRow, MkEntry
    <2>3. row.id # 0
      BY DEF TypeOK, HoldVaultAccount, PendingWithdrawal, Ids
    <2> QED BY <2>2, <2>3
  <1>6. ASSUME NEW destination \in Destinations, Recover(destination) PROVE FALSE
    <2>1. Newest(ledger').kind = "RECOVERED"
      BY <1>6, WritesNewest DEF Recover, MkEntry
    <2> QED BY <2>1
  <1>7. ASSUME NEW row \in vault.pending, Stop(row) PROVE balance' = balance
    BY <1>7 DEF Stop
  <1>8. ASSUME NEW authority \in Keys, Freeze(authority) PROVE balance' = balance
    BY <1>8 DEF Freeze
  <1>9. ASSUME NEW values \in Rules, ProposeChange(values) PROVE balance' = balance
    BY <1>9 DEF ProposeChange
  <1>10. Unfreeze \/ ApplyChange \/ CancelChange \/ Tick \/ Rewind \/ UNCHANGED vars => balance' = balance
    BY DEF Unfreeze, UnfreezeByBoth, ArmUnfreeze, UnfreezeAlone, FinishUnfreeze, ApplyChange,
           CancelChange, Tick, Rewind, vars
  <1> QED
    BY <1>2, <1>3, <1>4, <1>5, <1>6, <1>7, <1>8, <1>9, <1>10 DEF Next

\* The step of EverydayWithinLimits.
LEMMA EverydayStep ==
    ASSUME TypeOK, WindowInv, NEW destination \in Destinations, NEW amount \in Amounts,
           Withdraw(destination, amount), WithdrawPaid(destination, amount)
    PROVE  LET total == DayTotal + Newest(ledger').amount IN
           /\ total <= vault.rules.daily_limit
           /\ total * HOLD_BPS_DENOMINATOR <= balance * vault.rules.big_share_bps
  <1> DEFINE spent == Spent(vault.daily_buckets, now)
             cap == ShareCap(balance, vault.rules.big_share_bps)
             day == DayTotal + amount
  <1>1. amount \in Nat /\ amount > 0
    BY HoldAssumption DEF Withdraw
  <1>2. spent \in Nat /\ \A s \in InWindow(vault.daily_buckets, now) :
                            vault.daily_buckets[s].amount <= spent
    BY SpentIsTotal, WindowTypes
  <1>3. spent + amount <= U64_MAX /\ spent + amount <= vault.rules.daily_limit
        /\ spent + amount <= cap
    BY DEF WithdrawPaid, CanPayNow
  <1>4. \A s \in InWindow(vault.daily_buckets, now) : vault.daily_buckets[s].amount # U64_MAX
    <2> HIDE DEF spent
    <2> QED BY <1>1, <1>2, <1>3, WindowAssumption
  <1>5. DayTotal <= spent /\ DayTotal \in Nat
    BY <1>4, SpentCountsTheDay
  <1>6. Newest(ledger').amount = amount
    BY WritesNewest DEF WithdrawPaid, MkEntry
  <1>7. /\ vault.rules.daily_limit \in Int /\ vault.rules.big_share_bps \in Nat
        /\ balance \in Nat /\ HOLD_BPS_DENOMINATOR \in Nat
    BY WindowAssumption, HoldAssumption DEF TypeOK, HoldVaultAccount, HoldChange
  <1>8. /\ cap \in Int
        /\ cap * HOLD_BPS_DENOMINATOR <= balance * vault.rules.big_share_bps
    BY <1>7, ShareCapBound
  <1>9. PICK d : d = day
    OBVIOUS
  <1> HIDE DEF spent, cap
  <1>10. d \in Nat /\ d <= vault.rules.daily_limit /\ d <= cap
    BY <1>1, <1>2, <1>3, <1>5, <1>7, <1>8, <1>9
  <1>11. d * HOLD_BPS_DENOMINATOR <= cap * HOLD_BPS_DENOMINATOR
    BY <1>7, <1>8, <1>10
  <1>12. /\ d * HOLD_BPS_DENOMINATOR \in Int /\ cap * HOLD_BPS_DENOMINATOR \in Int
         /\ balance * vault.rules.big_share_bps \in Int
    BY <1>7, <1>8, <1>10
  <1>13. d * HOLD_BPS_DENOMINATOR <= balance * vault.rules.big_share_bps
    BY <1>8, <1>11, <1>12
  <1> QED
    BY <1>6, <1>9, <1>10, <1>13

\* Whatever the rules were changed to, however payments at once, delayed payments and
\* payments signed by both keys follow each other over the hours, and however often the
\* chain's clock steps back, an everyday payment keeps everything released in the day that
\* ends now, or with the latest release where the clock is behind it, within the daily limit
\* and within its share of the balance (can_pay_now, share_cap, record_release, spent).
THEOREM EverydayStaysWithinLimits == Spec => EverydayWithinLimits
  <1>1. Init => TypeOK /\ WindowInv
    BY HoldTypeInit, WindowInit
  <1>2. TypeOK /\ WindowInv /\ [Next]_vars => TypeOK' /\ WindowInv'
    BY HoldTypeStep, WindowStep
  <1>3. ASSUME TypeOK, WindowInv, [Next]_vars
        PROVE  balance' < balance /\ Newest(ledger').id = 0 /\ Newest(ledger').kind = "PAID" =>
                   LET total == DayTotal + Newest(ledger').amount IN
                   /\ total <= vault.rules.daily_limit
                   /\ total * HOLD_BPS_DENOMINATOR <= balance * vault.rules.big_share_bps
    BY <1>3, EverydayIsWithdrawPaid, EverydayStep
  <1> QED
    BY <1>1, <1>2, <1>3, PTL DEF Spec, EverydayWithinLimits

=============================================================================
