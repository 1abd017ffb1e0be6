----------------------------- MODULE LedgerRing -----------------------------
(***************************************************************************)
(* The decision ledger kept beside every mandate, vault and trade rule: a  *)
(* ring of the most recent entries (programs/veto/src/state.rs, and the    *)
(* same code again in hold_state.rs and trade_state.rs), written by the    *)
(* program and decoded off chain by the indexer, the watcher and the SDK.  *)
(***************************************************************************)
EXTENDS Integers, Sequences

CONSTANTS
    LEDGER_CAPACITY,   \* entries the ring holds (32 in the program)
    U32_MAX            \* where the u32 counters saturate

ASSUME RingAssumption ==
    /\ LEDGER_CAPACITY \in Nat \ {0}
    /\ U32_MAX \in Nat
    /\ LEDGER_CAPACITY <= U32_MAX

\* What an entry slot holds before anything is written to it (load_init zeroes it).
EmptySlot == [kind |-> "EMPTY"]

Slots == 0 .. LEDGER_CAPACITY - 1

\* A ring over the entries E.
Ring(E) == [head : Slots, total : 0 .. U32_MAX, entries : [Slots -> E \union {EmptySlot}]]

EmptyRing == [head |-> 0, total |-> 0, entries |-> [s \in Slots |-> EmptySlot]]

\* u32::saturating_add(1)
SatInc(c) == IF c < U32_MAX THEN c + 1 ELSE c

\* Mutant: the slot is taken from the saturating total instead of head.
MutSlotFromTotal(ring, entry) ==
    LET slot == ring.total % LEDGER_CAPACITY IN
    [head    |-> (slot + 1) % LEDGER_CAPACITY,
     total   |-> SatInc(ring.total),
     entries |-> [ring.entries EXCEPT ![slot] = entry]]

\* Ledger::record
Record(ring, entry) ==
    LET slot == ring.head % LEDGER_CAPACITY IN
    [head    |-> (slot + 1) % LEDGER_CAPACITY,
     total   |-> SatInc(ring.total),
     entries |-> [ring.entries EXCEPT ![slot] = entry]]

-----------------------------------------------------------------------------
(* The off-chain reader.                                                   *)

Occupied(ring) == IF ring.total < LEDGER_CAPACITY THEN ring.total ELSE LEDGER_CAPACITY

\* The slot of the oldest entry still held.
Start(ring) == IF ring.total >= LEDGER_CAPACITY THEN ring.head % LEDGER_CAPACITY ELSE 0

\* decodeLedgerAccount: the entries still held, oldest first.
Decode(ring) ==
    [i \in 1 .. Occupied(ring) |-> ring.entries[(Start(ring) + i - 1) % LEDGER_CAPACITY]]

=============================================================================
