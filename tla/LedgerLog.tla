------------------------------ MODULE LedgerLog ------------------------------
(***************************************************************************)
(* The ledger ring against what it is a window of: the whole sequence of   *)
(* decisions. One writer (the program, one transaction at a time) appends; *)
(* any number of readers decode the account between two writes.            *)
(***************************************************************************)
EXTENDS LedgerRing

CONSTANTS
    Entries,    \* the decisions that may be recorded
    MaxLog      \* bound on the length of the log

ASSUME LogAssumption == MaxLog \in Nat /\ EmptySlot \notin Entries

VARIABLES
    ring,   \* the Ledger account
    history  \* every entry ever recorded, oldest first

logVars == <<ring, history>>

\* The ring is a ring and the log a log (state.rs Ledger).
LogTypeOK ==
    /\ ring \in Ring(Entries)
    /\ history \in Seq(Entries)

LogInit ==
    /\ ring = EmptyRing
    /\ history = <<>>

WriteEntry(e) ==
    /\ Len(history) < MaxLog
    /\ ring' = Record(ring, e)
    /\ history' = Append(history, e)

LogNext == \E e \in Entries : WriteEntry(e)

LogSpec == LogInit /\ [][LogNext]_logVars

-----------------------------------------------------------------------------

\* The last n entries of the log, or all of them.
LastEntries(n) == IF Len(history) <= n THEN history ELSE SubSeq(history, Len(history) - n + 1, Len(history))

\* What a reader decodes is exactly the most recent LEDGER_CAPACITY decisions, in the
\* order they were made, at every point of the ring's life: before it is full, at the
\* wrap, after many wraps, and once the u32 `total` has saturated (indexer
\* decodeLedgerAccount against Ledger::record).
ReaderSeesRecentLog == Decode(ring) = LastEntries(LEDGER_CAPACITY)

=============================================================================
