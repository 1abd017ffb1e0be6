----------------------------- MODULE Settlement -----------------------------
(***************************************************************************)
(* What a mandate promises whoever charges it, seen through its nonces     *)
(* alone: settling a nonce moves last_nonce up to it, so that a nonce at   *)
(* or below last_nonce is closed for good. Watcher relies on nothing more; *)
(* Allowance says when a mandate takes these steps.                        *)
(***************************************************************************)
EXTENDS Naturals

VARIABLES
    last,      \* last_nonce of the mandate account
    settled    \* the nonces paid under it

NothingSettled == last = 0 /\ settled = {}

\* The paid arm of charge.
Settle(nonce) ==
    /\ nonce > last
    /\ last' = nonce
    /\ settled' = settled \union {nonce}

\* close_mandate and a later open_mandate at the same address start over.
StartOver == last' = 0 /\ settled' = {}

=============================================================================
