------------------------------ MODULE Allowance ------------------------------
(***************************************************************************)
(* The promise a mandate makes its owner, with the program taken away:     *)
(* an allowance is opened where there is none, paid out of in ever higher  *)
(* nonces while something is left and it is not ended, and put away only   *)
(* after its end. Nothing here speaks of overrides, delegations, refusals  *)
(* or clocks: none of them gives an allowance a step it does not have.     *)
(* Mandate implements this module for each of its mandates.                *)
(***************************************************************************)
EXTENDS Settlement

VARIABLES
    phase,    \* "none" | "active" | "ended"
    left      \* what may still be paid

allowanceVars == <<last, settled, phase, left>>

Init == NothingSettled /\ phase = "none" /\ left = 0

\* open_mandate
Open ==
    /\ phase = "none"
    /\ phase' = "active"
    /\ left' \in Nat \ {0}
    /\ StartOver

\* charge: paying out the rest ends the allowance in the same step.
Pay ==
    /\ phase = "active"
    /\ Settle(last')
    /\ left' \in 0 .. left - 1
    /\ phase' = IF left' = 0 THEN "ended" ELSE "active"

\* revoke_mandate, or a charge refused for expiry.
End ==
    /\ phase = "active"
    /\ phase' = "ended"
    /\ UNCHANGED <<last, settled, left>>

\* close_mandate
Close ==
    /\ phase = "ended"
    /\ phase' = "none"
    /\ left' = 0
    /\ StartOver

Next == Open \/ Pay \/ End \/ Close

Spec == Init /\ [][Next]_allowanceVars

=============================================================================
