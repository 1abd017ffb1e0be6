-------------------------- MODULE MandateAllowance --------------------------
(***************************************************************************)
(* Mandate implements Allowance: the refinement mapping, for one mandate   *)
(* among all of them.                                                      *)
(***************************************************************************)
EXTENDS Mandate

CONSTANT Followed    \* the mandate that is looked at

ASSUME FollowedAssumption == Followed \in Mandates

PhaseOf(md) ==
    CASE md.status = "NONE"   -> "none"
      [] md.status = "ACTIVE" -> "active"
      [] OTHER                -> "ended"

NoncesPaid(payments) == {payments[i].nonce : i \in DOMAIN payments}

A == INSTANCE Allowance WITH
         last    <- mandate[Followed].last_nonce,
         settled <- NoncesPaid(paid[Followed]),
         phase   <- PhaseOf(mandate[Followed]),
         left    <- Remaining(mandate[Followed])

\* Whatever overrides, refusals, reopened addresses, other mandates on the same token
\* account and outside transfers do, a mandate is an allowance: opened where there is none, paid out of
\* in rising nonces and never beyond what is left, closed only after its end (the five
\* instructions of lib.rs).
IsAnAllowance == A!Spec

=============================================================================
