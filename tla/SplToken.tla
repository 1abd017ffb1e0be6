------------------------------ MODULE SplToken ------------------------------
(***************************************************************************)
(* The SPL Token program, as far as the veto program uses it: one delegate *)
(* per token account, a delegated amount that a delegate's transfer uses   *)
(* up, and frozen accounts. External code, modelled from the calls         *)
(* (approve_checked, transfer_checked, revoke) and the fields read in      *)
(* programs/veto/src. One mint.                                            *)
(***************************************************************************)
EXTENDS Integers

CONSTANT NoKey     \* Pubkey::default(), and COption::None for a delegate

\* A token account; keys are the addresses a delegate may have.
TokenAccount(keys) ==
    [amount : Nat, delegate : keys \union {NoKey}, delegated : Nat, frozen : BOOLEAN]

\* An account nobody has a delegation over.
FreshAccount(balance) ==
    [amount |-> balance, delegate |-> NoKey, delegated |-> 0, frozen |-> FALSE]

\* approve_checked replaces whatever delegation the account carried.
CanApprove(token, src) == ~token[src].frozen

Approve(token, src, key, amount) ==
    [token EXCEPT ![src].delegate = key, ![src].delegated = amount]

\* revoke clears the delegation whoever holds it.
CanRevoke(token, src) == ~token[src].frozen

Revoke(token, src) ==
    [token EXCEPT ![src].delegate = NoKey, ![src].delegated = 0]

\* transfer_checked signed by a delegate: it errors unless all of this holds.
CanTransfer(token, src, dst, key, amount) ==
    /\ ~token[src].frozen /\ ~token[dst].frozen
    /\ token[src].delegate = key
    /\ token[src].delegated >= amount
    /\ token[src].amount >= amount

\* The source after its delegate moved amount out of it: a delegation that is used
\* up is cleared.
Debited(acc, amount) ==
    [acc EXCEPT !.amount = @ - amount,
                !.delegated = @ - amount,
                !.delegate = IF acc.delegated = amount THEN NoKey ELSE @]

\* A transfer from an account to itself moves nothing and uses up nothing.
Transfer(token, src, dst, amount) ==
    IF src = dst THEN token
    ELSE [token EXCEPT ![src] = Debited(@, amount), ![dst].amount = @ + amount]

=============================================================================
