------------------------------ MODULE MCMandate ------------------------------
(***************************************************************************)
(* Small instances of Mandate for TLC.                                     *)
(***************************************************************************)
EXTENDS MandateAllowance

CONSTANTS owner, agent, shop, m1, m2, purse, till

OwnBoth == [m \in Mandates |-> owner]

Hold2 == [a \in {purse, till} |-> IF a = purse THEN owner ELSE shop]

Term(merchant, cap, ceiling, expiry) ==
    [agent |-> agent, merchant |-> merchant, source |-> purse, cap |-> cap,
     per_tx_max |-> ceiling, expires_at |-> expiry]

\* Valid terms, and terms that open_mandate rejects.
PolicyTerms ==
    {Term(shop, 2, 1, 1), Term(shop, 1, 2, 1), Term(NoKey, 2, 1, 1),
     [Term(shop, 2, 1, 1) EXCEPT !.agent = owner]}

RecordTerms ==
    {Term(shop, 2, 1, 1), Term(NoKey, 2, 1, 1), [Term(shop, 2, 1, 1) EXCEPT !.agent = owner]}

\* Two mandates on one account; one pays the owner, so that its payments may go back
\* into the source.
SharedTerms == {Term(shop, 2, 1, 1), Term(owner, 1, 1, 1)}

AllTerms == PolicyTerms \union SharedTerms

\* Three stories: a mandate alone, under charges, transfers and freezes; its record, which
\* needs a longer ring and runs by itself; two mandates that take turns on a purse whose
\* owner also revokes directly.
CONSTANT Stories

VARIABLE story

runVars == <<vars, story>>

\* A token account starts with 1 in the shared story, with 2 in the others.
RunInit ==
    /\ story \in Stories /\ Init
    /\ \A a \in TokenAccounts : token[a].amount = (IF story = "shared" THEN 1 ELSE 2)

\* The instructions on some mandates, with some arguments.
Instructions(ms, terms, amounts, nonces) ==
    \/ \E m \in ms, args \in terms : OpenMandate(m, args)
    \/ \E m \in ms, signer \in Wallets, amount \in amounts, nonce \in nonces :
          \/ \E dst \in TokenAccounts : Charge(m, signer, dst, amount, nonce)
          \/ GrantOverride(m, signer, amount, nonce)
    \/ \E m \in ms, signer \in Wallets : RevokeMandate(m, signer) \/ CloseMandate(m, signer)
    \/ Tick

RunNext ==
    /\ \/ /\ story = "alone"
          /\ \/ Instructions({m1}, PolicyTerms, {0, 1, 2}, {0, 1, 2})
             \/ \E acc, dst \in TokenAccounts, amount \in Amounts : DirectTransfer(acc, dst, amount)
             \/ \E acc \in TokenAccounts : FreezeOrThaw(acc)
       \/ /\ story = "record"
          /\ \/ Instructions({m1}, RecordTerms, {1, 2}, {1, 2})
             \/ \E acc \in TokenAccounts, key \in Mandates, amount \in Amounts : DirectApprove(acc, key, amount)
       \/ /\ story = "shared"
          /\ \/ Instructions(Mandates, SharedTerms, {1}, {1, 2})
             \/ \E acc \in TokenAccounts : DirectRevoke(acc)
    /\ UNCHANGED story

RunSpec == RunInit /\ [][RunNext]_runVars

=============================================================================
