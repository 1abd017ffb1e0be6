---------------------------- MODULE MCPhoneSigns ----------------------------
(***************************************************************************)
(* The two flows of the phone that sign: the owner's rules, with one       *)
(* standing rule, room for one more and two taps, and the Hold screens.    *)
(* They share nothing but the wallet, and it serves one at a time: a       *)
(* behaviour is of one or the other.                                       *)
(***************************************************************************)
EXTENDS OwnerApp, HoldPhone

Story(op1, op2, old, new) == [ops |-> <<op1, op2>>, kind |-> <<old, new>>]

MCStories ==
    {Story("open", "close", "dedicated", "trade"), Story("open", "open", "associated", "dedicated"),
     Story("revoke", "grant", "trade", "dedicated"), Story("grant", "close", "associated", "trade"),
     Story("close", "revoke", "dedicated", "trade")}

VARIABLE part

runVars == <<ownerAppVars, holdVars, part>>

\* The part that does not move stays in one of its initial states.
RunInit ==
    /\ part \in {"rules", "hold"}
    /\ OwnerAppInit /\ HoldPhoneInit
    /\ part = "rules" => hscreen.name = "home"
    /\ part = "hold" => task[1].op = "revoke"

RunNext ==
    \/ part = "rules" /\ OwnerAppNext /\ UNCHANGED <<holdVars, part>>
    \/ part = "hold" /\ HoldPhoneNext /\ UNCHANGED <<ownerAppVars, part>>

\* The fairness of OwnerAppSpec and of HoldPhoneSpec.
RunSpec ==
    /\ RunInit /\ [][RunNext]_runVars
    /\ \A t \in Tasks : WF_ownerAppVars(part = "rules" /\ Heard(t))
    /\ WF_holdVars(part = "hold" /\ Answers)

-----------------------------------------------------------------------------

\* Whatever the wallet and the chain do, every signed tap and every completed press ends
\* (SignedTapsEnd, PressesEnd).
SigningEnds == SignedTapsEnd /\ PressesEnd

=============================================================================
