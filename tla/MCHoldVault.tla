----------------------------- MODULE MCHoldVault -----------------------------
(***************************************************************************)
(* Small instances of HoldVault and HoldPreview for TLC.                   *)
(***************************************************************************)
EXTENDS HoldPreview

CONSTANTS owner, guard, friend, shop, kiosk, till, stall, nest

Holders == [d \in {till, stall, nest} |->
                IF d = till THEN shop ELSE IF d = stall THEN kiosk ELSE friend]

Holders2 == [d \in {till, nest} |-> Holders[d]]

Holders1 == [d \in {nest} |-> friend]

RuleOf(limit, delay, share, guardian, safe) ==
    [daily_limit |-> limit, delay_secs |-> delay, big_share_bps |-> share,
     guardian |-> guardian, safe_address |-> safe]

\* One set of rules with a guardian, one without.
PayRules == {RuleOf(2, 2, 2, guard, friend), RuleOf(2, 2, 2, NoKey, friend)}

\* Rules that differ in what tightens and in what loosens, and one require_rules rejects.
RecordRules ==
    {RuleOf(2, 1, 1, NoKey, friend), RuleOf(1, 1, 2, guard, friend), RuleOf(1, 4, 2, guard, friend)}

\* The behaviours up to the point where the ring of records wraps.
RingNotWrapped == ledger'.total <= LEDGER_CAPACITY

=============================================================================
