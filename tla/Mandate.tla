------------------------------- MODULE Mandate -------------------------------
(***************************************************************************)
(* Mandates of the veto program (programs/veto/src/lib.rs, state.rs): the  *)
(* owner opens a mandate over one of her token accounts, the agent submits *)
(* charges, the program decides each one, pays it through the SPL          *)
(* delegation or records a refusal, and the owner may let one charge       *)
(* through, revoke, and close. Several mandates may share a token account, *)
(* which has room for one delegate only.                                   *)
(*                                                                         *)
(* One action is one transaction: the runtime serialises transactions that *)
(* write the same accounts, and a transaction that errors changes nothing. *)
(***************************************************************************)
EXTENDS LedgerRing, SplToken, FiniteSetsExt

CONSTANTS
    Wallets,         \* keys that sign: owners, agents, merchants
    Mandates,        \* mandate addresses, PDAs of (owner, mandate_id)
    OwnerOf,         \* the owner each mandate address is derived from
    TokenAccounts,   \* token accounts of the mint
    HolderOf,        \* the wallet that owns each token account
    Terms,           \* arguments open_mandate is called with
    Amounts,         \* amounts charges and overrides ask for
    Nonces,          \* nonces they name
    Balances,        \* balances the token accounts start with
    Times,           \* values of the chain clock
    Outside          \* what others do to the token accounts in this instance

Statuses == {"ACTIVE", "REVOKED", "EXHAUSTED", "EXPIRED"}

Kinds == {"OPENED", "PAID", "REFUSED", "OVERRIDE", "REVOKED"}

Reasons == {"OK", "NOT_ACTIVE", "EXPIRED", "STALE_NONCE", "MERCHANT_NOT_ALLOWED",
            "OVER_PER_TX_MAX", "OVER_CAP", "DELEGATE_MISSING", "INSUFFICIENT_FUNDS",
            "ZERO_AMOUNT", "ACCOUNT_FROZEN"}

\* OpenMandateArgs, with the token account passed as `source`.
OpenMandateArgs ==
    [agent : Wallets, merchant : Wallets \union {NoKey}, source : TokenAccounts,
     cap : Nat, per_tx_max : Nat, expires_at : Int]

ASSUME MandateAssumption ==
    /\ NoKey \notin Wallets \union Mandates \union TokenAccounts
    /\ OwnerOf \in [Mandates -> Wallets]
    /\ HolderOf \in [TokenAccounts -> Wallets]
    /\ Terms \subseteq OpenMandateArgs
    /\ Amounts \subseteq Nat
    /\ Nonces \subseteq Nat
    /\ Balances \subseteq Nat
    /\ Times \subseteq Int
    /\ Outside \subseteq {"approve", "revoke", "transfer", "freeze"}

VARIABLES
    now,       \* Clock::get().unix_timestamp
    mandate,   \* the Mandate account at each mandate address
    ledger,    \* the Ledger account of each mandate
    token,     \* the token accounts
    paid       \* history: the payments made under each mandate since it was opened, in order

vars == <<now, mandate, ledger, token, paid>>

-----------------------------------------------------------------------------
(* State                                                                   *)

MandateAccount ==
    [agent : Wallets, source : TokenAccounts, merchant : Wallets, cap : Nat, per_tx_max : Nat, expires_at : Int,
     spent : Nat, override_amount : Nat, override_nonce : Nat, last_nonce : Nat,
     status : Statuses,
     spend_count : 0 .. U32_MAX, refusal_count : 0 .. U32_MAX]

\* An address that holds no account.
NoMandate ==
    [agent |-> NoKey, source |-> NoKey, merchant |-> NoKey, cap |-> 0, per_tx_max |-> 0,
     expires_at |-> 0, spent |-> 0, override_amount |-> 0, override_nonce |-> 0,
     last_nonce |-> 0, status |-> "NONE", spend_count |-> 0, refusal_count |-> 0]

Entry ==
    [kind : Kinds, amount : Nat, counterparty : Wallets \union TokenAccounts, nonce : Nat,
     suggested_override : Nat, reason : Reasons]

MkEntry(kind, amount, counterparty, nonce, suggested, reason) ==
    [kind |-> kind, amount |-> amount, counterparty |-> counterparty, nonce |-> nonce,
     suggested_override |-> suggested, reason |-> reason]

Payment == [nonce : Nat, amount : Nat, destination : TokenAccounts]

\* Every account holds what its layout says, and counters stay in their width (state.rs).
TypeOK ==
    /\ now \in Int
    /\ mandate \in [Mandates -> MandateAccount \union {NoMandate}]
    /\ ledger \in [Mandates -> Ring(Entry)]
    /\ token \in [TokenAccounts -> TokenAccount(Mandates)]
    /\ paid \in [Mandates -> Seq(Payment)]

Live(m) == mandate[m].status # "NONE"

Init ==
    /\ now \in Times
    /\ mandate = [m \in Mandates |-> NoMandate]
    /\ ledger = [m \in Mandates |-> EmptyRing]
    /\ token \in [TokenAccounts -> {FreshAccount(b) : b \in Balances}]
    /\ paid = [m \in Mandates |-> <<>>]

-----------------------------------------------------------------------------
(* Policy                                                                  *)

Max2(a, b) == IF a >= b THEN a ELSE b

\* Mandate::effective_per_tx_max
EffectivePerTxMax(md, nonce) ==
    IF md.override_nonce # 0 /\ md.override_nonce = nonce
    THEN Max2(md.per_tx_max, md.override_amount)
    ELSE md.per_tx_max

\* Mandate::remaining, saturating at zero
Remaining(md) == IF md.spent <= md.cap THEN md.cap - md.spent ELSE 0

\* The rules evaluate checks, each one broken or not.

\* Mutant: only nonces below the last one are stale.
MutReplay(md, nonce) == nonce < md.last_nonce

StaleNonce(md, nonce) == nonce <= md.last_nonce

\* Mutant: the payee is not compared.
MutAnyMerchant(md, dst) == FALSE

MerchantNotAllowed(md, dst) == HolderOf[dst] # md.merchant

\* cap is a u64, so a sum that leaves u64 (checked_add) is over it as well.
OverCap(md, amount) == md.spent + amount > md.cap

InsufficientFunds(src, amount) == src.delegated < amount \/ src.amount < amount

\* Mutant: only the source is looked at.
MutSourceFrozen(src, dst) == src.frozen

AccountFrozen(src, dst) == src.frozen \/ dst.frozen

\* evaluate: the first rule the charge breaks.
Evaluate(m, md, tok, dst, amount, nonce, t) ==
    LET src == tok[md.source] IN
    IF md.status # "ACTIVE"                       THEN "NOT_ACTIVE"
    ELSE IF t >= md.expires_at                    THEN "EXPIRED"
    ELSE IF amount = 0                            THEN "ZERO_AMOUNT"
    ELSE IF StaleNonce(md, nonce)                 THEN "STALE_NONCE"
    ELSE IF MerchantNotAllowed(md, dst)           THEN "MERCHANT_NOT_ALLOWED"
    ELSE IF amount > EffectivePerTxMax(md, nonce) THEN "OVER_PER_TX_MAX"
    ELSE IF OverCap(md, amount)                   THEN "OVER_CAP"
    ELSE IF src.delegate # m                      THEN "DELEGATE_MISSING"
    ELSE IF InsufficientFunds(src, amount)        THEN "INSUFFICIENT_FUNDS"
    ELSE IF AccountFrozen(src, tok[dst])          THEN "ACCOUNT_FROZEN"
    ELSE "OK"

\* Mutant: the total cap is not looked at.
MutSuggestAlways(md, reason, amount) == IF reason = "OVER_PER_TX_MAX" THEN amount ELSE 0

\* suggested_override
SuggestedOverride(md, reason, amount) ==
    IF reason = "OVER_PER_TX_MAX" /\ amount <= Remaining(md) THEN amount ELSE 0

-----------------------------------------------------------------------------
(* Instructions                                                            *)

\* open_mandate: init fails on an address in use; the delegation of the source passes
\* to the new mandate, whoever held it.
OpenMandate(m, args) ==
    /\ ~Live(m)
    /\ args.cap > 0
    /\ args.per_tx_max > 0
    /\ args.per_tx_max <= args.cap
    /\ args.expires_at > now
    /\ args.merchant # NoKey
    /\ args.agent # OwnerOf[m]
    /\ HolderOf[args.source] = OwnerOf[m]
    /\ CanApprove(token, args.source)
    /\ mandate' = [mandate EXCEPT ![m] =
           [agent |-> args.agent, source |-> args.source, merchant |-> args.merchant,
            cap |-> args.cap, per_tx_max |-> args.per_tx_max,
            expires_at |-> args.expires_at, spent |-> 0, override_amount |-> 0,
            override_nonce |-> 0, last_nonce |-> 0, status |-> "ACTIVE",
            spend_count |-> 0, refusal_count |-> 0]]
    /\ ledger' = [ledger EXCEPT ![m] =
           Record(EmptyRing, MkEntry("OPENED", args.cap, args.merchant, 0, 0, "OK"))]
    /\ token' = Approve(token, args.source, m, args.cap)
    /\ paid' = [paid EXCEPT ![m] = <<>>]
    /\ UNCHANGED now

\* Mutant: a mandate is exhausted only past its cap.
MutStatusAfter(md, total) == IF total > md.cap THEN "EXHAUSTED" ELSE md.status

StatusAfter(md, total) == IF total >= md.cap THEN "EXHAUSTED" ELSE md.status

\* The mandate after a payment, with the values count and last for spend_count and
\* last_nonce.
SettledWith(md, amount, nonce, count, last) ==
    LET used == md.override_nonce = nonce IN
    [md EXCEPT !.spent = @ + amount,
               !.spend_count = count,
               !.last_nonce = last,
               !.override_nonce = IF used THEN 0 ELSE @,
               !.override_amount = IF used THEN 0 ELSE @,
               !.status = StatusAfter(md, md.spent + amount)]

\* Mutant: the u32 count is not saturated.
MutCountOverflows(md, amount, nonce) ==
    SettledWith(md, amount, nonce, md.spend_count + 1, nonce)

Settled(md, amount, nonce) ==
    SettledWith(md, amount, nonce, SatInc(md.spend_count), nonce)

\* charge, when evaluate finds nothing wrong. A transfer that errors aborts the
\* transaction, and with it the record of the decision.
ChargePaid(m, dst, amount, nonce) ==
    LET md == mandate[m] IN
    /\ Evaluate(m, md, token, dst, amount, nonce, now) = "OK"
    /\ CanTransfer(token, md.source, dst, m, amount)
    /\ token' = Transfer(token, md.source, dst, amount)
    /\ mandate' = [mandate EXCEPT ![m] = Settled(@, amount, nonce)]
    /\ ledger' = [ledger EXCEPT ![m] =
           Record(@, MkEntry("PAID", amount, dst, nonce, 0, "OK"))]
    /\ paid' = [paid EXCEPT ![m] =
           Append(@, [nonce |-> nonce, amount |-> amount, destination |-> dst])]

\* Mutant: a refusal for expiry leaves the mandate active.
MutExpiryNotSticky(md, reason) == [md EXCEPT !.refusal_count = SatInc(@)]

\* The mandate after a refusal.
Refused(md, reason) ==
    [md EXCEPT !.status = IF reason = "EXPIRED" /\ @ = "ACTIVE" THEN "EXPIRED" ELSE @,
               !.refusal_count = SatInc(@)]

\* charge, when a rule is broken: nothing moves, and the refusal is on the record.
ChargeRefused(m, dst, amount, nonce) ==
    LET md == mandate[m]
        reason == Evaluate(m, md, token, dst, amount, nonce, now)
    IN
    /\ reason # "OK"
    /\ mandate' = [mandate EXCEPT ![m] = Refused(@, reason)]
    /\ ledger' = [ledger EXCEPT ![m] =
           Record(@, MkEntry("REFUSED", amount, dst, nonce,
                             SuggestedOverride(Refused(md, reason), reason, amount), reason))]
    /\ UNCHANGED <<token, paid>>

\* charge: signed by the agent of the mandate.
Charge(m, signer, dst, amount, nonce) ==
    /\ Live(m)
    /\ signer = mandate[m].agent
    /\ \/ ChargePaid(m, dst, amount, nonce)
       \/ ChargeRefused(m, dst, amount, nonce)
    /\ UNCHANGED now

\* The requirements of grant_override.
CanGrant(md, amount, nonce) ==
    /\ nonce # 0
    /\ amount > 0
    /\ md.status = "ACTIVE"
    /\ nonce > md.last_nonce
    /\ amount <= Remaining(md)

Granted(md, amount, nonce) ==
    [md EXCEPT !.override_amount = amount, !.override_nonce = nonce]

\* grant_override: signed by the owner.
GrantOverride(m, signer, amount, nonce) ==
    LET md == mandate[m] IN
    /\ Live(m)
    /\ signer = OwnerOf[m]
    /\ CanGrant(md, amount, nonce)
    /\ mandate' = [mandate EXCEPT ![m] = Granted(@, amount, nonce)]
    /\ ledger' = [ledger EXCEPT ![m] =
           Record(@, MkEntry("OVERRIDE", amount, md.merchant, nonce, amount, "OK"))]
    /\ UNCHANGED <<now, token, paid>>

\* What revoke_mandate asks for, the SPL revoke it ends with included.
CanRevokeMandate(m) ==
    /\ mandate[m].status \notin {"NONE", "REVOKED"}
    /\ CanRevoke(token, mandate[m].source)

\* Mutant: the delegation is left in place.
MutKeepDelegation(m, signer) ==
    /\ signer = OwnerOf[m]
    /\ CanRevokeMandate(m)
    /\ mandate' = [mandate EXCEPT ![m].status = "REVOKED"]
    /\ UNCHANGED <<now, ledger, token, paid>>

\* revoke_mandate: signed by the owner. The delegation of the source is dropped even
\* when another mandate holds it.
RevokeMandate(m, signer) ==
    LET md == mandate[m] IN
    /\ signer = OwnerOf[m]
    /\ CanRevokeMandate(m)
    /\ mandate' = [mandate EXCEPT ![m].status = "REVOKED",
                                  ![m].override_amount = 0,
                                  ![m].override_nonce = 0]
    /\ ledger' = [ledger EXCEPT ![m] =
           Record(@, MkEntry("REVOKED", 0, md.merchant, 0, 0, "OK"))]
    /\ token' = Revoke(token, md.source)
    /\ UNCHANGED <<now, paid>>

\* Mutant: the status is not looked at.
MutCloseActive(m, signer) ==
    /\ Live(m)
    /\ signer = OwnerOf[m]
    /\ mandate' = [mandate EXCEPT ![m] = NoMandate]
    /\ ledger' = [ledger EXCEPT ![m] = EmptyRing]
    /\ paid' = [paid EXCEPT ![m] = <<>>]
    /\ UNCHANGED <<now, token>>

\* close_mandate: both accounts go, the delegation stays as it is.
CloseMandate(m, signer) ==
    /\ Live(m)
    /\ signer = OwnerOf[m]
    /\ mandate[m].status # "ACTIVE"
    /\ mandate' = [mandate EXCEPT ![m] = NoMandate]
    /\ ledger' = [ledger EXCEPT ![m] = EmptyRing]
    /\ paid' = [paid EXCEPT ![m] = <<>>]
    /\ UNCHANGED <<now, token>>

-----------------------------------------------------------------------------
(* Everything else that touches the accounts the program reads             *)

\* The holder approves or revokes a delegation without the program. A delegate that is
\* no mandate is, to the program, the same as none.
DirectApprove(acc, key, amount) ==
    /\ "approve" \in Outside
    /\ CanApprove(token, acc)
    /\ token' = Approve(token, acc, key, amount)
    /\ UNCHANGED <<now, mandate, ledger, paid>>

DirectRevoke(acc) ==
    /\ "revoke" \in Outside
    /\ CanRevoke(token, acc)
    /\ token' = Revoke(token, acc)
    /\ UNCHANGED <<now, mandate, ledger, paid>>

\* A holder moves tokens to another account.
DirectTransfer(acc, dst, amount) ==
    /\ "transfer" \in Outside
    /\ acc # dst
    /\ ~token[acc].frozen /\ ~token[dst].frozen
    /\ token[acc].amount >= amount
    /\ token' = [token EXCEPT ![acc].amount = @ - amount, ![dst].amount = @ + amount]
    /\ UNCHANGED <<now, mandate, ledger, paid>>

\* The mint's freeze authority freezes or thaws the account.
FreezeOrThaw(acc) ==
    /\ "freeze" \in Outside
    /\ token' = [token EXCEPT ![acc].frozen = ~@]
    /\ UNCHANGED <<now, mandate, ledger, paid>>

\* The chain clock is an estimate: it usually advances, and it may step back.
Tick ==
    /\ now' \in Times
    /\ UNCHANGED <<mandate, ledger, token, paid>>

Next ==
    \/ \E m \in Mandates, args \in Terms : OpenMandate(m, args)
    \/ \E m \in Mandates, signer \in Wallets, dst \in TokenAccounts, amount \in Amounts,
          nonce \in Nonces : Charge(m, signer, dst, amount, nonce)
    \/ \E m \in Mandates, signer \in Wallets, amount \in Amounts, nonce \in Nonces :
          GrantOverride(m, signer, amount, nonce)
    \/ \E m \in Mandates, signer \in Wallets : RevokeMandate(m, signer)
    \/ \E m \in Mandates, signer \in Wallets : CloseMandate(m, signer)
    \/ \E acc \in TokenAccounts, key \in Mandates, amount \in Amounts :
          DirectApprove(acc, key, amount)
    \/ \E acc \in TokenAccounts : DirectRevoke(acc)
    \/ \E acc, dst \in TokenAccounts, amount \in Amounts : DirectTransfer(acc, dst, amount)
    \/ \E acc \in TokenAccounts : FreezeOrThaw(acc)
    \/ Tick

Spec == Init /\ [][Next]_vars

-----------------------------------------------------------------------------
(* Properties                                                              *)

\* No nonce is paid twice, whatever is retried, overridden or refused in between: the
\* nonces of a mandate's payments only rise, and none is above last_nonce (evaluate's
\* stale nonce rule and the assignment of last_nonce).
NoncePaidOnce ==
    \A m \in Mandates : \A j \in DOMAIN paid[m] :
        /\ paid[m][j].nonce <= mandate[m].last_nonce
        /\ \A i \in 1 .. j - 1 : paid[m][i].nonce < paid[m][j].nonce

\* An active mandate has something left to spend: the payment that uses up the cap
\* ends it in the same transaction (the STATUS_EXHAUSTED assignment in charge).
ActiveHasBudget ==
    \A m \in Mandates :
        /\ mandate[m].spent <= mandate[m].cap
        /\ mandate[m].status = "ACTIVE" => mandate[m].spent < mandate[m].cap

\* charge never fails where it should decide: once evaluate accepts a charge the token
\* transfer cannot error, which would roll the decision back and leave no record of it
\* (the delegate, funds and frozen checks in evaluate).
EveryChargeIsDecided ==
    \A m \in Mandates, dst \in TokenAccounts, amount \in Amounts, nonce \in Nonces :
        LET md == mandate[m] IN
        /\ Live(m)
        /\ Evaluate(m, md, token, dst, amount, nonce, now) = "OK"
        => CanTransfer(token, md.source, dst, m, amount)

\* A suggested override is one the owner can grant at once, and once granted no rule of
\* the mandate stands in the way of the charge: only the state of the token accounts,
\* which an override does not touch, can still refuse it (suggested_override).
SuggestionIsGrantable ==
    \A m \in Mandates, dst \in TokenAccounts, amount \in Amounts, nonce \in Nonces :
        LET md == mandate[m]
            suggested == SuggestedOverride(md,
                             Evaluate(m, md, token, dst, amount, nonce, now), amount)
        IN Live(m) /\ suggested > 0 =>
               /\ CanGrant(md, suggested, nonce)
               /\ Evaluate(m, Granted(md, suggested, nonce), token, dst, amount, nonce, now)
                      \in {"OK", "DELEGATE_MISSING", "INSUFFICIENT_FUNDS", "ACCOUNT_FROZEN"}

\* A revoked mandate holds no delegation over its source, unless someone approved it
\* again without the program: nothing could be pulled even by other code signing as the
\* mandate (the SPL revoke that ends revoke_mandate).
RevokedHoldsNoDelegation ==
    \A m \in Mandates : mandate[m].status = "REVOKED" /\ "approve" \notin Outside =>
        token[mandate[m].source].delegate # m

\* The delegation is a second ceiling that never drifts from the first: while a mandate
\* holds the delegation of its source, the amount still delegated is what remains of its
\* cap, through shared sources, reopened addresses and used-up delegations (open_mandate
\* approves cap, charge spends both). Payments to the owner herself may go back into the
\* source and use up only the cap.
DelegationIsBudget ==
    \A m \in Mandates :
        LET md == mandate[m] IN
        /\ Live(m) /\ "approve" \notin Outside
        /\ token[md.source].delegate = m
        => /\ token[md.source].delegated >= Remaining(md)
           /\ md.merchant # OwnerOf[m] => token[md.source].delegated = Remaining(md)

\* Delegations follow the mandates they were approved for: gone with a revocation, and
\* never drifting from the cap while they last (approve_checked in open_mandate, charge,
\* revoke in revoke_mandate).
DelegationFollowsMandate == RevokedHoldsNoDelegation /\ DelegationIsBudget

-----------------------------------------------------------------------------
(* The record against the account. Rows(m) is what a reader of the ledger  *)
(* sees, oldest first; nothing is missing from it until the ring wraps.    *)

Rows(m) == Decode(ledger[m])

Complete(m) == ledger[m].total <= LEDGER_CAPACITY

\* The sum of the amounts of the rows of one kind.
RowsSum(rows, kind) ==
    MapThenSumSet(LAMBDA i : rows[i].amount, {i \in DOMAIN rows : rows[i].kind = kind})

\* A reader of the ledger can rebuild the account from it: while the ring is complete
\* the PAID rows add up to `spent` and the REFUSED rows to refusal_count; afterwards
\* they never claim more than the account does, and the newest PAID row still in the
\* ring is the last settled nonce (Ledger::record and the two arms of charge).
RecordAgreesWithAccount ==
    \A m \in Mandates : Live(m) =>
        LET md == mandate[m]
            rows == Rows(m)
            paidRows == {i \in DOMAIN rows : rows[i].kind = "PAID"}
            refusedRows == {i \in DOMAIN rows : rows[i].kind = "REFUSED"}
        IN /\ RowsSum(rows, "PAID") <= md.spent
           /\ Complete(m) =>
                  /\ RowsSum(rows, "PAID") = md.spent
                  /\ Cardinality(refusedRows) = md.refusal_count
                  /\ rows[1].kind = "OPENED" /\ rows[1].amount = md.cap
           /\ paidRows # {} => rows[Max(paidRows)].nonce = md.last_nonce

\* Every payment above the per-payment ceiling is preceded on the record by an override
\* for its nonce that covers it and that no later override replaced; the row can only
\* be missing when the ring has dropped rows (effective_per_tx_max, grant_override and
\* the clearing of the override in charge).
AboveCeilingIsOnRecord ==
    \A m \in Mandates : Live(m) =>
        LET rows == Rows(m) IN
        \A i \in DOMAIN rows :
            rows[i].kind = "PAID" /\ rows[i].amount > mandate[m].per_tx_max =>
                LET grants == {j \in 1 .. i - 1 : rows[j].kind = "OVERRIDE"} IN
                IF grants = {} THEN ~Complete(m)
                ELSE /\ rows[Max(grants)].nonce = rows[i].nonce
                     /\ rows[Max(grants)].amount >= rows[i].amount

\* An end is final: nothing is paid after the mandate was revoked or after a charge was
\* refused for expiry, even when the clock steps back below the expiry (the sticky
\* STATUS_EXPIRED in charge, the status check in evaluate).
NothingPaidAfterTheEnd ==
    \A m \in Mandates : Live(m) =>
        LET rows == Rows(m) IN
        \A i, j \in DOMAIN rows :
            /\ i < j
            /\ rows[i].kind = "REVOKED" \/ rows[i].reason = "EXPIRED"
            => rows[j].kind # "PAID"

\* What the ledger tells is what happened: it agrees with the account, justifies every
\* payment above the ceiling, and shows nothing paid after the end (Ledger::record, and
\* the order of writes in charge, grant_override and revoke_mandate).
RecordTellsTheTruth ==
    RecordAgreesWithAccount /\ AboveCeilingIsOnRecord /\ NothingPaidAfterTheEnd

-----------------------------------------------------------------------------
(* Action properties                                                       *)

\* Spending happens only within the terms: a step that raises `spent` is taken while
\* the mandate is active and before its expiry, moves exactly that amount from the
\* source to an account of the merchant and touches no other account, and uses up the
\* same amount of the delegation (charge). A payment back into the source moves nothing.
PaidWithinTerms ==
    [][\A m \in Mandates :
        LET md == mandate[m]
            amount == mandate'[m].spent - md.spent
        IN amount > 0 =>
            /\ md.status = "ACTIVE" /\ now < md.expires_at
            /\ token[md.source].delegate = m /\ amount <= token[md.source].delegated
            /\ \E dst \in TokenAccounts :
                   /\ HolderOf[dst] = md.merchant
                   /\ \A acc \in TokenAccounts \ {md.source, dst} : token'[acc] = token[acc]
                   /\ IF dst = md.source THEN token' = token
                      ELSE /\ token'[md.source].amount = token[md.source].amount - amount
                           /\ token'[md.source].delegated =
                                  token[md.source].delegated - amount
                           /\ token'[dst].amount = token[dst].amount + amount]_vars

=============================================================================
