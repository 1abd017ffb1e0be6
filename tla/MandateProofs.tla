---------------------------- MODULE MandateProofs ----------------------------
(***************************************************************************)
(* Theorems about Mandate, for any set of mandates, wallets, token         *)
(* accounts, terms, amounts, nonces and clock values, and for any ledger   *)
(* capacity the u32 counters can exceed: what a payment may do, that the   *)
(* program only touches its own, and that the ledger of a mandate tells a  *)
(* reader the truth.                                                       *)
(***************************************************************************)
EXTENDS MandateAllowance, CommonProofs

-----------------------------------------------------------------------------
(* Type correctness                                                        *)

\* The account a payment leaves behind is an account.
LEMMA SettledType ==
    ASSUME NEW md \in MandateAccount, NEW amount \in Nat, NEW nonce \in Nat
    PROVE  Settled(md, amount, nonce) \in MandateAccount
  <1>1. SatInc(md.spend_count) \in 0 .. U32_MAX
    BY RingAssumption DEF SatInc, MandateAccount
  <1>2. StatusAfter(md, md.spent + amount) \in Statuses
    BY DEF StatusAfter, MandateAccount, Statuses
  <1> DEFINE n == IF md.override_nonce = nonce THEN 0 ELSE md.override_nonce
             a == IF md.override_nonce = nonce THEN 0 ELSE md.override_amount
             md1 == [md EXCEPT !.spent = @ + amount, !.spend_count = SatInc(md.spend_count),
                               !.last_nonce = nonce]
             md2 == [md1 EXCEPT !.override_nonce = n, !.override_amount = a,
                                !.status = StatusAfter(md, md.spent + amount)]
  <1>3. n \in Nat /\ a \in Nat /\ md.spent + amount \in Nat
    BY DEF MandateAccount
  <1>4. md1 \in MandateAccount
    <2>1. [md EXCEPT !.spent = @ + amount] \in MandateAccount
      BY <1>3 DEF MandateAccount
    <2> QED BY <1>1, <2>1 DEF MandateAccount
  <1>5. md2 \in MandateAccount
    <2> HIDE DEF md1, n, a
    <2> QED BY <1>2, <1>3, <1>4 DEF MandateAccount
  <1> QED
    BY <1>5 DEF Settled, SettledWith

\* So is the one a refusal leaves behind.
LEMMA RefusedType ==
    ASSUME NEW md \in MandateAccount, NEW reason
    PROVE  Refused(md, reason) \in MandateAccount
  <1>1. SatInc(md.refusal_count) \in 0 .. U32_MAX
    BY RingAssumption DEF SatInc, MandateAccount
  <1> QED
    BY <1>1 DEF Refused, MandateAccount, Statuses

\* evaluate returns one of the reasons.
LEMMA EvaluateType ==
    ASSUME NEW m, NEW md, NEW tok, NEW dst, NEW amount, NEW nonce, NEW t
    PROVE  Evaluate(m, md, tok, dst, amount, nonce, t) \in Reasons
  BY DEF Evaluate, Reasons

\* A delegate's transfer that does not error leaves token accounts behind.
LEMMA TransferType ==
    ASSUME NEW K, NEW tok \in [TokenAccounts -> TokenAccount(K)],
           NEW src \in TokenAccounts, NEW dst \in TokenAccounts, NEW key,
           NEW amount \in Nat, CanTransfer(tok, src, dst, key, amount)
    PROVE  Transfer(tok, src, dst, amount) \in [TokenAccounts -> TokenAccount(K)]
  <1> DEFINE acc == tok[src]
             d == IF acc.delegated = amount THEN NoKey ELSE acc.delegate
  <1>1. Debited(acc, amount) \in TokenAccount(K)
    <2>1. /\ acc \in TokenAccount(K)
          /\ d \in K \union {NoKey}
          /\ acc.amount - amount \in Nat
          /\ acc.delegated - amount \in Nat
      BY DEF TokenAccount, CanTransfer
    <2> HIDE DEF acc
    <2> QED BY <2>1 DEF Debited, TokenAccount
  <1>2. [tok[dst] EXCEPT !.amount = @ + amount] \in TokenAccount(K)
    BY DEF TokenAccount
  <1> QED
    BY <1>1, <1>2 DEF Transfer

\* Approving and revoking leave token accounts behind.
LEMMA ApproveType ==
    ASSUME NEW K, NEW tok \in [TokenAccounts -> TokenAccount(K)], NEW src \in TokenAccounts,
           NEW key \in K, NEW amount \in Nat
    PROVE  /\ Approve(tok, src, key, amount) \in [TokenAccounts -> TokenAccount(K)]
           /\ Revoke(tok, src) \in [TokenAccounts -> TokenAccount(K)]
  BY DEF Approve, Revoke, TokenAccount

\* So does a transfer by the holder.
LEMMA DirectTransferType ==
    ASSUME NEW K, NEW tok \in [TokenAccounts -> TokenAccount(K)], NEW src \in TokenAccounts,
           NEW dst \in TokenAccounts, NEW amount \in Nat, tok[src].amount >= amount
    PROVE  [tok EXCEPT ![src].amount = @ - amount, ![dst].amount = @ + amount]
               \in [TokenAccounts -> TokenAccount(K)]
  <1>1. [tok EXCEPT ![src].amount = @ - amount] \in [TokenAccounts -> TokenAccount(K)]
    BY DEF TokenAccount
  <1> QED
    BY <1>1 DEF TokenAccount

\* A live address holds an account.
LEMMA LiveType == ASSUME TypeOK, NEW m \in Mandates, Live(m) PROVE mandate[m] \in MandateAccount
  BY DEF TypeOK, Live, NoMandate

\* Every variable keeps its type through every instruction, every outside step and every
\* move of the clock.
LEMMA TypeStep == TypeOK /\ [Next]_vars => TypeOK'
  <1> SUFFICES ASSUME TypeOK, [Next]_vars PROVE TypeOK'
    OBVIOUS
  <1> USE MandateAssumption
  <1>1. ASSUME NEW m \in Mandates, NEW args \in Terms, OpenMandate(m, args) PROVE TypeOK'
    <2>1. args \in OpenMandateArgs /\ args.merchant \in Wallets
      BY <1>1 DEF OpenMandate, OpenMandateArgs
    <2>2. mandate' \in [Mandates -> MandateAccount \union {NoMandate}]
      BY <1>1, <2>1, RingAssumption DEF OpenMandate, OpenMandateArgs, TypeOK, MandateAccount, Statuses
    <2>3. MkEntry("OPENED", args.cap, args.merchant, 0, 0, "OK") \in Entry
      BY <2>1 DEF MkEntry, Entry, OpenMandateArgs, Kinds, Reasons
    <2>4. ledger' \in [Mandates -> Ring(Entry)]
      BY <1>1, <2>3, EmptyRingType, RecordType DEF OpenMandate, TypeOK
    <2>5. token' \in [TokenAccounts -> TokenAccount(Mandates)]
      BY <1>1, <2>1, ApproveType DEF OpenMandate, TypeOK, OpenMandateArgs
    <2> QED
      BY <1>1, <2>2, <2>4, <2>5 DEF OpenMandate, TypeOK
  <1>2. ASSUME NEW m \in Mandates, NEW signer \in Wallets, NEW dst \in TokenAccounts,
               NEW amount \in Amounts, NEW nonce \in Nonces,
               Charge(m, signer, dst, amount, nonce)
        PROVE  TypeOK'
    <2>1. amount \in Nat /\ nonce \in Nat /\ mandate[m] \in MandateAccount
      BY <1>2, LiveType DEF Charge
    <2>2. CASE ChargePaid(m, dst, amount, nonce)
      <3>1. mandate' \in [Mandates -> MandateAccount \union {NoMandate}]
        BY <2>1, <2>2, SettledType DEF ChargePaid, TypeOK
      <3>2. MkEntry("PAID", amount, dst, nonce, 0, "OK") \in Entry
        BY <2>1 DEF MkEntry, Entry, Kinds, Reasons
      <3>3. ledger' \in [Mandates -> Ring(Entry)]
        BY <2>2, <3>2, RecordType DEF ChargePaid, TypeOK
      <3>4. mandate[m].source \in TokenAccounts
        BY <2>1, <2>2 DEF ChargePaid, MandateAccount
      <3>5. token' \in [TokenAccounts -> TokenAccount(Mandates)]
        BY <2>1, <2>2, <3>4, TransferType DEF ChargePaid, TypeOK
      <3>6. [nonce |-> nonce, amount |-> amount, destination |-> dst] \in Payment
        BY <2>1 DEF Payment
      <3>7. paid' \in [Mandates -> Seq(Payment)]
        BY <2>2, <3>6 DEF ChargePaid, TypeOK
      <3> QED
        BY <1>2, <3>1, <3>3, <3>5, <3>7 DEF Charge, TypeOK
    <2>3. CASE ChargeRefused(m, dst, amount, nonce)
      <3> DEFINE reason == Evaluate(m, mandate[m], token, dst, amount, nonce, now)
                 suggested == SuggestedOverride(Refused(mandate[m], reason), reason, amount)
      <3>1. mandate' \in [Mandates -> MandateAccount \union {NoMandate}]
        BY <2>1, <2>3, RefusedType DEF ChargeRefused, TypeOK
      <3>2. suggested \in Nat
        BY <2>1 DEF SuggestedOverride
      <3>3. MkEntry("REFUSED", amount, dst, nonce, suggested, reason) \in Entry
        BY <2>1, <3>2, EvaluateType DEF MkEntry, Entry, Kinds
      <3>4. ledger' \in [Mandates -> Ring(Entry)]
        BY <2>3, <3>3, RecordType DEF ChargeRefused, TypeOK
      <3> QED
        BY <1>2, <2>3, <3>1, <3>4 DEF Charge, ChargeRefused, TypeOK
    <2> QED
      BY <1>2, <2>2, <2>3 DEF Charge
  <1>3. ASSUME NEW m \in Mandates, NEW signer \in Wallets, NEW amount \in Amounts,
               NEW nonce \in Nonces, GrantOverride(m, signer, amount, nonce)
        PROVE  TypeOK'
    <2>1. amount \in Nat /\ nonce \in Nat /\ mandate[m] \in MandateAccount
      BY <1>3, LiveType DEF GrantOverride
    <2>2. mandate' \in [Mandates -> MandateAccount \union {NoMandate}]
      BY <1>3, <2>1 DEF GrantOverride, Granted, TypeOK, MandateAccount
    <2>3. MkEntry("OVERRIDE", amount, mandate[m].merchant, nonce, amount, "OK") \in Entry
      BY <2>1 DEF MkEntry, Entry, Kinds, Reasons, MandateAccount
    <2>4. ledger' \in [Mandates -> Ring(Entry)]
      BY <1>3, <2>3, RecordType DEF GrantOverride, TypeOK
    <2> QED
      BY <1>3, <2>2, <2>4 DEF GrantOverride, TypeOK
  <1>4. ASSUME NEW m \in Mandates, NEW signer \in Wallets, RevokeMandate(m, signer)
        PROVE  TypeOK'
    <2>1. mandate[m] \in MandateAccount
      BY <1>4, LiveType DEF RevokeMandate, CanRevokeMandate, Live
    <2>2. mandate' \in [Mandates -> MandateAccount \union {NoMandate}]
      BY <1>4, <2>1 DEF RevokeMandate, TypeOK, MandateAccount, Statuses
    <2>3. MkEntry("REVOKED", 0, mandate[m].merchant, 0, 0, "OK") \in Entry
      BY <2>1 DEF MkEntry, Entry, Kinds, Reasons, MandateAccount
    <2>4. ledger' \in [Mandates -> Ring(Entry)]
      BY <1>4, <2>3, RecordType DEF RevokeMandate, TypeOK
    <2>5. token' \in [TokenAccounts -> TokenAccount(Mandates)]
      <3>1. mandate[m].source \in TokenAccounts /\ 0 \in Nat
        BY <2>1 DEF MandateAccount
      <3> QED
        BY <1>4, <3>1, ApproveType DEF RevokeMandate, TypeOK
    <2> QED
      BY <1>4, <2>2, <2>4, <2>5 DEF RevokeMandate, TypeOK
  <1>5. ASSUME NEW m \in Mandates, NEW signer \in Wallets, CloseMandate(m, signer)
        PROVE  TypeOK'
    BY <1>5, EmptyRingType DEF CloseMandate, TypeOK
  <1>6. ASSUME NEW acc \in TokenAccounts, NEW key \in Mandates, NEW amount \in Amounts,
               DirectApprove(acc, key, amount)
        PROVE  TypeOK'
    BY <1>6, ApproveType DEF DirectApprove, TypeOK
  <1>7. ASSUME NEW acc \in TokenAccounts, DirectRevoke(acc) PROVE TypeOK'
    <2>1. token' \in [TokenAccounts -> TokenAccount(Mandates)]
      BY <1>7, ZenonT(40) DEF DirectRevoke, Revoke, TypeOK, TokenAccount
    <2> QED
      BY <1>7, <2>1 DEF DirectRevoke, TypeOK
  <1>8. ASSUME NEW acc \in TokenAccounts, NEW dst \in TokenAccounts, NEW amount \in Amounts,
               DirectTransfer(acc, dst, amount)
        PROVE  TypeOK'
    BY <1>8, DirectTransferType DEF DirectTransfer, TypeOK
  <1>9. ASSUME NEW acc \in TokenAccounts, FreezeOrThaw(acc) PROVE TypeOK'
    BY <1>9 DEF FreezeOrThaw, TypeOK, TokenAccount
  <1>10. CASE Tick
    BY <1>10 DEF Tick, TypeOK
  <1>11. CASE UNCHANGED vars
    BY <1>11 DEF vars, TypeOK
  <1> QED
    BY <1>1, <1>2, <1>3, <1>4, <1>5, <1>6, <1>7, <1>8, <1>9, <1>10, <1>11 DEF Next

\* The initial states are type correct.
LEMMA InitType == Init => TypeOK
  <1> SUFFICES ASSUME Init PROVE TypeOK
    OBVIOUS
  <1>1. \A b \in Balances : FreshAccount(b) \in TokenAccount(Mandates)
    BY MandateAssumption DEF TokenAccount, FreshAccount
  <1>2. token \in [TokenAccounts -> TokenAccount(Mandates)]
    BY <1>1 DEF Init
  <1>3. ledger \in [Mandates -> Ring(Entry)]
    BY EmptyRingType DEF Init
  <1> QED
    BY <1>2, <1>3, MandateAssumption DEF Init, TypeOK

\* Type correctness: in every behaviour every account holds what its layout says, and a
\* live address a complete account.
THEOREM TypeCorrect == Spec => []TypeOK
  BY InitType, TypeStep, PTL DEF Spec

-----------------------------------------------------------------------------
(* The spending limit. ActiveHasBudget and NoncePaidOnce are inductive     *)
(* together with the type invariant; only a payment touches what they      *)
(* speak of, and opening or closing resets it.                             *)

SpendingInv == TypeOK /\ ActiveHasBudget /\ NoncePaidOnce

\* The fields of the account after a payment.
LEMMA SettledFields ==
    ASSUME NEW md \in MandateAccount, NEW amount \in Nat, NEW nonce \in Nat
    PROVE  LET s == Settled(md, amount, nonce) IN
           /\ s.spent = md.spent + amount
           /\ s.cap = md.cap
           /\ s.last_nonce = nonce
           /\ s.status = StatusAfter(md, md.spent + amount)
           /\ s.source = md.source
           /\ s.merchant = md.merchant
  BY DEF Settled, SettledWith, MandateAccount

\* What evaluate has checked when it accepts a charge.
LEMMA AcceptedCharge ==
    ASSUME NEW m, NEW md, NEW tok, NEW dst, NEW amount \in Nat, NEW nonce, NEW t,
           Evaluate(m, md, tok, dst, amount, nonce, t) = "OK"
    PROVE  /\ md.status = "ACTIVE" /\ ~(t >= md.expires_at)
           /\ amount > 0
           /\ ~(nonce <= md.last_nonce)
           /\ HolderOf[dst] = md.merchant
           /\ ~(amount > EffectivePerTxMax(md, nonce))
           /\ ~(md.spent + amount > md.cap)
           /\ tok[md.source].delegate = m
           /\ ~(tok[md.source].delegated < amount) /\ ~(tok[md.source].amount < amount)
           /\ ~tok[md.source].frozen /\ ~tok[dst].frozen
  BY DEF Evaluate, StaleNonce, MerchantNotAllowed, OverCap, InsufficientFunds, AccountFrozen

\* A step that leaves every mandate's spending and payments alone.
LEMMA SpendingFrame ==
    ASSUME SpendingInv, TypeOK', UNCHANGED paid,
           \A m \in Mandates :
               /\ mandate'[m].spent = mandate[m].spent
               /\ mandate'[m].cap = mandate[m].cap
               /\ mandate'[m].last_nonce = mandate[m].last_nonce
               /\ mandate'[m].status = "ACTIVE" => mandate[m].status = "ACTIVE"
    PROVE  SpendingInv'
  BY DEF SpendingInv, ActiveHasBudget, NoncePaidOnce

\* What appending to a sequence does.
LEMMA AppendFacts ==
    ASSUME NEW S, NEW s \in Seq(S), NEW e \in S
    PROVE  /\ DOMAIN s = 1 .. Len(s) /\ Len(s) \in Nat
           /\ DOMAIN Append(s, e) = 1 .. Len(s) + 1
           /\ Append(s, e)[Len(s) + 1] = e
           /\ \A i \in 1 .. Len(s) : Append(s, e)[i] = s[i] /\ s[i] \in S
  OBVIOUS

\* Every instruction, outside step and move of the clock keeps spending within the cap and
\* the paid nonces in order.
LEMMA SpendingStep == SpendingInv /\ [Next]_vars => SpendingInv'
  <1> SUFFICES ASSUME SpendingInv, [Next]_vars PROVE SpendingInv'
    OBVIOUS
  <1> USE MandateAssumption
  <1>0. TypeOK /\ TypeOK'
    BY TypeStep DEF SpendingInv
  <1>1. ASSUME NEW m \in Mandates, NEW args \in Terms, OpenMandate(m, args)
        PROVE  SpendingInv'
    <2>1. /\ mandate'[m].spent = 0 /\ mandate'[m].cap = args.cap /\ args.cap > 0
          /\ args.cap \in Nat /\ paid'[m] = <<>>
      BY <1>0, <1>1 DEF OpenMandate, TypeOK, OpenMandateArgs
    <2>2. \A n \in Mandates \ {m} : mandate'[n] = mandate[n] /\ paid'[n] = paid[n]
      BY <1>0, <1>1 DEF OpenMandate, TypeOK
    <2> QED
      BY <1>0, <2>1, <2>2 DEF SpendingInv, ActiveHasBudget, NoncePaidOnce
  <1>2. ASSUME NEW m \in Mandates, NEW signer \in Wallets, NEW dst \in TokenAccounts,
               NEW amount \in Amounts, NEW nonce \in Nonces,
               Charge(m, signer, dst, amount, nonce)
        PROVE  SpendingInv'
    <2>1. amount \in Nat /\ nonce \in Nat /\ mandate[m] \in MandateAccount
      BY <1>0, <1>2, LiveType DEF Charge
    <2>2. CASE ChargePaid(m, dst, amount, nonce)
      <3> DEFINE md == mandate[m]
                 p == [nonce |-> nonce, amount |-> amount, destination |-> dst]
                 k == Len(paid[m])
      <3>1. /\ ~(nonce <= md.last_nonce)
            /\ ~(md.spent + amount > md.cap)
        BY <2>1, <2>2, AcceptedCharge DEF ChargePaid
      <3>2. /\ mandate'[m].spent = md.spent + amount
            /\ mandate'[m].cap = md.cap
            /\ mandate'[m].last_nonce = nonce
            /\ mandate'[m].status = StatusAfter(md, md.spent + amount)
        BY <1>0, <2>1, <2>2, SettledFields DEF ChargePaid, TypeOK
      <3>3. paid[m] \in Seq(Payment) /\ paid'[m] = Append(paid[m], p)
        BY <1>0, <2>2 DEF ChargePaid, TypeOK
      <3>4. \A n \in Mandates \ {m} : mandate'[n] = mandate[n] /\ paid'[n] = paid[n]
        BY <1>0, <2>2 DEF ChargePaid, TypeOK
      <3>5. ActiveHasBudget'
        BY <2>1, <3>1, <3>2, <3>4 DEF SpendingInv, ActiveHasBudget, StatusAfter, MandateAccount
      <3>6. /\ DOMAIN paid[m] = 1 .. k /\ DOMAIN paid'[m] = 1 .. k + 1 /\ k \in Nat
            /\ paid'[m][k + 1].nonce = nonce
            /\ \A i \in 1 .. k : paid'[m][i] = paid[m][i] /\ paid[m][i].nonce \in Nat
        <4>1. p \in Payment /\ p.nonce = nonce
          BY <2>1 DEF Payment
        <4> HIDE DEF p
        <4>2. /\ DOMAIN paid[m] = 1 .. k /\ DOMAIN paid'[m] = 1 .. k + 1 /\ k \in Nat
              /\ paid'[m][k + 1] = p
              /\ \A i \in 1 .. k : paid'[m][i] = paid[m][i] /\ paid[m][i] \in Payment
          BY <3>3, <4>1, AppendFacts
        <4> QED
          BY <4>1, <4>2 DEF Payment
      <3>7. \A j \in 1 .. k :
               /\ paid[m][j].nonce <= md.last_nonce
               /\ \A i \in 1 .. j - 1 : paid[m][i].nonce < paid[m][j].nonce
        BY <3>6 DEF SpendingInv, NoncePaidOnce
      <3>8. \A j \in 1 .. k + 1 :
               /\ paid'[m][j].nonce <= nonce
               /\ \A i \in 1 .. j - 1 : paid'[m][i].nonce < paid'[m][j].nonce
        <4>1. md.last_nonce \in Nat /\ md.last_nonce < nonce
          BY <2>1, <3>1 DEF MandateAccount
        <4> HIDE DEF md, k
        <4>2. ASSUME NEW j \in 1 .. k
              PROVE  /\ paid'[m][j].nonce <= nonce
                     /\ \A i \in 1 .. j - 1 : paid'[m][i].nonce < paid'[m][j].nonce
          <5>1. \A i \in 1 .. j - 1 : i \in 1 .. k
            BY <3>6
          <5>2. paid'[m][j] = paid[m][j] /\ paid[m][j].nonce <= md.last_nonce
            BY <3>6, <3>7
          <5>3. paid'[m][j].nonce <= nonce
            BY <2>1, <3>6, <4>1, <5>2
          <5>4. ASSUME NEW i \in 1 .. j - 1 PROVE paid'[m][i].nonce < paid'[m][j].nonce
            <6>1. paid'[m][i] = paid[m][i]
              BY <3>6, <5>1
            <6> QED
              BY <3>7, <5>2, <6>1
          <5> QED
            BY <5>3, <5>4
        <4>3. \A i \in 1 .. k : paid'[m][i].nonce < nonce
          BY <2>1, <3>6, <3>7, <4>1, SMTT(30)
        <4> QED
          BY <2>1, <3>6, <4>2, <4>3
      <3>9. NoncePaidOnce'
        BY <3>2, <3>4, <3>6, <3>8 DEF SpendingInv, NoncePaidOnce
      <3> QED
        BY <1>0, <3>5, <3>9 DEF SpendingInv
    <2>3. CASE ChargeRefused(m, dst, amount, nonce)
      BY <1>0, <2>1, <2>3, SpendingFrame DEF ChargeRefused, Refused, TypeOK, MandateAccount
    <2> QED
      BY <1>2, <2>2, <2>3 DEF Charge
  <1>3. ASSUME NEW m \in Mandates, NEW signer \in Wallets, NEW amount \in Amounts,
               NEW nonce \in Nonces, GrantOverride(m, signer, amount, nonce)
        PROVE  SpendingInv'
    BY <1>0, <1>3, SpendingFrame DEF GrantOverride, Granted, TypeOK, MandateAccount, NoMandate
  <1>4. ASSUME NEW m \in Mandates, NEW signer \in Wallets, RevokeMandate(m, signer)
        PROVE  SpendingInv'
    BY <1>0, <1>4, SpendingFrame DEF RevokeMandate, TypeOK, MandateAccount, NoMandate
  <1>5. ASSUME NEW m \in Mandates, NEW signer \in Wallets, CloseMandate(m, signer)
        PROVE  SpendingInv'
    <2>1. mandate'[m] = NoMandate /\ paid'[m] = <<>>
      BY <1>0, <1>5 DEF CloseMandate, TypeOK
    <2>2. \A n \in Mandates \ {m} : mandate'[n] = mandate[n] /\ paid'[n] = paid[n]
      BY <1>0, <1>5 DEF CloseMandate, TypeOK
    <2> QED
      BY <1>0, <2>1, <2>2 DEF SpendingInv, ActiveHasBudget, NoncePaidOnce, NoMandate
  <1>6. CASE UNCHANGED <<mandate, paid>>
    BY <1>0, <1>6, SpendingFrame
  <1>7. \/ \E m \in Mandates, args \in Terms : OpenMandate(m, args)
        \/ \E m \in Mandates, signer \in Wallets, dst \in TokenAccounts,
              amount \in Amounts, nonce \in Nonces : Charge(m, signer, dst, amount, nonce)
        \/ \E m \in Mandates, signer \in Wallets, amount \in Amounts, nonce \in Nonces :
              GrantOverride(m, signer, amount, nonce)
        \/ \E m \in Mandates, signer \in Wallets : RevokeMandate(m, signer)
        \/ \E m \in Mandates, signer \in Wallets : CloseMandate(m, signer)
        \/ UNCHANGED <<mandate, paid>>
    BY DEF Next, DirectApprove, DirectRevoke, DirectTransfer, FreezeOrThaw, Tick, vars
  <1> QED
    BY <1>1, <1>2, <1>3, <1>4, <1>5, <1>6, <1>7

\* It holds initially.
LEMMA InitSpending == Init => SpendingInv
  <1> SUFFICES ASSUME Init PROVE SpendingInv
    OBVIOUS
  <1>1. TypeOK
    BY InitType
  <1> QED
    BY <1>1 DEF Init, SpendingInv, ActiveHasBudget, NoncePaidOnce, NoMandate

\* The total cap is absolute: in every behaviour, for every mandate, spent stays within
\* cap and strictly below it while the mandate is active, whatever is charged, granted,
\* revoked, reopened or done to the token accounts.
THEOREM CapIsAbsolute == Spec => []ActiveHasBudget
  <1>1. Init => SpendingInv
    BY InitSpending
  <1>2. SpendingInv => ActiveHasBudget
    BY DEF SpendingInv
  <1> QED
    BY <1>1, <1>2, SpendingStep, PTL DEF Spec

\* No settled charge is ever paid again while its mandate lives.
THEOREM NoReplay == Spec => []NoncePaidOnce
  <1>1. Init => SpendingInv
    BY InitSpending
  <1>2. SpendingInv => NoncePaidOnce
    BY DEF SpendingInv
  <1> QED
    BY <1>1, <1>2, SpendingStep, PTL DEF Spec

-----------------------------------------------------------------------------
(* A decision is never lost                                                *)

\* evaluate checks everything the token program would: an accepted charge always goes
\* through, so no decision is rolled back with a failed transfer.
THEOREM NoDecisionIsLost == Spec => []EveryChargeIsDecided
  <1>1. TypeOK => EveryChargeIsDecided
    <2> SUFFICES ASSUME TypeOK, NEW m \in Mandates, NEW dst \in TokenAccounts,
                        NEW amount \in Amounts, NEW nonce \in Nonces, Live(m),
                        Evaluate(m, mandate[m], token, dst, amount, nonce, now) = "OK"
                 PROVE  CanTransfer(token, mandate[m].source, dst, m, amount)
      BY DEF EveryChargeIsDecided
    <2> DEFINE src == mandate[m].source
    <2>1. amount \in Nat /\ src \in TokenAccounts
      BY LiveType, MandateAssumption DEF MandateAccount
    <2>2. token[src].amount \in Nat /\ token[src].delegated \in Nat
      BY <2>1 DEF TypeOK, TokenAccount
    <2>3. /\ token[src].delegate = m
          /\ ~(token[src].delegated < amount) /\ ~(token[src].amount < amount)
          /\ ~token[src].frozen /\ ~token[dst].frozen
      BY <2>1, AcceptedCharge
    <2> QED
      BY <2>1, <2>2, <2>3 DEF CanTransfer
  <1> QED
    BY <1>1, TypeCorrect, PTL

\* Every suggestion the ledger records can be acted on: the owner can grant it, and the
\* rules of the mandate then let the charge through.
THEOREM SuggestionsAreGood == Spec => []SuggestionIsGrantable
  <1>1. TypeOK => SuggestionIsGrantable
    <2> SUFFICES ASSUME TypeOK, NEW m \in Mandates, NEW dst \in TokenAccounts,
                        NEW amount \in Amounts, NEW nonce \in Nonces, Live(m),
                        SuggestedOverride(mandate[m],
                            Evaluate(m, mandate[m], token, dst, amount, nonce, now),
                            amount) > 0
                 PROVE  /\ CanGrant(mandate[m], amount, nonce)
                        /\ Evaluate(m, Granted(mandate[m], amount, nonce), token, dst,
                                    amount, nonce, now)
                               \in {"OK", "DELEGATE_MISSING", "INSUFFICIENT_FUNDS",
                                    "ACCOUNT_FROZEN"}
      BY DEF SuggestionIsGrantable, SuggestedOverride
    <2> DEFINE md == mandate[m]
               g == Granted(md, amount, nonce)
    <2>1. amount \in Nat /\ nonce \in Nat /\ md \in MandateAccount
      BY LiveType, MandateAssumption
    <2>2. /\ Evaluate(m, md, token, dst, amount, nonce, now) = "OVER_PER_TX_MAX"
          /\ amount <= Remaining(md) /\ amount > 0
      BY <2>1 DEF SuggestedOverride
    <2>3. /\ md.status = "ACTIVE" /\ ~(now >= md.expires_at) /\ ~(nonce <= md.last_nonce)
          /\ ~MerchantNotAllowed(md, dst)
      BY <2>2 DEF Evaluate, StaleNonce
    <2>4. CanGrant(md, amount, nonce)
      BY <2>1, <2>2, <2>3 DEF CanGrant, MandateAccount
    <2>5. /\ g.status = md.status /\ g.expires_at = md.expires_at
          /\ g.last_nonce = md.last_nonce /\ g.merchant = md.merchant
          /\ g.spent = md.spent /\ g.cap = md.cap /\ g.per_tx_max = md.per_tx_max
          /\ g.override_nonce = nonce /\ g.override_amount = amount
      BY <2>1 DEF Granted, MandateAccount
    <2>6. ~(amount > EffectivePerTxMax(g, nonce))
      BY <2>1, <2>4, <2>5 DEF EffectivePerTxMax, Max2, CanGrant, MandateAccount
    <2>7. ~OverCap(g, amount)
      BY <2>1, <2>2, <2>5 DEF OverCap, Remaining, MandateAccount
    <2>8. ~StaleNonce(g, nonce) /\ ~MerchantNotAllowed(g, dst) /\ amount # 0
      BY <2>1, <2>2, <2>3, <2>5 DEF StaleNonce, MerchantNotAllowed
    <2>9. g.status = "ACTIVE" /\ ~(now >= g.expires_at)
      BY <2>3, <2>5
    <2> HIDE DEF g
    <2>10. Evaluate(m, g, token, dst, amount, nonce, now)
               \in {"OK", "DELEGATE_MISSING", "INSUFFICIENT_FUNDS", "ACCOUNT_FROZEN"}
      BY <2>6, <2>7, <2>8, <2>9 DEF Evaluate
    <2> QED
      BY <2>4, <2>10 DEF g
  <1> QED
    BY <1>1, TypeCorrect, PTL

-----------------------------------------------------------------------------
(* What mandates do to the token accounts: only a payment within the terms *)
(* moves tokens, and the SPL delegation stays a second ceiling that agrees *)
(* with the cap. DelegationInv is inductive because a source always        *)
(* belongs to the mandate's owner: only a payment to the owner herself can *)
(* come back into it and leave more delegated than remains.                *)

-----------------------------------------------------------------------------
(* Payments                                                                *)

\* Spending rises in the paid arm of charge only.
LEMMA OnlyPaymentsSpend ==
    ASSUME TypeOK, [Next]_vars, NEW m \in Mandates, mandate'[m].spent - mandate[m].spent > 0
    PROVE  \E dst \in TokenAccounts, amount \in Amounts, nonce \in Nonces :
               Live(m) /\ ChargePaid(m, dst, amount, nonce)
  <1> USE MandateAssumption
  <1> DEFINE Rises == mandate'[m].spent > mandate[m].spent
  <1>0. mandate[m].spent \in Nat
    BY DEF TypeOK, MandateAccount, NoMandate
  <1>1. ASSUME NEW n \in Mandates, NEW args \in Terms, OpenMandate(n, args) PROVE ~Rises
    BY <1>0, <1>1 DEF OpenMandate, TypeOK
  <1>2. ASSUME NEW n \in Mandates, NEW dst \in TokenAccounts, NEW amount \in Amounts,
               NEW nonce \in Nonces, ChargeRefused(n, dst, amount, nonce)
        PROVE  ~Rises
    BY <1>0, <1>2 DEF ChargeRefused, Refused, TypeOK, MandateAccount, NoMandate
  <1>3. ASSUME NEW n \in Mandates, n # m, NEW dst \in TokenAccounts, NEW amount \in Amounts,
               NEW nonce \in Nonces, ChargePaid(n, dst, amount, nonce)
        PROVE  ~Rises
    BY <1>0, <1>3 DEF ChargePaid, TypeOK
  <1>4. ASSUME NEW n \in Mandates, NEW signer \in Wallets, NEW amount \in Amounts,
               NEW nonce \in Nonces, GrantOverride(n, signer, amount, nonce)
        PROVE  ~Rises
    BY <1>0, <1>4 DEF GrantOverride, Granted, TypeOK, MandateAccount, NoMandate
  <1>5. ASSUME NEW n \in Mandates, NEW signer \in Wallets, RevokeMandate(n, signer)
        PROVE  ~Rises
    BY <1>0, <1>5 DEF RevokeMandate, TypeOK, MandateAccount, NoMandate
  <1>6. ASSUME NEW n \in Mandates, NEW signer \in Wallets, CloseMandate(n, signer)
        PROVE  ~Rises
    BY <1>0, <1>6 DEF CloseMandate, TypeOK, NoMandate
  <1>7. CASE UNCHANGED mandate
    BY <1>0, <1>7
  <1>8. mandate'[m].spent \in Nat
    BY TypeStep DEF TypeOK, MandateAccount, NoMandate
  <1>9. Rises
    BY <1>0, <1>8
  <1>10. \/ \E n \in Mandates, args \in Terms : OpenMandate(n, args)
         \/ \E n \in Mandates, signer \in Wallets, dst \in TokenAccounts,
              amount \in Amounts, nonce \in Nonces : Charge(n, signer, dst, amount, nonce)
         \/ \E n \in Mandates, signer \in Wallets, amount \in Amounts, nonce \in Nonces :
              GrantOverride(n, signer, amount, nonce)
         \/ \E n \in Mandates, signer \in Wallets : RevokeMandate(n, signer)
         \/ \E n \in Mandates, signer \in Wallets : CloseMandate(n, signer)
         \/ UNCHANGED mandate
    BY DEF Next, DirectApprove, DirectRevoke, DirectTransfer, FreezeOrThaw, Tick, vars
  <1> HIDE DEF Rises
  <1>11. CASE \E n \in Mandates, args \in Terms : OpenMandate(n, args)
    BY <1>1, <1>9, <1>11
  <1>12. CASE \E n \in Mandates, signer \in Wallets, dst \in TokenAccounts,
                amount \in Amounts, nonce \in Nonces : Charge(n, signer, dst, amount, nonce)
    <2>1. PICK n \in Mandates, dst \in TokenAccounts, amount \in Amounts, nonce \in Nonces :
              \/ Live(n) /\ ChargePaid(n, dst, amount, nonce)
              \/ ChargeRefused(n, dst, amount, nonce)
      BY <1>12 DEF Charge
    <2>2. n = m /\ Live(n) /\ ChargePaid(n, dst, amount, nonce)
      BY <1>2, <1>3, <1>9, <2>1
    <2> QED
      BY <2>2
  <1>13. CASE \E n \in Mandates, signer \in Wallets, amount \in Amounts, nonce \in Nonces :
                GrantOverride(n, signer, amount, nonce)
    BY <1>4, <1>9, <1>13
  <1>14. CASE \E n \in Mandates, signer \in Wallets : RevokeMandate(n, signer)
    BY <1>5, <1>9, <1>14
  <1>15. CASE \E n \in Mandates, signer \in Wallets : CloseMandate(n, signer)
    BY <1>6, <1>9, <1>15
  <1>16. CASE UNCHANGED mandate
    BY <1>7, <1>9, <1>16
  <1> QED
    BY <1>10, <1>11, <1>12, <1>13, <1>14, <1>15, <1>16

\* What a payment does to the token accounts.
LEMMA PaymentMoves ==
    ASSUME TypeOK, NEW src \in TokenAccounts, NEW dst \in TokenAccounts, NEW amount \in Nat,
           token' = Transfer(token, src, dst, amount)
    PROVE  /\ \A acc \in TokenAccounts \ {src, dst} : token'[acc] = token[acc]
           /\ dst = src => token' = token
           /\ dst # src =>
                 /\ token'[src].amount = token[src].amount - amount
                 /\ token'[src].delegated = token[src].delegated - amount
                 /\ token'[src].delegate =
                        IF token[src].delegated = amount THEN NoKey ELSE token[src].delegate
                 /\ token'[dst].amount = token[dst].amount + amount
                 /\ token'[dst].delegate = token[dst].delegate
                 /\ token'[dst].delegated = token[dst].delegated
  <1>1. CASE dst = src
    BY <1>1 DEF Transfer
  <1>2. CASE dst # src
    <2>1. /\ \A acc \in TokenAccounts \ {src, dst} : token'[acc] = token[acc]
          /\ token'[src] = Debited(token[src], amount)
          /\ token'[dst] = [token[dst] EXCEPT !.amount = @ + amount]
      BY <1>2 DEF Transfer, TypeOK
    <2> QED
      BY <1>2, <2>1 DEF Debited, TypeOK, TokenAccount
  <1> QED
    BY <1>1, <1>2

\* Spending happens only within the terms (charge): while active, before the expiry, to the
\* merchant, out of the source and of the delegation, and nothing else moves.
THEOREM PaymentsStayWithinTerms == Spec => PaidWithinTerms
  <1> DEFINE Within(m) ==
        LET md == mandate[m]
            amount == mandate'[m].spent - md.spent
        IN amount > 0 =>
            /\ md.status = "ACTIVE" /\ now < md.expires_at
            /\ token[md.source].delegate = m /\ amount <= token[md.source].delegated
            /\ \E dst \in TokenAccounts :
                   /\ HolderOf[dst] = md.merchant
                   /\ \A acc \in TokenAccounts \ {md.source, dst} : token'[acc] = token[acc]
                   /\ IF dst = md.source THEN token' = token
                      ELSE /\ token'[md.source].amount = token[md.source].amount - amount
                           /\ token'[md.source].delegated =
                                  token[md.source].delegated - amount
                           /\ token'[dst].amount = token[dst].amount + amount
  <1>1. ASSUME TypeOK, [Next]_vars, NEW m \in Mandates PROVE Within(m)
    <2> SUFFICES ASSUME mandate'[m].spent - mandate[m].spent > 0 PROVE Within(m)
      OBVIOUS
    <2> USE MandateAssumption
    <2> DEFINE md == mandate[m]
    <2>1. PICK dst \in TokenAccounts, amount \in Amounts, nonce \in Nonces :
              Live(m) /\ ChargePaid(m, dst, amount, nonce)
      BY <1>1, OnlyPaymentsSpend
    <2>2. /\ amount \in Nat /\ nonce \in Nat /\ md \in MandateAccount
          /\ md.source \in TokenAccounts /\ md.spent \in Nat /\ md.expires_at \in Int
          /\ now \in Int
      BY <1>1, <2>1, LiveType DEF MandateAccount, TypeOK
    <2>3. mandate'[m].spent - md.spent = amount
      <3>1. mandate'[m] = Settled(md, amount, nonce)
        BY <1>1, <2>1 DEF ChargePaid, TypeOK
      <3> HIDE DEF md
      <3>2. mandate'[m].spent = md.spent + amount
        BY <2>2, <3>1, SettledFields
      <3> QED
        BY <2>2, <3>2
    <2>4. /\ md.status = "ACTIVE" /\ ~(now >= md.expires_at)
          /\ HolderOf[dst] = md.merchant /\ token[md.source].delegate = m
          /\ ~(token[md.source].delegated < amount)
      BY <2>1, <2>2, AcceptedCharge DEF ChargePaid
    <2>5. token[md.source].delegated \in Nat
      BY <1>1, <2>2 DEF TypeOK, TokenAccount
    <2>6. token' = Transfer(token, md.source, dst, amount)
      BY <2>1 DEF ChargePaid
    <2> HIDE DEF md
    <2>7. /\ \A acc \in TokenAccounts \ {md.source, dst} : token'[acc] = token[acc]
          /\ IF dst = md.source THEN token' = token
             ELSE /\ token'[md.source].amount = token[md.source].amount - amount
                  /\ token'[md.source].delegated = token[md.source].delegated - amount
                  /\ token'[dst].amount = token[dst].amount + amount
      BY <1>1, <2>2, <2>6, PaymentMoves
    <2>8. now < md.expires_at /\ amount <= token[md.source].delegated
      BY <2>2, <2>4, <2>5
    <2> QED
      BY <2>3, <2>4, <2>7, <2>8 DEF md
  <1>2. TypeOK /\ [Next]_vars => [\A m \in Mandates : Within(m)]_vars
    BY <1>1
  <1> QED
    BY <1>2, TypeCorrect, PTL DEF Spec, PaidWithinTerms
-----------------------------------------------------------------------------
(* Delegations                                                             *)

\* What holds of one mandate and the delegation of its source.
DelegationOf(m) ==
    LET md == mandate[m]
        src == token[md.source]
    IN  Live(m) =>
            /\ HolderOf[md.source] = OwnerOf[m]
            /\ "approve" \notin Outside =>
                   /\ md.status = "REVOKED" => src.delegate # m
                   /\ src.delegate = m =>
                         /\ src.delegated >= Remaining(md)
                         /\ md.merchant # OwnerOf[m] => src.delegated = Remaining(md)

DelegationInv == TypeOK /\ \A m \in Mandates : DelegationOf(m)

\* A mandate that a step leaves as it was, except that its delegation may be gone.
LEMMA DelegationFrame ==
    ASSUME NEW m \in Mandates, DelegationOf(m),
           Live(m)' =>
               /\ Live(m)
               /\ mandate'[m].source = mandate[m].source
               /\ mandate'[m].merchant = mandate[m].merchant
               /\ mandate'[m].cap = mandate[m].cap
               /\ mandate'[m].spent = mandate[m].spent
               /\ "approve" \notin Outside =>
                  /\ mandate'[m].status = "REVOKED" =>
                        \/ mandate[m].status = "REVOKED"
                        \/ token'[mandate[m].source].delegate # m
                  /\ token'[mandate[m].source].delegate = m =>
                        /\ token[mandate[m].source].delegate = m
                        /\ token'[mandate[m].source].delegated = token[mandate[m].source].delegated
    PROVE  DelegationOf(m)'
  BY DEF DelegationOf, Remaining

\* A step that leaves the mandates alone, and approves nothing.
LEMMA OutsideFrame ==
    ASSUME DelegationInv, UNCHANGED mandate, TypeOK',
           "approve" \notin Outside =>
               \A acc \in TokenAccounts :
                   \/ token'[acc].delegate = NoKey
                   \/ /\ token'[acc].delegate = token[acc].delegate
                      /\ token'[acc].delegated = token[acc].delegated
    PROVE  DelegationInv'
  <1> USE MandateAssumption
  <1>1. ASSUME NEW m \in Mandates PROVE DelegationOf(m)'
    <2>1. DelegationOf(m) /\ m # NoKey
      BY DEF DelegationInv
    <2>2. Live(m)' => Live(m) /\ mandate[m].source \in TokenAccounts
      BY LiveType DEF DelegationInv, Live, MandateAccount
    <2> QED
      BY <2>1, <2>2, DelegationFrame
  <1> QED
    BY <1>1 DEF DelegationInv

\* A payment keeps the delegations of all mandates in step with their caps.
LEMMA PaymentKeepsDelegations ==
    ASSUME DelegationInv, NEW m \in Mandates, NEW dst \in TokenAccounts, NEW amount \in Amounts,
           NEW nonce \in Nonces, Live(m), ChargePaid(m, dst, amount, nonce), NEW n \in Mandates
    PROVE  DelegationOf(n)'
  <1> USE MandateAssumption
  <1> DEFINE md == mandate[m]
  <1>0. TypeOK /\ DelegationOf(m) /\ DelegationOf(n)
    BY DEF DelegationInv
  <1>1. /\ amount \in Nat /\ nonce \in Nat /\ md \in MandateAccount
        /\ md.source \in TokenAccounts /\ md.spent \in Nat /\ md.cap \in Nat
    BY <1>0, LiveType DEF MandateAccount
  <1>2. /\ md.status = "ACTIVE" /\ amount > 0 /\ ~(md.spent + amount > md.cap)
        /\ HolderOf[dst] = md.merchant /\ token[md.source].delegate = m
    BY <1>1, AcceptedCharge DEF ChargePaid
  <1>3. /\ token[md.source].delegated \in Nat
        /\ token' = Transfer(token, md.source, dst, amount)
        /\ mandate' = [mandate EXCEPT ![m] = Settled(md, amount, nonce)]
    BY <1>0, <1>1 DEF ChargePaid, TypeOK, TokenAccount
  <1>4. CASE n = m
    <2>1. mandate'[m] = Settled(md, amount, nonce)
      BY <1>0, <1>3 DEF TypeOK
    <2> HIDE DEF md
    <2>2. /\ mandate'[m].spent = md.spent + amount /\ mandate'[m].cap = md.cap
          /\ mandate'[m].source = md.source /\ mandate'[m].merchant = md.merchant
          /\ mandate'[m].status = StatusAfter(md, md.spent + amount)
      BY <1>1, <2>1, SettledFields
    <2>3. mandate'[m].status # "REVOKED"
      BY <1>2, <2>2 DEF StatusAfter
    <2>4. /\ Remaining(md) = md.cap - md.spent
          /\ Remaining(mandate'[m]) = Remaining(md) - amount
      BY <1>1, <1>2, <2>2 DEF Remaining
    <2>5. /\ HolderOf[md.source] = OwnerOf[m]
          /\ "approve" \notin Outside =>
                /\ token[md.source].delegated >= Remaining(md)
                /\ md.merchant # OwnerOf[m] => token[md.source].delegated = Remaining(md)
      BY <1>0, <1>2 DEF DelegationOf, md
    <2>6. CASE dst = md.source
      BY <1>0, <1>1, <1>2, <1>3, <1>4, <2>2, <2>3, <2>4, <2>5, <2>6, PaymentMoves
         DEF DelegationOf
    <2>7. CASE dst # md.source
      <3>1. token'[md.source].delegated = token[md.source].delegated - amount
        BY <1>0, <1>1, <1>3, <2>7, PaymentMoves
      <3> QED
        BY <1>1, <1>3, <1>4, <2>2, <2>3, <2>4, <2>5, <3>1 DEF DelegationOf
    <2> QED
      BY <2>6, <2>7
  <1>5. CASE n # m
    <2>1. mandate'[n] = mandate[n]
      BY <1>0, <1>3, <1>5 DEF TypeOK
    <2>2. Live(n) => mandate[n].source \in TokenAccounts
      BY <1>0, LiveType DEF MandateAccount
    <2> DEFINE s == mandate[n].source
    <2>3. ASSUME s \in TokenAccounts, token'[s].delegate = n
          PROVE  token[s].delegate = n /\ token'[s].delegated = token[s].delegated
      <3>1. n # NoKey
        OBVIOUS
      <3>2. CASE dst = md.source
        BY <1>0, <1>1, <1>3, <2>3, <3>2, PaymentMoves
      <3>3. CASE dst # md.source /\ s = md.source
        BY <1>0, <1>1, <1>2, <1>3, <1>5, <2>3, <3>1, <3>3, PaymentMoves
      <3>4. CASE dst # md.source /\ s = dst
        BY <1>0, <1>1, <1>3, <2>3, <3>4, PaymentMoves
      <3>5. CASE s \notin {md.source, dst}
        BY <1>0, <1>1, <1>3, <2>3, <3>5, PaymentMoves
      <3> QED
        BY <3>2, <3>3, <3>4, <3>5
    <2> QED
      BY <1>0, <2>1, <2>2, <2>3, DelegationFrame DEF Live
  <1> QED
    BY <1>4, <1>5

LEMMA DelegationStep == DelegationInv /\ [Next]_vars => DelegationInv'
  <1> SUFFICES ASSUME DelegationInv, [Next]_vars PROVE DelegationInv'
    OBVIOUS
  <1> USE MandateAssumption
  <1>0. TypeOK /\ TypeOK' /\ NoKey \notin Mandates
    BY TypeStep DEF DelegationInv
  <1>1. ASSUME NEW m \in Mandates, NEW args \in Terms, OpenMandate(m, args)
        PROVE  DelegationInv'
    <2> DEFINE s == args.source
    <2>1. s \in TokenAccounts /\ args.cap \in Nat
      BY DEF OpenMandateArgs
    <2>2. /\ token'[s].delegate = m /\ token'[s].delegated = args.cap
          /\ \A acc \in TokenAccounts \ {s} : token'[acc] = token[acc]
      BY <1>0, <1>1, <2>1 DEF OpenMandate, Approve, TypeOK, TokenAccount
    <2>3. DelegationOf(m)'
      <3>1. /\ mandate'[m].source = s /\ mandate'[m].cap = args.cap
            /\ mandate'[m].spent = 0 /\ mandate'[m].status = "ACTIVE"
            /\ HolderOf[s] = OwnerOf[m]
        BY <1>0, <1>1 DEF OpenMandate, TypeOK
      <3>2. Remaining(mandate'[m]) = args.cap
        BY <2>1, <3>1 DEF Remaining
      <3> QED
        BY <2>1, <2>2, <3>1, <3>2 DEF DelegationOf
    <2>4. ASSUME NEW n \in Mandates \ {m} PROVE DelegationOf(n)'
      <3>1. mandate'[n] = mandate[n]
        BY <1>0, <1>1 DEF OpenMandate, TypeOK
      <3>2. Live(n) => mandate[n].source \in TokenAccounts
        BY <1>0, LiveType DEF MandateAccount
      <3>3. DelegationOf(n)
        BY DEF DelegationInv
      <3> QED
        BY <2>2, <3>1, <3>2, <3>3, DelegationFrame DEF Live
    <2> QED
      BY <1>0, <2>3, <2>4 DEF DelegationInv
  <1>2. ASSUME NEW m \in Mandates, NEW signer \in Wallets, NEW dst \in TokenAccounts,
               NEW amount \in Amounts, NEW nonce \in Nonces,
               Charge(m, signer, dst, amount, nonce)
        PROVE  DelegationInv'
    <2>1. CASE ChargePaid(m, dst, amount, nonce)
      BY <1>0, <1>2, <2>1, PaymentKeepsDelegations DEF Charge, DelegationInv
    <2>2. CASE ChargeRefused(m, dst, amount, nonce)
      <3>1. ASSUME NEW n \in Mandates PROVE DelegationOf(n)'
        <4>1. /\ Live(n)' => Live(n)
              /\ mandate'[n].source = mandate[n].source
              /\ mandate'[n].merchant = mandate[n].merchant
              /\ mandate'[n].cap = mandate[n].cap
              /\ mandate'[n].spent = mandate[n].spent
              /\ mandate'[n].status = "REVOKED" => mandate[n].status = "REVOKED"
              /\ token' = token
          <5>1. mandate[m] \in MandateAccount
            BY <1>0, <1>2, LiveType DEF Charge
          <5> QED
            BY <1>0, <1>2, <2>2, <5>1 DEF Charge, ChargeRefused, Refused, TypeOK, MandateAccount, Live
        <4>2. DelegationOf(n)
          BY DEF DelegationInv
        <4> QED
          BY <4>1, <4>2, DelegationFrame
      <3> QED
        BY <1>0, <3>1 DEF DelegationInv
    <2> QED
      BY <1>2, <2>1, <2>2 DEF Charge
  <1>3. ASSUME NEW m \in Mandates, NEW signer \in Wallets, NEW amount \in Amounts,
               NEW nonce \in Nonces, GrantOverride(m, signer, amount, nonce)
        PROVE  DelegationInv'
    <2>1. ASSUME NEW n \in Mandates PROVE DelegationOf(n)'
      <3>1. /\ Live(n)' => Live(n)
            /\ mandate'[n].source = mandate[n].source
            /\ mandate'[n].merchant = mandate[n].merchant
            /\ mandate'[n].cap = mandate[n].cap
            /\ mandate'[n].spent = mandate[n].spent
            /\ mandate'[n].status = mandate[n].status
            /\ token' = token
        <4>1. mandate[m] \in MandateAccount
          BY <1>0, <1>3, LiveType DEF GrantOverride
        <4> QED
          BY <1>0, <1>3, <4>1 DEF GrantOverride, Granted, TypeOK, MandateAccount, Live
      <3>2. DelegationOf(n)
        BY DEF DelegationInv
      <3> QED
        BY <3>1, <3>2, DelegationFrame
    <2> QED
      BY <1>0, <2>1 DEF DelegationInv
  <1>4. ASSUME NEW m \in Mandates, NEW signer \in Wallets, RevokeMandate(m, signer)
        PROVE  DelegationInv'
    <2>0. mandate[m] \in MandateAccount /\ Live(m) /\ mandate[m].source \in TokenAccounts
      BY <1>0, <1>4, LiveType DEF RevokeMandate, CanRevokeMandate, Live, MandateAccount
    <2>1. \A acc \in TokenAccounts :
              IF acc = mandate[m].source THEN token'[acc].delegate = NoKey
              ELSE token'[acc] = token[acc]
      BY <1>0, <1>4, <2>0 DEF RevokeMandate, Revoke, TypeOK, TokenAccount
    <2>2. ASSUME NEW n \in Mandates PROVE DelegationOf(n)'
      <3>1. /\ Live(n)' => Live(n)
            /\ mandate'[n].source = mandate[n].source
            /\ mandate'[n].merchant = mandate[n].merchant
            /\ mandate'[n].cap = mandate[n].cap
            /\ mandate'[n].spent = mandate[n].spent
            /\ n # m => mandate'[n].status = mandate[n].status
        BY <1>0, <1>4, <2>0 DEF RevokeMandate, TypeOK, MandateAccount, Live
      <3>2. DelegationOf(n) /\ n # NoKey
        BY <1>0 DEF DelegationInv
      <3>3. Live(n) => mandate[n].source \in TokenAccounts
        BY <1>0, LiveType DEF MandateAccount
      <3> QED
        BY <2>0, <2>1, <3>1, <3>2, <3>3, DelegationFrame
    <2> QED
      BY <1>0, <2>2 DEF DelegationInv
  <1>5. ASSUME NEW m \in Mandates, NEW signer \in Wallets, CloseMandate(m, signer)
        PROVE  DelegationInv'
    <2>1. ASSUME NEW n \in Mandates PROVE DelegationOf(n)'
      <3>1. (n # m => mandate'[n] = mandate[n]) /\ ~Live(m)' /\ token' = token
        BY <1>0, <1>5 DEF CloseMandate, TypeOK, Live, NoMandate
      <3>2. DelegationOf(n)
        BY DEF DelegationInv
      <3> QED
        BY <3>1, <3>2, DelegationFrame DEF Live
    <2> QED
      BY <1>0, <2>1 DEF DelegationInv
  <1>6. ASSUME NEW acc \in TokenAccounts, NEW key \in Mandates, NEW amount \in Amounts,
               DirectApprove(acc, key, amount)
        PROVE  DelegationInv'
    BY <1>0, <1>6, OutsideFrame DEF DirectApprove
  <1>7. ASSUME NEW acc \in TokenAccounts, DirectRevoke(acc) PROVE DelegationInv'
    BY <1>0, <1>7, OutsideFrame DEF DirectRevoke, Revoke, TypeOK, TokenAccount
  <1>8. ASSUME NEW acc \in TokenAccounts, NEW dst \in TokenAccounts, NEW amount \in Amounts,
               DirectTransfer(acc, dst, amount)
        PROVE  DelegationInv'
    BY <1>0, <1>8, OutsideFrame DEF DirectTransfer, TypeOK, TokenAccount
  <1>9. ASSUME NEW acc \in TokenAccounts, FreezeOrThaw(acc) PROVE DelegationInv'
    BY <1>0, <1>9, OutsideFrame DEF FreezeOrThaw, TypeOK, TokenAccount
  <1>10. CASE UNCHANGED <<mandate, token>>
    BY <1>0, <1>10, OutsideFrame
  <1> QED
    BY <1>1, <1>2, <1>3, <1>4, <1>5, <1>6, <1>7, <1>8, <1>9, <1>10 DEF Next, Tick, vars

\* The SPL delegation follows the mandate it was approved for, in every behaviour of any
\* number of mandates on shared sources: gone with a revocation, and while it lasts equal to
\* what remains of the cap (open_mandate, charge, revoke_mandate).
THEOREM DelegationsFollow == Spec => []DelegationFollowsMandate
  <1>1. Init => DelegationInv
    BY InitType DEF DelegationInv, DelegationOf, Live, Init, NoMandate
  <1>2. DelegationInv => DelegationFollowsMandate
    <2> SUFFICES ASSUME DelegationInv, NEW m \in Mandates
                 PROVE  /\ mandate[m].status = "REVOKED" /\ "approve" \notin Outside =>
                              token[mandate[m].source].delegate # m
                        /\ Live(m) /\ "approve" \notin Outside
                           /\ token[mandate[m].source].delegate = m =>
                               /\ token[mandate[m].source].delegated >= Remaining(mandate[m])
                               /\ mandate[m].merchant # OwnerOf[m] =>
                                     token[mandate[m].source].delegated = Remaining(mandate[m])
      BY DEF DelegationFollowsMandate, RevokedHoldsNoDelegation, DelegationIsBudget
    <2> QED
      BY DEF DelegationInv, DelegationOf, Live
  <1> QED
    BY <1>1, <1>2, DelegationStep, PTL DEF Spec

-----------------------------------------------------------------------------
(* Mandate implements Allowance, for any mandate that is followed, among   *)
(* any others on the same token accounts: the initial states map to the    *)
(* initial state, and every step maps to a step of an allowance or to a    *)
(* stutter. The invariant the mapping needs is SpendingInv: a payment      *)
(* leaves less than before only because spent is within the cap.           *)

\* What the mapping looks at: a step that leaves it alone is a stutter of the allowance.
Seen == <<mandate[Followed], paid[Followed]>>

AllowanceStep == [A!Next]_(A!allowanceVars)

-----------------------------------------------------------------------------
(* The mapping                                                             *)

\* The mapping reads nothing but the mandate followed and its payments.
LEMMA SameSeen == Seen' = Seen => AllowanceStep
  BY DEF Seen, AllowanceStep, A!allowanceVars

\* A step that changes neither spending nor phase is a stutter of the allowance.
LEMMA SamePhase ==
    ASSUME paid'[Followed] = paid[Followed],
           mandate'[Followed].last_nonce = mandate[Followed].last_nonce,
           mandate'[Followed].spent = mandate[Followed].spent,
           mandate'[Followed].cap = mandate[Followed].cap,
           PhaseOf(mandate'[Followed]) = PhaseOf(mandate[Followed])
    PROVE  AllowanceStep
  BY DEF AllowanceStep, A!allowanceVars, Remaining

\* A step that only takes the mandate from active to an end is the end of the allowance.
LEMMA EndsIt ==
    ASSUME paid'[Followed] = paid[Followed],
           mandate'[Followed].last_nonce = mandate[Followed].last_nonce,
           mandate'[Followed].spent = mandate[Followed].spent,
           mandate'[Followed].cap = mandate[Followed].cap,
           PhaseOf(mandate[Followed]) = "active", PhaseOf(mandate'[Followed]) = "ended"
    PROVE  AllowanceStep
  BY DEF AllowanceStep, A!allowanceVars, A!Next, A!End, Remaining

\* No payments, no nonces.
LEMMA NothingPaid == NoncesPaid(<<>>) = {}
  BY DEF NoncesPaid

\* A payment adds its nonce.
LEMMA OneMorePaid ==
    ASSUME NEW payments \in Seq(Payment), NEW p \in Payment
    PROVE  NoncesPaid(Append(payments, p)) = NoncesPaid(payments) \union {p.nonce}
  <1>1. /\ DOMAIN payments = 1 .. Len(payments) /\ Len(payments) \in Nat
        /\ DOMAIN Append(payments, p) = 1 .. Len(payments) + 1
        /\ Append(payments, p)[Len(payments) + 1] = p
        /\ \A i \in 1 .. Len(payments) : Append(payments, p)[i] = payments[i]
    BY AppendFacts
  <1> DEFINE longer == Append(payments, p)
             n == Len(payments)
  <1>2. ASSUME NEW x, x \in NoncesPaid(longer)
        PROVE  x \in NoncesPaid(payments) \union {p.nonce}
    <2>1. PICK i \in DOMAIN longer : x = longer[i].nonce
      BY <1>2 DEF NoncesPaid
    <2>2. CASE i = n + 1
      BY <1>1, <2>1, <2>2
    <2>3. CASE i # n + 1
      <3>1. i \in 1 .. n
        BY <1>1, <2>1, <2>3
      <3> QED
        BY <1>1, <2>1, <3>1 DEF NoncesPaid
    <2> QED
      BY <2>2, <2>3
  <1>3. ASSUME NEW i \in DOMAIN payments
        PROVE  payments[i].nonce \in NoncesPaid(longer)
    <2>1. i \in DOMAIN longer /\ longer[i] = payments[i]
      BY <1>1
    <2> QED
      BY <2>1 DEF NoncesPaid
  <1>4. p.nonce \in NoncesPaid(longer)
    <2>1. n + 1 \in DOMAIN longer
      BY <1>1
    <2> QED
      BY <1>1, <2>1 DEF NoncesPaid
  <1>5. NoncesPaid(payments) \subseteq NoncesPaid(longer)
    BY <1>3 DEF NoncesPaid
  <1> QED
    BY <1>2, <1>4, <1>5

-----------------------------------------------------------------------------
(* Every step is a step of an allowance                                    *)

LEMMA OpenIsOpen ==
    ASSUME SpendingInv, NEW args \in Terms, OpenMandate(Followed, args)
    PROVE  AllowanceStep
  <1> USE MandateAssumption, FollowedAssumption
  <1>1. args.cap \in Nat /\ args.cap > 0
    BY DEF OpenMandate, OpenMandateArgs
  <1>2. /\ mandate'[Followed].last_nonce = 0 /\ mandate'[Followed].spent = 0
        /\ mandate'[Followed].cap = args.cap /\ mandate'[Followed].status = "ACTIVE"
    BY DEF OpenMandate, SpendingInv, TypeOK
  <1>3. paid'[Followed] = <<>>
    BY DEF OpenMandate, SpendingInv, TypeOK
  <1>4. PhaseOf(mandate[Followed]) = "none" /\ PhaseOf(mandate'[Followed]) = "active"
    BY <1>2 DEF OpenMandate, Live, PhaseOf
  <1>5. Remaining(mandate'[Followed]) \in Nat \ {0}
    BY <1>1, <1>2 DEF Remaining
  <1>6. A!Open
    BY <1>2, <1>3, <1>4, <1>5, NothingPaid DEF A!Open, A!StartOver
  <1> QED
    BY <1>6 DEF AllowanceStep, A!Next

LEMMA PaidIsPay ==
    ASSUME SpendingInv, NEW dst \in TokenAccounts, NEW amount \in Amounts, NEW nonce \in Nonces,
           Live(Followed), ChargePaid(Followed, dst, amount, nonce)
    PROVE  AllowanceStep
  <1> USE MandateAssumption, FollowedAssumption
  <1> DEFINE md == mandate[Followed]
             p == [nonce |-> nonce, amount |-> amount, destination |-> dst]
  <1>1. amount \in Nat /\ nonce \in Nat /\ md \in MandateAccount
    BY LiveType DEF SpendingInv
  <1>2. /\ md.status = "ACTIVE" /\ amount > 0 /\ ~(nonce <= md.last_nonce)
        /\ ~(md.spent + amount > md.cap)
    BY <1>1, AcceptedCharge DEF ChargePaid
  <1>3. /\ mandate'[Followed].spent = md.spent + amount
        /\ mandate'[Followed].cap = md.cap
        /\ mandate'[Followed].last_nonce = nonce
        /\ mandate'[Followed].status = StatusAfter(md, md.spent + amount)
    BY <1>1, SettledFields DEF ChargePaid, SpendingInv, TypeOK
  <1>4. paid[Followed] \in Seq(Payment) /\ paid'[Followed] = Append(paid[Followed], p)
    BY DEF ChargePaid, SpendingInv, TypeOK
  <1>5. NoncesPaid(paid'[Followed]) = NoncesPaid(paid[Followed]) \union {nonce}
    <2>1. p \in Payment /\ p.nonce = nonce
      BY <1>1 DEF Payment
    <2> QED
      BY <1>4, <2>1, OneMorePaid
  <1>6. PhaseOf(md) = "active"
    BY <1>2 DEF PhaseOf
  <1>7. /\ md.spent \in Nat /\ md.cap \in Nat /\ md.last_nonce \in Nat
        /\ md.spent <= md.cap
    BY <1>1 DEF SpendingInv, ActiveHasBudget, MandateAccount
  <1>8. /\ Remaining(md) = md.cap - md.spent
        /\ Remaining(mandate'[Followed]) = md.cap - md.spent - amount
    BY <1>1, <1>2, <1>3, <1>7 DEF Remaining
  <1>9. PhaseOf(mandate'[Followed])
            = IF Remaining(mandate'[Followed]) = 0 THEN "ended" ELSE "active"
    BY <1>1, <1>2, <1>3, <1>7, <1>8 DEF PhaseOf, StatusAfter
  <1>10. A!Pay
    BY <1>1, <1>2, <1>3, <1>5, <1>6, <1>7, <1>8, <1>9 DEF A!Pay, A!Settle
  <1> QED
    BY <1>10 DEF AllowanceStep, A!Next

LEMMA RefusedIsEnd ==
    ASSUME SpendingInv, NEW dst \in TokenAccounts, NEW amount \in Amounts, NEW nonce \in Nonces,
           Live(Followed), ChargeRefused(Followed, dst, amount, nonce)
    PROVE  AllowanceStep
  <1> USE MandateAssumption, FollowedAssumption
  <1> DEFINE md == mandate[Followed]
             reason == Evaluate(Followed, md, token, dst, amount, nonce, now)
  <1>1. md \in MandateAccount
    BY LiveType DEF SpendingInv
  <1>2. /\ mandate'[Followed].spent = md.spent /\ mandate'[Followed].cap = md.cap
        /\ mandate'[Followed].last_nonce = md.last_nonce
        /\ mandate'[Followed].status
               = IF reason = "EXPIRED" /\ md.status = "ACTIVE" THEN "EXPIRED" ELSE md.status
    BY <1>1 DEF ChargeRefused, Refused, SpendingInv, TypeOK, MandateAccount
  <1>3. paid'[Followed] = paid[Followed]
    BY DEF ChargeRefused
  <1>4. CASE reason = "EXPIRED" /\ md.status = "ACTIVE"
    <2>1. PhaseOf(md) = "active" /\ PhaseOf(mandate'[Followed]) = "ended"
      BY <1>2, <1>4 DEF PhaseOf
    <2> QED
      BY <1>2, <1>3, <2>1, EndsIt
  <1>5. CASE ~(reason = "EXPIRED" /\ md.status = "ACTIVE")
    <2>1. PhaseOf(md) = PhaseOf(mandate'[Followed])
      BY <1>2, <1>5 DEF PhaseOf
    <2> QED
      BY <1>2, <1>3, <2>1, SamePhase
  <1> QED
    BY <1>4, <1>5

LEMMA RevokeIsEnd ==
    ASSUME SpendingInv, NEW signer \in Wallets, RevokeMandate(Followed, signer)
    PROVE  AllowanceStep
  <1> USE FollowedAssumption
  <1> DEFINE md == mandate[Followed]
  <1>1. md \in MandateAccount /\ md.status # "NONE"
    BY LiveType DEF SpendingInv, RevokeMandate, CanRevokeMandate, Live
  <1>2. /\ mandate'[Followed].spent = md.spent /\ mandate'[Followed].cap = md.cap
        /\ mandate'[Followed].last_nonce = md.last_nonce
        /\ mandate'[Followed].status = "REVOKED"
    BY <1>1 DEF RevokeMandate, SpendingInv, TypeOK, MandateAccount
  <1>3. paid'[Followed] = paid[Followed] /\ PhaseOf(mandate'[Followed]) = "ended"
    BY <1>2 DEF RevokeMandate, PhaseOf
  <1>4. CASE md.status = "ACTIVE"
    <2>1. PhaseOf(md) = "active"
      BY <1>4 DEF PhaseOf
    <2> QED
      BY <1>2, <1>3, <2>1, EndsIt
  <1>5. CASE md.status # "ACTIVE"
    <2>1. PhaseOf(md) = "ended"
      BY <1>1, <1>5 DEF PhaseOf
    <2> QED
      BY <1>2, <1>3, <2>1, SamePhase
  <1> QED
    BY <1>4, <1>5

LEMMA CloseIsClose ==
    ASSUME SpendingInv, NEW signer \in Wallets, CloseMandate(Followed, signer)
    PROVE  AllowanceStep
  <1> USE FollowedAssumption
  <1>1. mandate'[Followed] = NoMandate /\ paid'[Followed] = <<>>
    BY DEF CloseMandate, SpendingInv, TypeOK
  <1>2. PhaseOf(mandate[Followed]) = "ended" /\ PhaseOf(mandate'[Followed]) = "none"
    BY <1>1 DEF CloseMandate, Live, PhaseOf, NoMandate
  <1>3. Remaining(mandate'[Followed]) = 0 /\ mandate'[Followed].last_nonce = 0
    BY <1>1 DEF Remaining, NoMandate
  <1>4. A!Close
    BY <1>1, <1>2, <1>3, NothingPaid DEF A!Close, A!StartOver
  <1> QED
    BY <1>4 DEF AllowanceStep, A!Next

\* An instruction for another mandate leaves this one alone.
LEMMA OtherMandates ==
    ASSUME SpendingInv, NEW m \in Mandates \ {Followed},
           \/ \E args \in Terms : OpenMandate(m, args)
           \/ \E signer \in Wallets, dst \in TokenAccounts, amount \in Amounts, nonce \in Nonces :
                 Charge(m, signer, dst, amount, nonce)
           \/ \E signer \in Wallets, amount \in Amounts, nonce \in Nonces :
                 GrantOverride(m, signer, amount, nonce)
           \/ \E signer \in Wallets : RevokeMandate(m, signer) \/ CloseMandate(m, signer)
    PROVE  AllowanceStep
  <1> USE FollowedAssumption
  <1> DEFINE Same == mandate'[Followed] = mandate[Followed] /\ paid'[Followed] = paid[Followed]
  <1>1. ASSUME NEW args \in Terms, OpenMandate(m, args) PROVE Same
    BY <1>1 DEF OpenMandate, SpendingInv, TypeOK
  <1>2. ASSUME NEW signer \in Wallets, NEW dst \in TokenAccounts, NEW amount \in Amounts,
               NEW nonce \in Nonces, Charge(m, signer, dst, amount, nonce)
        PROVE  Same
    <2>1. CASE ChargePaid(m, dst, amount, nonce)
      BY <2>1 DEF ChargePaid, SpendingInv, TypeOK
    <2>2. CASE ChargeRefused(m, dst, amount, nonce)
      BY <2>2 DEF ChargeRefused, SpendingInv, TypeOK
    <2> QED
      BY <1>2, <2>1, <2>2 DEF Charge
  <1>3. ASSUME NEW signer \in Wallets, NEW amount \in Amounts, NEW nonce \in Nonces,
               GrantOverride(m, signer, amount, nonce)
        PROVE  Same
    BY <1>3 DEF GrantOverride, SpendingInv, TypeOK
  <1>4. ASSUME NEW signer \in Wallets, RevokeMandate(m, signer) PROVE Same
    BY <1>4 DEF RevokeMandate, SpendingInv, TypeOK
  <1>5. ASSUME NEW signer \in Wallets, CloseMandate(m, signer) PROVE Same
    BY <1>5 DEF CloseMandate, SpendingInv, TypeOK
  <1>6. Same
    BY <1>1, <1>2, <1>3, <1>4, <1>5
  <1> QED
    BY <1>6, SameSeen DEF Seen

LEMMA StepIsAllowed == SpendingInv /\ [Next]_vars => AllowanceStep
  <1> SUFFICES ASSUME SpendingInv, [Next]_vars PROVE AllowanceStep
    OBVIOUS
  <1> USE MandateAssumption, FollowedAssumption
  <1>1. ASSUME NEW m \in Mandates, NEW args \in Terms, OpenMandate(m, args)
        PROVE  AllowanceStep
    BY <1>1, OpenIsOpen, OtherMandates
  <1>2. ASSUME NEW m \in Mandates, NEW signer \in Wallets, NEW dst \in TokenAccounts,
               NEW amount \in Amounts, NEW nonce \in Nonces,
               Charge(m, signer, dst, amount, nonce)
        PROVE  AllowanceStep
    <2>1. CASE m = Followed
      BY <1>2, <2>1, PaidIsPay, RefusedIsEnd DEF Charge
    <2>2. CASE m # Followed
      BY <1>2, <2>2, OtherMandates
    <2> QED
      BY <2>1, <2>2
  <1>3. ASSUME NEW m \in Mandates, NEW signer \in Wallets, NEW amount \in Amounts,
               NEW nonce \in Nonces, GrantOverride(m, signer, amount, nonce)
        PROVE  AllowanceStep
    <2>1. CASE m = Followed
      <3> DEFINE md == mandate[Followed]
      <3>1. md \in MandateAccount
        BY <1>3, <2>1, LiveType DEF SpendingInv, GrantOverride
      <3>2. /\ mandate'[Followed].spent = md.spent /\ mandate'[Followed].cap = md.cap
            /\ mandate'[Followed].last_nonce = md.last_nonce
            /\ mandate'[Followed].status = md.status
        BY <1>3, <2>1, <3>1
           DEF GrantOverride, Granted, SpendingInv, TypeOK, MandateAccount
      <3>3. PhaseOf(mandate'[Followed]) = PhaseOf(md) /\ paid'[Followed] = paid[Followed]
        BY <1>3, <3>2 DEF GrantOverride, PhaseOf
      <3> QED
        BY <3>2, <3>3, SamePhase
    <2>2. CASE m # Followed
      BY <1>3, <2>2, OtherMandates
    <2> QED
      BY <2>1, <2>2
  <1>4. ASSUME NEW m \in Mandates, NEW signer \in Wallets, RevokeMandate(m, signer)
        PROVE  AllowanceStep
    BY <1>4, RevokeIsEnd, OtherMandates
  <1>5. ASSUME NEW m \in Mandates, NEW signer \in Wallets, CloseMandate(m, signer)
        PROVE  AllowanceStep
    BY <1>5, CloseIsClose, OtherMandates
  <1>6. CASE UNCHANGED <<mandate, paid>>
    BY <1>6, SameSeen DEF Seen
  <1>7. \/ \E m \in Mandates, args \in Terms : OpenMandate(m, args)
        \/ \E m \in Mandates, signer \in Wallets, dst \in TokenAccounts,
              amount \in Amounts, nonce \in Nonces : Charge(m, signer, dst, amount, nonce)
        \/ \E m \in Mandates, signer \in Wallets, amount \in Amounts, nonce \in Nonces :
              GrantOverride(m, signer, amount, nonce)
        \/ \E m \in Mandates, signer \in Wallets : RevokeMandate(m, signer)
        \/ \E m \in Mandates, signer \in Wallets : CloseMandate(m, signer)
        \/ UNCHANGED <<mandate, paid>>
    BY DEF Next, DirectApprove, DirectRevoke, DirectTransfer, FreezeOrThaw, Tick, vars
  <1> QED
    BY <1>1, <1>2, <1>3, <1>4, <1>5, <1>6, <1>7

\* A mandate is an allowance (IsAnAllowance), in every behaviour of any number of mandates,
\* owners, token accounts and terms: whatever charges, overrides, revocations, reopened
\* addresses, transfers and freezes happen, it is opened where there is none, paid out of in rising nonces
\* and never beyond what is left, and closed only after its end (lib.rs).
THEOREM MandateIsAnAllowance == Spec => IsAnAllowance
  <1>1. Init => SpendingInv
    BY InitSpending
  <1>2. Init => A!Init
    <2> SUFFICES ASSUME Init PROVE A!Init
      OBVIOUS
    <2>1. mandate[Followed] = NoMandate /\ paid[Followed] = <<>>
      BY FollowedAssumption DEF Init
    <2> QED
      BY <2>1, NothingPaid DEF A!Init, A!NothingSettled, NoMandate, PhaseOf, Remaining
  <1>3. SpendingInv /\ [Next]_vars => [A!Next]_(A!allowanceVars)
    BY StepIsAllowed DEF AllowanceStep
  <1> QED
    BY <1>1, <1>2, <1>3, SpendingStep, PTL DEF Spec, IsAnAllowance, A!Spec

-----------------------------------------------------------------------------
(* What the rows 1 .. n of a record say                                    *)

PaidPart(e) == IF e.kind = "PAID" THEN e.amount ELSE 0

\* What the PAID rows add up to.
PaidSum(rows, n) == Total([i \in 1 .. n |-> PaidPart(rows[i])], 1 .. n)

RefusedRows(rows, n) == {i \in 1 .. n : rows[i].kind = "REFUSED"}

IsEnd(e) == e.kind = "REVOKED" \/ e.reason = "EXPIRED"

NoGrantBefore(rows, i) == \A j \in 1 .. i - 1 : rows[j].kind # "OVERRIDE"

\* The last override before row i is for this nonce and covers this amount.
GrantBefore(rows, i, nonce, amount) ==
    \E j \in 1 .. i - 1 :
        /\ rows[j].kind = "OVERRIDE"
        /\ rows[j].nonce = nonce /\ rows[j].amount >= amount
        /\ \A k \in j + 1 .. i - 1 : rows[k].kind # "OVERRIDE"

\* A reader who sees rows becomes one who sees new: row e was added, and the first d rows
\* were dropped.
Advances(rows, n, new, d, e) ==
    /\ n + 1 - d >= 1
    /\ new[n + 1 - d] = e
    /\ \A i \in 1 .. n - d : new[i] = rows[i + d]

Amounts0(rows, n) == \A i \in 1 .. n : rows[i].kind = "PAID" => rows[i].amount \in Nat

\* What a new row adds to the PAID rows, a dropped one taking nothing but its own amount.
LEMMA PaidSumAdvances ==
    ASSUME NEW rows, NEW n \in Nat, NEW new, NEW d \in {0, 1}, NEW e,
           Advances(rows, n, new, d, e), Amounts0(rows, n),
           e.kind = "PAID" => e.amount \in Nat
    PROVE  /\ PaidSum(rows, n) \in Nat
           /\ PaidSum(new, n + 1 - d) \in Nat
           /\ PaidSum(new, n + 1 - d) <= PaidSum(rows, n) + PaidPart(e)
           /\ d = 0 => PaidSum(new, n + 1) = PaidSum(rows, n) + PaidPart(e)
  <1> DEFINE k == n - d
             f == [i \in 1 .. n |-> PaidPart(rows[i])]
             g == [i \in 1 .. n + 1 - d |-> PaidPart(new[i])]
             p == [i \in 1 .. k |-> i + d]
             D == {i \in 1 .. n : i > d}
  <1>1. /\ k \in Int /\ k + 1 = n + 1 - d /\ k >= 0 /\ k + 1 \in Nat
        /\ 1 .. k \subseteq 1 .. k + 1 /\ k + 1 \in 1 .. k + 1 /\ k + 1 \notin 1 .. k
        /\ 1 .. k + 1 = (1 .. k) \union {k + 1}
    BY DEF Advances
  <1>2. IsFiniteSet(1 .. n) /\ IsFiniteSet(1 .. k) /\ IsFiniteSet(1 .. k + 1) /\ IsFiniteSet(D)
    <2>1. IsFiniteSet(1 .. n)
      BY FS_Interval
    <2>2. IsFiniteSet(1 .. k + 1)
      <3>1. k + 1 \in Int
        BY <1>1
      <3> HIDE DEF k
      <3> QED BY <3>1, FS_Interval
    <2>3. IsFiniteSet(1 .. k)
      <3> HIDE DEF k
      <3> QED BY <1>1, <2>2, FS_Subset
    <2>4. IsFiniteSet(D)
      BY <2>1, FS_Subset
    <2> QED BY <2>1, <2>2, <2>3, <2>4
  <1>3. \A i \in 1 .. n : f[i] \in Nat
    BY DEF Amounts0, PaidPart
  <1>4. /\ g[k + 1] = PaidPart(e) /\ g[k + 1] \in Nat
        /\ \A i \in 1 .. k : i + d \in D /\ g[i] = f[i + d]
        /\ \A i \in 1 .. k : g[i] \in Nat
    BY <1>1, <1>3 DEF Advances, PaidPart
  <1>4a. g[k + 1] \in Int /\ \A i \in 1 .. k : g[i] \in Int
    <2> HIDE DEF g, k
    <2> QED BY <1>1, <1>4
  <1>5. Total(g, 1 .. k + 1) = Total(g, 1 .. k) + g[k + 1]
    <2> HIDE DEF g, k
    <2>1. Total(g, (1 .. k) \union {k + 1}) = Total(g, 1 .. k) + g[k + 1]
      BY <1>1, <1>2, <1>4a, TotalAdd
    <2> QED BY <1>1, <2>1
  <1>6. Total(g, 1 .. k) <= Total(f, D)
    <2>1. \A i \in 1 .. k : g[i] \in Nat /\ p[i] \in D
      <3> HIDE DEF g, f
      <3> QED BY <1>4
    <2>2. \A j \in D : f[j] \in Nat
      BY <1>3
    <2>3. ASSUME NEW j \in D PROVE Total(g, {i \in 1 .. k : p[i] = j}) <= f[j]
      <3> DEFINE G == {i \in 1 .. k : p[i] = j}
      <3>1. j - d \in 1 .. k /\ G = {j - d} /\ (j - d) + d = j
        OBVIOUS
      <3>2. IsFiniteSet(G) /\ j - d \in G /\ G \ {j - d} = {}
        BY <3>1, FS_Singleton
      <3>3. Total(g, G) = g[j - d] + Total(g, {})
        <4>1. \A i \in G : g[i] \in Int
          <5> HIDE DEF g, k, p
          <5> QED BY <1>4a
        <4> HIDE DEF G, g
        <4> QED BY <3>2, <4>1, TotalRemove
      <3>4. g[j - d] = f[j] /\ f[j] \in Nat
        <4> HIDE DEF g, f
        <4> QED BY <1>4, <2>2, <3>1
      <3>5. Total(g, {}) = 0
        BY TotalEmpty
      <3> HIDE DEF G, g, f
      <3> QED BY <3>3, <3>4, <3>5 DEF G
    <2> HIDE DEF f, g, p, D
    <2> QED BY <1>2, <2>1, <2>2, <2>3, TotalGrouped
  <1>7. Total(f, D) <= Total(f, 1 .. n) /\ Total(f, D) \in Nat /\ Total(f, 1 .. n) \in Nat
    <2>1. /\ D \subseteq 1 .. n
          /\ \A i \in D : f[i] <= f[i]
      BY <1>3
    <2> HIDE DEF f, D
    <2> QED BY <1>2, <1>3, <2>1, TotalMonotone
  <1>8. Total(g, 1 .. k) \in Nat
    <2> HIDE DEF g, k
    <2> QED BY <1>2, <1>4, TotalNat
  <1>9. ASSUME d = 0 PROVE Total(g, 1 .. k) = Total(f, 1 .. n)
    <2>1. k = n /\ \A i \in 1 .. n : i + d = i
      BY <1>9
    <2>2. \A i \in 1 .. k : g[i] = f[i]
      <3> HIDE DEF f, g, k
      <3> QED BY <1>4, <2>1
    <2> HIDE DEF f, g, k
    <2> QED BY <1>2, <2>1, <2>2, TotalSame
  <1>10. PaidSum(rows, n) = Total(f, 1 .. n) /\ PaidSum(new, n + 1 - d) = Total(g, 1 .. k + 1)
    BY <1>1 DEF PaidSum
  <1>11. d = 0 => n + 1 - d = n + 1
    OBVIOUS
  <1> HIDE DEF f, g, k, D
  <1> QED
    BY <1>4, <1>5, <1>6, <1>7, <1>8, <1>9, <1>10, <1>11

\* With nothing dropped, a refusal is one more refused row.
LEMMA RefusedAdvances ==
    ASSUME NEW rows, NEW n \in Nat, NEW new, NEW e, Advances(rows, n, new, 0, e)
    PROVE  /\ Cardinality(RefusedRows(rows, n)) \in 0 .. n
           /\ Cardinality(RefusedRows(new, n + 1)) =
                  Cardinality(RefusedRows(rows, n)) + (IF e.kind = "REFUSED" THEN 1 ELSE 0)
  <1> DEFINE R == RefusedRows(rows, n)
             N == RefusedRows(new, n + 1)
  <1>1. n + 1 - 0 = n + 1 /\ n - 0 = n /\ \A i \in 1 .. n : i + 0 = i
    OBVIOUS
  <1>2. new[n + 1] = e /\ \A i \in 1 .. n : new[i] = rows[i]
    BY <1>1 DEF Advances
  <1>3. N = IF e.kind = "REFUSED" THEN R \union {n + 1} ELSE R
    BY <1>2 DEF RefusedRows
  <1>4. IsFiniteSet(1 .. n) /\ Cardinality(1 .. n) = n
    BY FS_Interval
  <1>5. R \subseteq 1 .. n /\ n + 1 \notin R
    BY DEF RefusedRows
  <1>6. IsFiniteSet(R) /\ Cardinality(R) <= n /\ Cardinality(R) \in Nat
    BY <1>4, <1>5, FS_Subset, FS_CardinalityType
  <1>7. Cardinality(R \union {n + 1}) = Cardinality(R) + 1
    BY <1>5, <1>6, FS_AddElement
  <1> HIDE DEF R, N
  <1>8. Cardinality(N) = Cardinality(R) + (IF e.kind = "REFUSED" THEN 1 ELSE 0)
    BY <1>3, <1>6, <1>7
  <1> QED
    BY <1>6, <1>8 DEF R, N

\* The last override before a row that stays is still there, or was dropped.
LEMMA GrantsAdvance ==
    ASSUME NEW rows, NEW n \in Nat, NEW new, NEW d \in {0, 1}, NEW e,
           Advances(rows, n, new, d, e), NEW i \in 1 .. n + 1 - d, NEW nonce, NEW amount
    PROVE  /\ NoGrantBefore(rows, i + d) => NoGrantBefore(new, i)
           /\ GrantBefore(rows, i + d, nonce, amount) =>
                  \/ GrantBefore(new, i, nonce, amount)
                  \/ d = 1 /\ NoGrantBefore(new, i)
  <1>1. \A j \in 1 .. i - 1 : j + d \in 1 .. i + d - 1 /\ new[j] = rows[j + d]
    BY DEF Advances
  <1>2. ASSUME NoGrantBefore(rows, i + d) PROVE NoGrantBefore(new, i)
    BY <1>1, <1>2 DEF NoGrantBefore
  <1>3. ASSUME GrantBefore(rows, i + d, nonce, amount)
        PROVE  \/ GrantBefore(new, i, nonce, amount)
               \/ d = 1 /\ NoGrantBefore(new, i)
    <2>1. PICK j \in 1 .. i + d - 1 :
              /\ rows[j].kind = "OVERRIDE"
              /\ rows[j].nonce = nonce /\ rows[j].amount >= amount
              /\ \A k \in j + 1 .. i + d - 1 : rows[k].kind # "OVERRIDE"
      BY <1>3 DEF GrantBefore
    <2>2. CASE j > d
      <3>1. j - d \in 1 .. i - 1 /\ (j - d) + d = j
        BY <2>2
      <3>2. new[j - d] = rows[j]
        BY <1>1, <3>1
      <3>3. ASSUME NEW k \in (j - d) + 1 .. i - 1 PROVE new[k].kind # "OVERRIDE"
        <4>1. k \in 1 .. i - 1 /\ k + d \in j + 1 .. i + d - 1
          BY <3>1
        <4> QED BY <1>1, <2>1, <4>1
      <3>4. GrantBefore(new, i, nonce, amount)
        BY <2>1, <3>1, <3>2, <3>3 DEF GrantBefore
      <3> QED BY <3>4
    <2>3. CASE ~(j > d)
      <3>1. d = 1 /\ j = 1
        BY <2>3
      <3>2. ASSUME NEW k \in 1 .. i - 1 PROVE new[k].kind # "OVERRIDE"
        <4>1. k + d \in j + 1 .. i + d - 1
          BY <3>1
        <4> QED BY <1>1, <2>1, <4>1
      <3> QED BY <3>1, <3>2 DEF NoGrantBefore
    <2> QED BY <2>2, <2>3
  <1> QED
    BY <1>2, <1>3

-----------------------------------------------------------------------------
(* What the rows say of the account                                        *)

\* Nothing is missing from a ring in which so many entries were recorded.
Whole(total) == total <= LEDGER_CAPACITY

\* The rows against the account: what was paid and refused, the last nonce, ...
TellsTotals(rows, n, total, md) ==
    /\ Amounts0(rows, n)
    /\ PaidSum(rows, n) <= md.spent
    /\ Whole(total) =>
        /\ PaidSum(rows, n) = md.spent
        /\ Cardinality(RefusedRows(rows, n)) = md.refusal_count
        /\ n >= 1 /\ rows[1].kind = "OPENED" /\ rows[1].amount = md.cap

TellsNonce(rows, n, md) ==
    \A i \in 1 .. n :
        rows[i].kind = "PAID" /\ (\A j \in i + 1 .. n : rows[j].kind # "PAID") =>
            rows[i].nonce = md.last_nonce

\* ... which override covers which payment, and the one still to be used, ...
Covered(rows, total, i, nonce, amount) ==
    GrantBefore(rows, i, nonce, amount) \/ (~Whole(total) /\ NoGrantBefore(rows, i))

TellsGrants(rows, n, total, md) ==
    /\ \A i \in 1 .. n :
        rows[i].kind = "PAID" /\ rows[i].amount > md.per_tx_max =>
            Covered(rows, total, i, rows[i].nonce, rows[i].amount)
    /\ md.override_nonce # 0 =>
            Covered(rows, total, n + 1, md.override_nonce, md.override_amount)

\* ... and whether it has ended.
TellsEnd(rows, n, md) ==
    /\ \A i \in 1 .. n : IsEnd(rows[i]) => \A j \in i + 1 .. n : rows[j].kind # "PAID"
    /\ (\E i \in 1 .. n : IsEnd(rows[i])) => md.status # "ACTIVE"

\* What an instruction that writes row e makes of the account md.
Follows(md, e, md1) ==
    /\ md1.cap = md.cap /\ md1.per_tx_max = md.per_tx_max
    /\ md1.spent = md.spent + PaidPart(e)
    /\ md1.refusal_count =
            IF e.kind = "REFUSED" THEN SatInc(md.refusal_count) ELSE md.refusal_count
    /\ md1.last_nonce = IF e.kind = "PAID" THEN e.nonce ELSE md.last_nonce
    /\ e.kind = "PAID" => md.status = "ACTIVE" /\ ~(e.amount > EffectivePerTxMax(md, e.nonce))
    /\ md1.override_nonce # 0 =>
            IF e.kind = "OVERRIDE"
            THEN md1.override_nonce = e.nonce /\ md1.override_amount = e.amount
            ELSE md1.override_nonce = md.override_nonce
                    /\ md1.override_amount = md.override_amount
    /\ md1.status = "ACTIVE" => md.status = "ACTIVE" /\ ~IsEnd(e)

\* A row added by an instruction keeps the totals right, until rows are dropped.
LEMMA TotalsAdvance ==
    ASSUME NEW rows, NEW n \in Nat, NEW new, NEW d \in {0, 1}, NEW e \in Entry,
           NEW md \in MandateAccount, NEW md1 \in MandateAccount,
           NEW total, NEW total1,
           Advances(rows, n, new, d, e), Follows(md, e, md1),
           Whole(total1) => Whole(total) /\ d = 0 /\ n < U32_MAX,
           TellsTotals(rows, n, total, md)
    PROVE  TellsTotals(new, n + 1 - d, total1, md1)
  <1> DEFINE n1 == n + 1 - d
  <1>1. Amounts0(new, n1)
    <2> SUFFICES ASSUME NEW i \in 1 .. n1, new[i].kind = "PAID" PROVE new[i].amount \in Nat
      BY DEF Amounts0
    <2>1. CASE i = n1
      BY <2>1 DEF Advances, Entry
    <2>2. CASE i # n1
      <3>1. i \in 1 .. n - d /\ i + d \in 1 .. n
        BY <2>2
      <3> QED BY <3>1 DEF Advances, TellsTotals, Amounts0
    <2> QED BY <2>1, <2>2
  <1>2. /\ PaidSum(rows, n) \in Nat /\ PaidSum(new, n1) \in Nat
        /\ PaidSum(new, n1) <= PaidSum(rows, n) + PaidPart(e)
        /\ d = 0 => PaidSum(new, n + 1) = PaidSum(rows, n) + PaidPart(e)
    BY PaidSumAdvances DEF TellsTotals, Entry
  <1>3. md.spent \in Nat /\ PaidPart(e) \in Nat /\ md1.spent = md.spent + PaidPart(e)
    BY DEF MandateAccount, PaidPart, Entry, Follows
  <1>4. PaidSum(rows, n) <= md.spent
    BY DEF TellsTotals
  <1>5. PaidSum(new, n1) <= md1.spent
    <2> HIDE DEF n1
    <2> QED BY <1>2, <1>3, <1>4
  <1>6. ASSUME Whole(total1)
        PROVE  /\ PaidSum(new, n1) = md1.spent
               /\ Cardinality(RefusedRows(new, n1)) = md1.refusal_count
               /\ n1 >= 1 /\ new[1].kind = "OPENED" /\ new[1].amount = md1.cap
    <2>1. Whole(total) /\ d = 0 /\ n1 = n + 1 /\ n < U32_MAX
      BY <1>6
    <2>2. /\ PaidSum(rows, n) = md.spent
          /\ Cardinality(RefusedRows(rows, n)) = md.refusal_count
          /\ n >= 1 /\ rows[1].kind = "OPENED" /\ rows[1].amount = md.cap
      BY <2>1 DEF TellsTotals
    <2>3. PaidSum(new, n1) = md1.spent
      BY <1>2, <1>3, <2>1, <2>2
    <2>4. new[1] = rows[1]
      <3>1. 1 \in 1 .. n - 0 /\ 1 + 0 = 1
        BY <2>2
      <3> QED BY <2>1, <3>1 DEF Advances
    <2>5. Cardinality(RefusedRows(new, n1)) = md1.refusal_count
      <3>1. /\ md.refusal_count \in 0 .. n
            /\ Cardinality(RefusedRows(new, n + 1)) =
                   md.refusal_count + (IF e.kind = "REFUSED" THEN 1 ELSE 0)
        BY <2>1, <2>2, RefusedAdvances
      <3>2. md1.refusal_count = md.refusal_count + (IF e.kind = "REFUSED" THEN 1 ELSE 0)
        BY <2>1, <3>1, RingAssumption DEF Follows, SatInc
      <3> QED BY <2>1, <3>1, <3>2
    <2> QED BY <2>1, <2>2, <2>3, <2>4, <2>5 DEF Follows
  <1> QED
    BY <1>1, <1>5, <1>6 DEF TellsTotals

\* So it does the last nonce, ...
LEMMA NonceAdvance ==
    ASSUME NEW rows, NEW n \in Nat, NEW new, NEW d \in {0, 1}, NEW e, NEW md, NEW md1,
           Advances(rows, n, new, d, e), Follows(md, e, md1), TellsNonce(rows, n, md)
    PROVE  TellsNonce(new, n + 1 - d, md1)
  <1> DEFINE n1 == n + 1 - d
  <1> SUFFICES ASSUME NEW i \in 1 .. n1, new[i].kind = "PAID",
                      \A j \in i + 1 .. n1 : new[j].kind # "PAID"
               PROVE  new[i].nonce = md1.last_nonce
    BY DEF TellsNonce
  <1>0. n1 \in Nat /\ new[n1] = e
    BY DEF Advances
  <1>1. CASE i = n1
    BY <1>0, <1>1 DEF Follows
  <1>2. CASE i # n1
    <2>1. i \in 1 .. n - d /\ i + d \in 1 .. n /\ new[i] = rows[i + d] /\ n1 \in i + 1 .. n1
      BY <1>0, <1>2 DEF Advances
    <2>2. e.kind # "PAID"
      BY <1>0, <2>1
    <2>3. ASSUME NEW j \in i + d + 1 .. n PROVE rows[j].kind # "PAID"
      <3>1. j - d \in 1 .. n - d /\ (j - d) + d = j /\ j - d \in i + 1 .. n1
        OBVIOUS
      <3>2. new[j - d] = rows[j]
        BY <3>1 DEF Advances
      <3> QED BY <3>1, <3>2
    <2> QED BY <2>1, <2>2, <2>3 DEF TellsNonce, Follows
  <1> QED
    BY <1>1, <1>2

\* ... and the overrides, ...
LEMMA GrantsTold ==
    ASSUME NEW rows, NEW n \in Nat, NEW new, NEW d \in {0, 1}, NEW e \in Entry,
           NEW md \in MandateAccount, NEW md1 \in MandateAccount,
           NEW total, NEW total1,
           \A i \in 1 .. n : rows[i] \in Entry,
           Advances(rows, n, new, d, e), Follows(md, e, md1),
           Whole(total1) => Whole(total) /\ d = 0,
           TellsGrants(rows, n, total, md)
    PROVE  TellsGrants(new, n + 1 - d, total1, md1)
  <1> DEFINE n1 == n + 1 - d
  <1>0. n1 \in Nat /\ n1 >= 1 /\ new[n1] = e /\ n1 + d = n + 1
    BY DEF Advances
  \* A payment row that stays is covered as it was, or its override was dropped.
  <1>c. ASSUME NEW i \in 1 .. n1, NEW o, NEW a, Covered(rows, total, i + d, o, a)
        PROVE  Covered(new, total1, i, o, a)
    <2>1. CASE GrantBefore(rows, i + d, o, a)
      <3>1. GrantBefore(new, i, o, a) \/ (d = 1 /\ NoGrantBefore(new, i))
        BY <2>1, GrantsAdvance, ZenonT(40)
      <3> QED BY <3>1 DEF Covered
    <2>2. CASE ~Whole(total) /\ NoGrantBefore(rows, i + d)
      <3>1. NoGrantBefore(new, i)
        BY <2>2, GrantsAdvance
      <3> QED BY <2>2, <3>1 DEF Covered
    <2> QED BY <1>c, <2>1, <2>2 DEF Covered
  <1>1. ASSUME NEW i \in 1 .. n1, new[i].kind = "PAID", new[i].amount > md1.per_tx_max
        PROVE  Covered(new, total1, i, new[i].nonce, new[i].amount)
    <2>1. CASE i # n1
      <3>1. i + d \in 1 .. n /\ i + d \in 1 .. n + 1 /\ new[i] = rows[i + d]
        BY <1>0, <2>1 DEF Advances
      <3>2. Covered(rows, total, i + d, rows[i + d].nonce, rows[i + d].amount)
        BY <1>1, <3>1 DEF TellsGrants, Follows
      <3> QED BY <1>c, <3>1, <3>2
    <2>2. CASE i = n1
      <3>1. /\ e.kind = "PAID" /\ e.amount > md.per_tx_max
            /\ ~(e.amount > EffectivePerTxMax(md, e.nonce))
        BY <1>0, <1>1, <2>2 DEF Follows
      <3>2. /\ md.override_nonce # 0 /\ md.override_nonce = e.nonce
            /\ e.amount <= md.override_amount
        BY <3>1 DEF EffectivePerTxMax, Max2, Entry, MandateAccount
      <3>3. Covered(rows, total, n + 1, e.nonce, md.override_amount)
        BY <3>2 DEF TellsGrants
      <3>4. Covered(rows, total, n + 1, e.nonce, e.amount)
        <4>1. CASE GrantBefore(rows, n + 1, e.nonce, md.override_amount)
          <5>1. PICK j \in 1 .. n + 1 - 1 :
                    /\ rows[j].kind = "OVERRIDE"
                    /\ rows[j].nonce = e.nonce /\ rows[j].amount >= md.override_amount
                    /\ \A k \in j + 1 .. n + 1 - 1 : rows[k].kind # "OVERRIDE"
            BY <4>1 DEF GrantBefore
          <5>2. rows[j].amount >= e.amount
            <6>1. rows[j].amount \in Nat /\ md.override_amount \in Nat /\ e.amount \in Nat
              BY <5>1 DEF Entry, MandateAccount
            <6> QED BY <3>2, <5>1, <6>1
          <5> QED BY <5>1, <5>2 DEF Covered, GrantBefore
        <4>2. CASE ~Whole(total) /\ NoGrantBefore(rows, n + 1)
          BY <4>2 DEF Covered
        <4> QED BY <3>3, <4>1, <4>2 DEF Covered
      <3>5. Covered(rows, total, n1 + d, e.nonce, e.amount) /\ n1 \in 1 .. n1
        BY <1>0, <3>4
      <3>6. Covered(new, total1, n1, e.nonce, e.amount)
        <4> HIDE DEF n1
        <4> QED BY <1>c, <3>5
      <3> QED BY <1>0, <2>2, <3>6
    <2> QED BY <2>1, <2>2
  <1>2. ASSUME md1.override_nonce # 0
        PROVE  Covered(new, total1, n1 + 1, md1.override_nonce, md1.override_amount)
    <2>0. n1 \in 1 .. n1 + 1 - 1
      BY <1>0
    <2>1. CASE e.kind = "OVERRIDE"
      <3>1. md1.override_nonce = e.nonce /\ md1.override_amount = e.amount
        BY <1>2, <2>1 DEF Follows
      <3>2. e.amount >= e.amount
        BY DEF Entry
      <3>3. \A k \in n1 + 1 .. n1 + 1 - 1 : new[k].kind # "OVERRIDE"
        BY <1>0
      <3> QED BY <1>0, <2>0, <2>1, <3>1, <3>2, <3>3 DEF Covered, GrantBefore
    <2>2. CASE e.kind # "OVERRIDE"
      <3> DEFINE o == md1.override_nonce
                 a == md1.override_amount
      <3>1. Covered(rows, total, n + 1, o, a)
        BY <1>2, <2>2 DEF Follows, TellsGrants
      <3> HIDE DEF o, a
      <3>2. Covered(new, total1, n1, o, a)
        <4>1. Covered(rows, total, n1 + d, o, a) /\ n1 \in 1 .. n1
          BY <1>0, <3>1
        <4> HIDE DEF n1
        <4> QED BY <1>c, <4>1
      <3>3. \A k \in n1 .. n1 : new[k].kind # "OVERRIDE"
        BY <1>0, <2>2
      <3>4. \A k \in 1 .. n1 + 1 - 1 : k \in 1 .. n1 - 1 \/ k = n1
        BY <1>0
      <3>5. NoGrantBefore(new, n1) => NoGrantBefore(new, n1 + 1)
        BY <1>0, <2>2, <3>4 DEF NoGrantBefore
      <3>6. ASSUME GrantBefore(new, n1, o, a) PROVE GrantBefore(new, n1 + 1, o, a)
        <4>1. PICK j \in 1 .. n1 - 1 :
                  /\ new[j].kind = "OVERRIDE"
                  /\ new[j].nonce = o /\ new[j].amount >= a
                  /\ \A k \in j + 1 .. n1 - 1 : new[k].kind # "OVERRIDE"
          BY <3>6 DEF GrantBefore
        <4>2. j \in 1 .. n1 + 1 - 1
          BY <1>0
        <4>3. ASSUME NEW k \in j + 1 .. n1 + 1 - 1 PROVE new[k].kind # "OVERRIDE"
          <5>1. k \in j + 1 .. n1 - 1 \/ k = n1
            BY <1>0
          <5> QED BY <1>0, <2>2, <4>1, <5>1
        <4> QED BY <4>1, <4>2, <4>3 DEF GrantBefore
      <3>7. Covered(new, total1, n1 + 1, o, a)
        BY <3>2, <3>5, <3>6 DEF Covered
      <3> QED BY <3>7 DEF o, a
    <2> QED BY <2>1, <2>2
  <1> QED
    BY <1>1, <1>2 DEF TellsGrants

\* ... and the end.
LEMMA EndAdvance ==
    ASSUME NEW rows, NEW n \in Nat, NEW new, NEW d \in {0, 1}, NEW e, NEW md, NEW md1,
           Advances(rows, n, new, d, e), Follows(md, e, md1), TellsEnd(rows, n, md)
    PROVE  TellsEnd(new, n + 1 - d, md1)
  <1> DEFINE n1 == n + 1 - d
  <1>0. n1 \in Nat /\ new[n1] = e
    BY DEF Advances
  <1>1. ASSUME NEW i \in 1 .. n1, i # n1
        PROVE  i \in 1 .. n - d /\ i + d \in 1 .. n /\ new[i] = rows[i + d]
    BY <1>1 DEF Advances
  <1>2. ASSUME NEW i \in 1 .. n1, i # n1, IsEnd(new[i]) PROVE md.status # "ACTIVE"
    BY <1>1, <1>2 DEF TellsEnd
  <1>3. ASSUME NEW i \in 1 .. n1, IsEnd(new[i]), NEW j \in i + 1 .. n1
        PROVE  new[j].kind # "PAID"
    <2>1. i # n1 /\ j \in 1 .. n1
      BY <1>0
    <2>2. CASE j = n1
      BY <1>0, <1>2, <1>3, <2>1, <2>2 DEF Follows
    <2>3. CASE j # n1
      <3>1. /\ i + d \in 1 .. n /\ new[i] = rows[i + d]
            /\ j + d \in i + d + 1 .. n /\ new[j] = rows[j + d]
        BY <1>1, <2>1, <2>3
      <3> QED BY <1>3, <3>1 DEF TellsEnd
    <2> QED BY <2>2, <2>3
  <1>4. ASSUME NEW i \in 1 .. n1, IsEnd(new[i]) PROVE md1.status # "ACTIVE"
    <2>1. CASE i = n1
      BY <1>0, <1>4, <2>1 DEF Follows
    <2>2. CASE i # n1
      BY <1>2, <1>4, <2>2 DEF Follows
    <2> QED BY <2>1, <2>2
  <1> QED
    BY <1>3, <1>4 DEF TellsEnd

-----------------------------------------------------------------------------
(* One more row in the ring                                                *)

TellsAll(rows, n, total, md) ==
    /\ \A i \in 1 .. n : rows[i] \in Entry
    /\ TellsTotals(rows, n, total, md)
    /\ TellsNonce(rows, n, md)
    /\ TellsGrants(rows, n, total, md)
    /\ TellsEnd(rows, n, md)

\* What a reader of a ring sees is true of the account it is kept for.
RingTells(r, md) ==
    TellsAll(Decode(r), Occupied(r), r.total, md)

\* The program keeps few enough entries for the count of those written to pass their
\* number (32 slots, a u32 count): a saturated count never reads as a complete ring.
CapacityBelowCount == LEDGER_CAPACITY < U32_MAX

\* Ledger::record, called by an instruction that changes the account accordingly, leaves a
\* ring that tells the truth about it.
LEMMA RecordTells ==
    ASSUME CapacityBelowCount,
           NEW r \in Ring(Entry), FilledInOrder(r), NEW e \in Entry,
           NEW md \in MandateAccount, NEW md1 \in MandateAccount,
           Follows(md, e, md1), RingTells(r, md)
    PROVE  FilledInOrder(Record(r, e)) /\ RingTells(Record(r, e), md1)
  <1> DEFINE s == Record(r, e)
             rows == Decode(r)
             new == Decode(s)
             n == Occupied(r)
             d == Displaced(r)
             total == r.total
             total1 == s.total
  <1>1. /\ n + 1 - d \in Nat \ {0} /\ n + 1 - d = Occupied(s)
        /\ new[n + 1 - d] = e
        /\ \A i \in 1 .. (n + 1 - d) - 1 : i + d \in DOMAIN rows /\ new[i] = rows[i + d]
        /\ FilledInOrder(s)
    BY DecodeRecord
  <1>2. n \in Nat /\ DOMAIN rows = 1 .. n /\ d \in {0, 1}
    BY DecodeSlots DEF Displaced
  <1>3. r.total \in Nat /\ s.total = SatInc(r.total)
    BY RecordFields DEF Ring
  <1>4. Whole(total1) => Whole(total) /\ d = 0 /\ n < U32_MAX
    BY <1>3, RingAssumption DEF SatInc, Displaced, Occupied, CapacityBelowCount, Whole
  <1>5. TellsAll(rows, n, total, md)
    BY DEF RingTells
  <1> HIDE DEF s, rows, new, n, d, total, total1
  <1>6. (n + 1 - d) - 1 = n - d /\ n + 1 - d >= 1
    BY <1>1, <1>2
  <1>7. Advances(rows, n, new, d, e)
    BY <1>1, <1>6 DEF Advances
  <1>8. \A i \in 1 .. n + 1 - d : new[i] \in Entry
    <2>1. \A i \in 1 .. n : rows[i] \in Entry
      BY <1>5 DEF TellsAll
    <2>2. \A i \in 1 .. n + 1 - d : i = n + 1 - d \/ i \in 1 .. (n + 1 - d) - 1
      BY <1>1, <1>2
    <2> QED BY <1>1, <1>2, <2>1, <2>2
  <1>9. TellsTotals(new, n + 1 - d, total1, md1)
    <2>1. TellsTotals(rows, n, total, md)
      BY <1>5 DEF TellsAll
    <2> QED BY <1>2, <1>4, <1>7, <2>1, TotalsAdvance
  <1>10. TellsNonce(new, n + 1 - d, md1)
    BY <1>2, <1>5, <1>7, NonceAdvance DEF TellsAll
  <1>11. TellsGrants(new, n + 1 - d, total1, md1)
    <2>1. TellsGrants(rows, n, total, md) /\ \A i \in 1 .. n : rows[i] \in Entry
      BY <1>5 DEF TellsAll
    <2>2. Whole(total1) => Whole(total) /\ d = 0
      BY <1>4
    <2> QED BY <1>2, <1>7, <2>1, <2>2, GrantsTold
  <1>12. TellsEnd(new, n + 1 - d, md1)
    BY <1>2, <1>5, <1>7, EndAdvance DEF TellsAll
  <1>13. TellsAll(new, n + 1 - d, total1, md1)
    BY <1>8, <1>9, <1>10, <1>11, <1>12 DEF TellsAll
  <1> QED
    BY <1>1, <1>13 DEF RingTells, s, new, total1

\* A new mandate's ring holds the row open_mandate writes, and tells the truth about it.
LEMMA OpenedTells ==
    ASSUME NEW e \in Entry, e.kind = "OPENED", e.reason = "OK",
           NEW md \in MandateAccount, e.amount = md.cap,
           md.spent = 0, md.refusal_count = 0, md.override_nonce = 0
    PROVE  LET r == Record(EmptyRing, e) IN FilledInOrder(r) /\ RingTells(r, md)
  <1> DEFINE o == EmptyRing
             s == Record(o, e)
             new == Decode(s)
  <1>1. o \in Ring(Entry) /\ FilledInOrder(o) /\ o.total = 0
    BY EmptyRingType DEF EmptyRing, FilledInOrder
  <1>2. Occupied(o) = 0 /\ Displaced(o) = 0
    BY <1>1, RingAssumption DEF Occupied, Displaced
  <1> HIDE DEF o
  <1>3. /\ 0 + 1 - 0 = Occupied(s)
        /\ new[0 + 1 - 0] = e
        /\ FilledInOrder(s)
    BY <1>1, <1>2, DecodeRecord
  <1> HIDE DEF s, new
  <1>4. Occupied(s) = 1 /\ new[1] = e /\ \A i \in 1 .. 1 : i = 1
    BY <1>3
  <1>5. PaidSum(new, 1) = 0 /\ Cardinality(RefusedRows(new, 1)) = 0
    <2> DEFINE f == [i \in 1 .. 1 |-> PaidPart(new[i])]
    <2>1. 1 .. 1 = {} \union {1} /\ f[1] = 0 /\ RefusedRows(new, 1) = {}
      BY <1>4 DEF PaidPart, RefusedRows
    <2>2. IsFiniteSet({}) /\ Cardinality({}) = 0
      BY FS_EmptySet
    <2>3. PaidSum(new, 1) = Total(f, 1 .. 1)
      BY DEF PaidSum
    <2> HIDE DEF f
    <2>4. Total(f, {} \union {1}) = Total(f, {}) + f[1]
      <3>1. f[1] \in Int /\ 1 \notin {} /\ \A y \in {} : f[y] \in Int
        BY <2>1
      <3> QED BY <2>2, <3>1, TotalAdd
    <2> QED BY <2>1, <2>2, <2>3, <2>4, TotalEmpty
  <1>6. TellsTotals(new, 1, s.total, md)
    BY <1>4, <1>5 DEF TellsTotals, Amounts0
  <1>7. TellsNonce(new, 1, md)
    BY <1>4 DEF TellsNonce
  <1>8. TellsGrants(new, 1, s.total, md)
    BY <1>4 DEF TellsGrants
  <1>9. TellsEnd(new, 1, md)
    BY <1>4 DEF TellsEnd, IsEnd
  <1>10. TellsAll(new, 1, s.total, md)
    BY <1>4, <1>6, <1>7, <1>8, <1>9 DEF TellsAll
  <1> QED
    BY <1>3, <1>4, <1>10 DEF RingTells, s, new, o

-----------------------------------------------------------------------------
(* The instructions                                                        *)

\* The inductive invariant: every ring is written in order, and that of an open mandate
\* tells the truth about it.
RecordInv ==
    /\ TypeOK
    /\ \A m \in Mandates : FilledInOrder(ledger[m])
    /\ \A m \in Mandates : Live(m) => RingTells(ledger[m], mandate[m])

\* The account changes as the row of the payment says.
LEMMA PaymentFollows ==
    ASSUME NEW m, NEW md \in MandateAccount, NEW tok, NEW dst, NEW amount \in Nat,
           NEW nonce \in Nat, NEW t, Evaluate(m, md, tok, dst, amount, nonce, t) = "OK"
    PROVE  Follows(md, MkEntry("PAID", amount, dst, nonce, 0, "OK"), Settled(md, amount, nonce))
  <1> DEFINE e == MkEntry("PAID", amount, dst, nonce, 0, "OK")
             s == Settled(md, amount, nonce)
  <1>1. /\ md.status = "ACTIVE" /\ ~(amount > EffectivePerTxMax(md, nonce))
    BY AcceptedCharge
  <1>2. /\ e.kind = "PAID" /\ e.amount = amount /\ e.nonce = nonce /\ e.reason = "OK"
    BY DEF MkEntry
  <1>3. /\ s.cap = md.cap /\ s.per_tx_max = md.per_tx_max /\ s.spent = md.spent + amount
        /\ s.refusal_count = md.refusal_count /\ s.last_nonce = nonce
        /\ s.override_nonce = (IF md.override_nonce = nonce THEN 0 ELSE md.override_nonce)
        /\ s.override_amount = (IF md.override_nonce = nonce THEN 0 ELSE md.override_amount)
    BY DEF Settled, SettledWith, MandateAccount
  <1> HIDE DEF e, s
  <1>4. Follows(md, e, s)
    BY <1>1, <1>2, <1>3 DEF Follows, PaidPart, IsEnd
  <1> QED
    BY <1>4 DEF e, s

\* And as the row of a refusal, ...
LEMMA RefusalFollows ==
    ASSUME NEW m, NEW md \in MandateAccount, NEW tok, NEW dst, NEW amount, NEW nonce,
           NEW t, NEW suggested
    PROVE  LET reason == Evaluate(m, md, tok, dst, amount, nonce, t) IN
           Follows(md, MkEntry("REFUSED", amount, dst, nonce, suggested, reason),
                   Refused(md, reason))
  <1> DEFINE reason == Evaluate(m, md, tok, dst, amount, nonce, t)
             e == MkEntry("REFUSED", amount, dst, nonce, suggested, reason)
             s == Refused(md, reason)
  <1>1. e.kind = "REFUSED" /\ e.reason = reason
    BY DEF MkEntry
  <1>2. /\ s.cap = md.cap /\ s.per_tx_max = md.per_tx_max /\ s.spent = md.spent
        /\ s.refusal_count = SatInc(md.refusal_count) /\ s.last_nonce = md.last_nonce
        /\ s.override_nonce = md.override_nonce /\ s.override_amount = md.override_amount
        /\ s.status = IF reason = "EXPIRED" /\ md.status = "ACTIVE" THEN "EXPIRED" ELSE md.status
    BY DEF Refused, MandateAccount
  <1>3. md.spent + 0 = md.spent
    BY DEF MandateAccount
  <1> HIDE DEF e, s, reason
  <1>4. Follows(md, e, s)
    BY <1>1, <1>2, <1>3 DEF Follows, PaidPart, IsEnd
  <1> QED
    BY <1>4 DEF e, s, reason

\* ... an override, ...
LEMMA GrantFollows ==
    ASSUME NEW md \in MandateAccount, NEW amount \in Nat, NEW nonce \in Nat
    PROVE  Follows(md, MkEntry("OVERRIDE", amount, md.merchant, nonce, amount, "OK"),
                   Granted(md, amount, nonce))
  <1> DEFINE e == MkEntry("OVERRIDE", amount, md.merchant, nonce, amount, "OK")
             s == Granted(md, amount, nonce)
  <1>1. e.kind = "OVERRIDE" /\ e.reason = "OK" /\ e.nonce = nonce /\ e.amount = amount
    BY DEF MkEntry
  <1>2. /\ s.cap = md.cap /\ s.per_tx_max = md.per_tx_max /\ s.spent = md.spent
        /\ s.refusal_count = md.refusal_count /\ s.last_nonce = md.last_nonce
        /\ s.override_nonce = nonce /\ s.override_amount = amount /\ s.status = md.status
    BY DEF Granted, MandateAccount
  <1>3. md.spent + 0 = md.spent
    BY DEF MandateAccount
  <1> HIDE DEF e, s
  <1>4. Follows(md, e, s)
    BY <1>1, <1>2, <1>3 DEF Follows, PaidPart, IsEnd
  <1> QED
    BY <1>4 DEF e, s

\* ... and a revocation says.
LEMMA RevocationFollows ==
    ASSUME NEW md \in MandateAccount
    PROVE  Follows(md, MkEntry("REVOKED", 0, md.merchant, 0, 0, "OK"),
                   [md EXCEPT !.status = "REVOKED", !.override_amount = 0, !.override_nonce = 0])
  <1> DEFINE e == MkEntry("REVOKED", 0, md.merchant, 0, 0, "OK")
             s == [md EXCEPT !.status = "REVOKED", !.override_amount = 0, !.override_nonce = 0]
  <1>1. e.kind = "REVOKED"
    BY DEF MkEntry
  <1>2. /\ s.cap = md.cap /\ s.per_tx_max = md.per_tx_max /\ s.spent = md.spent
        /\ s.refusal_count = md.refusal_count /\ s.last_nonce = md.last_nonce
        /\ s.override_nonce = 0 /\ s.status = "REVOKED"
    BY DEF MandateAccount
  <1>3. md.spent + 0 = md.spent
    BY DEF MandateAccount
  <1> HIDE DEF e, s
  <1>4. Follows(md, e, s)
    BY <1>1, <1>2, <1>3 DEF Follows, PaidPart, IsEnd
  <1> QED
    BY <1>4 DEF e, s

\* An instruction that records one row for one mandate keeps the invariant.
LEMMA OneRowRecorded ==
    ASSUME CapacityBelowCount, RecordInv, TypeOK', NEW m \in Mandates, Live(m),
           NEW e \in Entry, NEW md1 \in MandateAccount, Follows(mandate[m], e, md1),
           mandate' = [mandate EXCEPT ![m] = md1],
           ledger' = [ledger EXCEPT ![m] = Record(ledger[m], e)]
    PROVE  RecordInv'
  <1>1. mandate[m] \in MandateAccount /\ ledger[m] \in Ring(Entry)
    BY LiveType DEF RecordInv, TypeOK
  <1>2. FilledInOrder(ledger[m]) /\ RingTells(ledger[m], mandate[m])
    BY DEF RecordInv
  <1>3. FilledInOrder(Record(ledger[m], e)) /\ RingTells(Record(ledger[m], e), md1)
    BY <1>1, <1>2, RecordTells
  <1>4. /\ mandate'[m] = md1 /\ ledger'[m] = Record(ledger[m], e)
        /\ \A k \in Mandates \ {m} : mandate'[k] = mandate[k] /\ ledger'[k] = ledger[k]
    BY DEF RecordInv, TypeOK
  <1>5. ASSUME NEW k \in Mandates
        PROVE  /\ FilledInOrder(ledger'[k])
               /\ mandate'[k].status # "NONE" => RingTells(ledger'[k], mandate'[k])
    BY <1>3, <1>4 DEF RecordInv, Live
  <1> QED
    BY <1>5 DEF RecordInv, Live

\* Steps that leave the accounts of the program alone keep it too.
LEMMA NoRowRecorded ==
    ASSUME RecordInv, TypeOK', UNCHANGED <<mandate, ledger>> PROVE RecordInv'
  BY DEF RecordInv, Live

LEMMA RecordStep == CapacityBelowCount /\ RecordInv /\ [Next]_vars => RecordInv'
  <1> SUFFICES ASSUME CapacityBelowCount, RecordInv, [Next]_vars PROVE RecordInv'
    OBVIOUS
  <1> USE MandateAssumption
  <1>0. TypeOK /\ TypeOK'
    BY TypeStep DEF RecordInv
  <1>1. ASSUME NEW m \in Mandates, NEW args \in Terms, OpenMandate(m, args) PROVE RecordInv'
    <2> DEFINE e == MkEntry("OPENED", args.cap, args.merchant, 0, 0, "OK")
    <2>1. args \in OpenMandateArgs /\ args.merchant \in Wallets
      BY <1>1 DEF OpenMandate, OpenMandateArgs
    <2>2. /\ e \in Entry /\ e.kind = "OPENED" /\ e.reason = "OK" /\ e.amount = args.cap
      BY <2>1 DEF MkEntry, Entry, Kinds, Reasons, OpenMandateArgs
    <2>3. /\ mandate'[m].status = "ACTIVE" /\ mandate'[m].cap = args.cap
          /\ mandate'[m].spent = 0 /\ mandate'[m].refusal_count = 0
          /\ mandate'[m].override_nonce = 0
          /\ mandate'[m] \in MandateAccount
      <3>1. /\ mandate'[m].status = "ACTIVE" /\ mandate'[m].cap = args.cap
            /\ mandate'[m].spent = 0 /\ mandate'[m].refusal_count = 0
            /\ mandate'[m].override_nonce = 0
        BY <1>0, <1>1 DEF OpenMandate, TypeOK
      <3>2. mandate'[m] \in MandateAccount
        BY <1>0, <3>1 DEF TypeOK, NoMandate
      <3> QED BY <3>1, <3>2
    <2>4. /\ ledger'[m] = Record(EmptyRing, e)
          /\ \A k \in Mandates \ {m} : mandate'[k] = mandate[k] /\ ledger'[k] = ledger[k]
      BY <1>0, <1>1 DEF OpenMandate, TypeOK
    <2> HIDE DEF e
    <2>5. FilledInOrder(ledger'[m]) /\ RingTells(ledger'[m], mandate'[m])
      BY <2>2, <2>3, <2>4, OpenedTells
    <2>6. ASSUME NEW k \in Mandates
          PROVE  /\ FilledInOrder(ledger'[k])
                 /\ mandate'[k].status # "NONE" => RingTells(ledger'[k], mandate'[k])
      BY <2>4, <2>5 DEF RecordInv, Live
    <2> QED BY <1>0, <2>6 DEF RecordInv, Live
  <1>2. ASSUME NEW m \in Mandates, NEW signer \in Wallets, NEW dst \in TokenAccounts,
               NEW amount \in Amounts, NEW nonce \in Nonces,
               Charge(m, signer, dst, amount, nonce)
        PROVE  RecordInv'
    <2>0. /\ Live(m) /\ mandate[m] \in MandateAccount /\ amount \in Nat /\ nonce \in Nat
          /\ mandate \in [Mandates -> MandateAccount \union {NoMandate}]
          /\ ledger \in [Mandates -> Ring(Entry)]
      BY <1>0, <1>2, LiveType DEF Charge, TypeOK
    <2>1. CASE ChargePaid(m, dst, amount, nonce)
      <3> DEFINE e == MkEntry("PAID", amount, dst, nonce, 0, "OK")
                 s == Settled(mandate[m], amount, nonce)
      <3>1. /\ Evaluate(m, mandate[m], token, dst, amount, nonce, now) = "OK"
            /\ mandate' = [mandate EXCEPT ![m] = s]
            /\ ledger' = [ledger EXCEPT ![m] = Record(ledger[m], e)]
        BY <2>0, <2>1 DEF ChargePaid
      <3>2. e \in Entry /\ s \in MandateAccount
        BY <2>0, SettledType DEF MkEntry, Entry, Kinds, Reasons
      <3>3. Follows(mandate[m], e, s)
        BY <2>0, <3>1, PaymentFollows
      <3> HIDE DEF e, s
      <3> QED BY <1>0, <2>0, <3>1, <3>2, <3>3, OneRowRecorded
    <2>2. CASE ChargeRefused(m, dst, amount, nonce)
      <3> DEFINE md == mandate[m]
                 reason == Evaluate(m, md, token, dst, amount, nonce, now)
                 s == Refused(md, reason)
                 suggested == SuggestedOverride(s, reason, amount)
                 e == MkEntry("REFUSED", amount, dst, nonce, suggested, reason)
      <3>1. /\ mandate' = [mandate EXCEPT ![m] = s]
            /\ ledger' = [ledger EXCEPT ![m] = Record(ledger[m], e)]
        BY <2>0, <2>2 DEF ChargeRefused
      <3>2. e \in Entry
        <4>1. reason \in Reasons
          BY EvaluateType
        <4>2. suggested \in Nat
          BY <2>0 DEF SuggestedOverride
        <4> HIDE DEF reason, suggested
        <4> QED BY <2>0, <4>1, <4>2 DEF MkEntry, Entry, Kinds
      <3>3. s \in MandateAccount
        BY <2>0, RefusedType
      <3>4. Follows(md, e, s)
        BY <2>0, RefusalFollows
      <3> HIDE DEF e, s, reason, suggested
      <3> QED BY <1>0, <2>0, <3>1, <3>2, <3>3, <3>4, OneRowRecorded
    <2> QED BY <1>2, <2>1, <2>2 DEF Charge
  <1>3. ASSUME NEW m \in Mandates, NEW signer \in Wallets, NEW amount \in Amounts,
               NEW nonce \in Nonces, GrantOverride(m, signer, amount, nonce)
        PROVE  RecordInv'
    <2> DEFINE e == MkEntry("OVERRIDE", amount, mandate[m].merchant, nonce, amount, "OK")
               s == Granted(mandate[m], amount, nonce)
    <2>0. /\ Live(m) /\ mandate[m] \in MandateAccount /\ amount \in Nat /\ nonce \in Nat
          /\ mandate \in [Mandates -> MandateAccount \union {NoMandate}]
          /\ ledger \in [Mandates -> Ring(Entry)]
      BY <1>0, <1>3, LiveType DEF GrantOverride, TypeOK
    <2>1. /\ mandate' = [mandate EXCEPT ![m] = s]
          /\ ledger' = [ledger EXCEPT ![m] = Record(ledger[m], e)]
      BY <1>3, <2>0 DEF GrantOverride
    <2>2. e \in Entry /\ s \in MandateAccount
      BY <2>0 DEF MkEntry, Entry, Kinds, Reasons, Granted, MandateAccount
    <2>3. Follows(mandate[m], e, s)
      BY <2>0, GrantFollows
    <2> HIDE DEF e, s
    <2> QED BY <1>0, <2>0, <2>1, <2>2, <2>3, OneRowRecorded
  <1>4. ASSUME NEW m \in Mandates, NEW signer \in Wallets, RevokeMandate(m, signer)
        PROVE  RecordInv'
    <2> DEFINE e == MkEntry("REVOKED", 0, mandate[m].merchant, 0, 0, "OK")
               s == [mandate[m] EXCEPT !.status = "REVOKED", !.override_amount = 0,
                                       !.override_nonce = 0]
    <2>0. /\ Live(m) /\ mandate[m] \in MandateAccount
          /\ mandate \in [Mandates -> MandateAccount \union {NoMandate}]
          /\ ledger \in [Mandates -> Ring(Entry)]
      BY <1>0, <1>4, LiveType DEF RevokeMandate, CanRevokeMandate, TypeOK, Live
    <2>1. /\ mandate' = [mandate EXCEPT ![m] = s]
          /\ ledger' = [ledger EXCEPT ![m] = Record(ledger[m], e)]
      BY <1>4, <2>0 DEF RevokeMandate, MandateAccount
    <2>2. e \in Entry /\ s \in MandateAccount
      BY <2>0 DEF MkEntry, Entry, Kinds, Reasons, MandateAccount, Statuses
    <2>3. Follows(mandate[m], e, s)
      BY <2>0, RevocationFollows
    <2> HIDE DEF e, s
    <2> QED BY <1>0, <2>0, <2>1, <2>2, <2>3, OneRowRecorded
  <1>5. ASSUME NEW m \in Mandates, NEW signer \in Wallets, CloseMandate(m, signer)
        PROVE  RecordInv'
    <2>1. /\ mandate'[m].status = "NONE" /\ ledger'[m] = EmptyRing
          /\ \A k \in Mandates \ {m} : mandate'[k] = mandate[k] /\ ledger'[k] = ledger[k]
      BY <1>0, <1>5 DEF CloseMandate, TypeOK, NoMandate
    <2>2. FilledInOrder(EmptyRing)
      BY DEF FilledInOrder, EmptyRing
    <2>3. ASSUME NEW k \in Mandates
          PROVE  /\ FilledInOrder(ledger'[k])
                 /\ mandate'[k].status # "NONE" => RingTells(ledger'[k], mandate'[k])
      BY <2>1, <2>2 DEF RecordInv, Live
    <2> QED BY <1>0, <2>3 DEF RecordInv, Live
  <1>6. ASSUME UNCHANGED <<mandate, ledger>> PROVE RecordInv'
    BY <1>0, <1>6, NoRowRecorded
  <1> QED
    BY <1>1, <1>2, <1>3, <1>4, <1>5, <1>6
       DEF Next, vars, DirectApprove, DirectRevoke, DirectTransfer, FreezeOrThaw, Tick

LEMMA InitRecord == Init => RecordInv
  <1> SUFFICES ASSUME Init PROVE RecordInv
    OBVIOUS
  <1>1. TypeOK
    BY InitType
  <1> QED
    BY <1>1 DEF Init, RecordInv, Live, NoMandate, FilledInOrder, EmptyRing

-----------------------------------------------------------------------------
(* What the property asks of the rows                                      *)

\* A finite set of numbers has a greatest one: it is alone in the smallest of the sets of
\* the members that are at least a given one.
LEMMA GreatestMember ==
    ASSUME NEW S, IsFiniteSet(S), S # {}, S \subseteq Int
    PROVE  Max(S) \in S /\ \A y \in S : Max(S) >= y
  <1> DEFINE Up(x) == {j \in S : j >= x}
             B == {Up(x) : x \in S}
  <1>1. B \subseteq SUBSET S /\ B # {}
    OBVIOUS
  <1>2. PICK T \in B : \A U \in SUBSET T : U # T => U \notin B
    <2> HIDE DEF B
    <2> QED BY <1>1, SmallestSet
  <1>3. PICK x \in S : T = Up(x)
    BY <1>2
  <1>4. ASSUME NEW y \in S, ~(x >= y) PROVE FALSE
    <2>1. x \in Int /\ y \in Int /\ y > x
      BY <1>4
    <2>2. x \in T /\ x \notin Up(y)
      BY <1>3, <2>1
    <2>3. ASSUME NEW j \in Up(y) PROVE j \in T
      <3>1. j \in S /\ j \in Int /\ j >= y
        OBVIOUS
      <3>2. j >= x
        BY <2>1, <3>1
      <3> QED BY <1>3, <3>1, <3>2
    <2>4. Up(y) \in SUBSET T /\ Up(y) # T /\ Up(y) \in B
      BY <2>2, <2>3
    <2> QED BY <1>2, <2>4
  <1>5. \A y \in S : x >= y
    BY <1>4
  <1> QED
    BY <1>5 DEF Max

\* The sum the property takes over the PAID rows is theirs.
LEMMA PaidRowsSum ==
    ASSUME NEW rows, NEW n \in Nat, DOMAIN rows = 1 .. n, Amounts0(rows, n)
    PROVE  RowsSum(rows, "PAID") = PaidSum(rows, n)
  <1> DEFINE P == {i \in DOMAIN rows : rows[i].kind = "PAID"}
             f == [i \in 1 .. n |-> PaidPart(rows[i])]
             a == [i \in P |-> rows[i].amount]
  <1>1. RowsSum(rows, "PAID") = MapThenSumSet(LAMBDA i : rows[i].amount, P)
    BY DEF RowsSum
  <1>2. MapThenSumSet(LAMBDA i : rows[i].amount, P) = Total(a, P)
    <2> HIDE DEF P
    <2> QED BY AmountsAreTotal DEF a
  <1>3. /\ P \subseteq 1 .. n
        /\ \A i \in P : a[i] = f[i]
        /\ \A i \in (1 .. n) \ P : f[i] = 0
    BY DEF PaidPart
  <1>4. \A i \in 1 .. n : f[i] \in Int
    BY DEF PaidPart, Amounts0
  <1>5. IsFiniteSet(1 .. n)
    BY FS_Interval
  <1>6. PaidSum(rows, n) = Total(f, 1 .. n)
    BY DEF PaidSum
  <1> HIDE DEF P, f, a
  <1>7. IsFiniteSet(P)
    BY <1>3, <1>5, FS_Subset
  <1>8. Total(a, P) = Total(f, P)
    BY <1>3, <1>7, TotalSame
  <1>9. Total(f, P) = Total(f, 1 .. n)
    BY <1>3, <1>4, <1>5, TotalZeros
  <1> QED
    BY <1>1, <1>2, <1>6, <1>8, <1>9

LEMMA InvariantTells ==
    ASSUME RecordInv, NEW m \in Mandates, Live(m)
    PROVE  LET rows == Rows(m)
               n == Occupied(ledger[m])
           IN  /\ n \in Nat /\ DOMAIN rows = 1 .. n
               /\ TellsAll(rows, n, ledger[m].total, mandate[m])
  <1>1. ledger[m] \in Ring(Entry)
    BY DEF RecordInv, TypeOK
  <1> QED
    BY <1>1, DecodeSlots DEF RecordInv, RingTells, Rows

\* The rows add up to the account, ...
LEMMA AccountIsTold == RecordInv => RecordAgreesWithAccount
  <1> SUFFICES ASSUME RecordInv, NEW m \in Mandates, Live(m)
               PROVE  LET md == mandate[m]
                          rows == Rows(m)
                          paidRows == {i \in DOMAIN rows : rows[i].kind = "PAID"}
                          refusedRows == {i \in DOMAIN rows : rows[i].kind = "REFUSED"}
                      IN /\ RowsSum(rows, "PAID") <= md.spent
                         /\ Complete(m) =>
                                /\ RowsSum(rows, "PAID") = md.spent
                                /\ Cardinality(refusedRows) = md.refusal_count
                                /\ rows[1].kind = "OPENED" /\ rows[1].amount = md.cap
                         /\ paidRows # {} => rows[Max(paidRows)].nonce = md.last_nonce
    BY DEF RecordAgreesWithAccount
  <1> DEFINE md == mandate[m]
             rows == Rows(m)
             n == Occupied(ledger[m])
             P == {i \in DOMAIN rows : rows[i].kind = "PAID"}
             R == {i \in DOMAIN rows : rows[i].kind = "REFUSED"}
  <1>1. /\ n \in Nat /\ DOMAIN rows = 1 .. n
        /\ TellsAll(rows, n, ledger[m].total, md)
    BY InvariantTells
  <1> HIDE DEF rows, n, md
  <1>2. Complete(m) <=> Whole(ledger[m].total)
    BY DEF Complete, Whole
  <1>3. RowsSum(rows, "PAID") = PaidSum(rows, n)
    BY <1>1, PaidRowsSum DEF TellsAll, TellsTotals
  <1>4. R = RefusedRows(rows, n)
    BY <1>1 DEF RefusedRows
  <1>5. ASSUME P # {} PROVE rows[Max(P)].nonce = md.last_nonce
    <2>1. IsFiniteSet(P) /\ P \subseteq Int
      <3>1. P \subseteq 1 .. n /\ P \subseteq Int
        BY <1>1
      <3>2. IsFiniteSet(1 .. n)
        BY <1>1, FS_Interval
      <3>3. IsFiniteSet(P)
        <4> HIDE DEF P
        <4> QED BY <3>1, <3>2, FS_Subset
      <3> QED BY <3>1, <3>3
    <2>2. Max(P) \in P /\ \A y \in P : Max(P) >= y
      <3> HIDE DEF P
      <3> QED BY <1>5, <2>1, GreatestMember
    <2> DEFINE x == Max(P)
    <2> HIDE DEF x
    <2>3. x \in 1 .. n /\ rows[x].kind = "PAID"
      BY <1>1, <2>2 DEF x
    <2>4. ASSUME NEW j \in x + 1 .. n PROVE rows[j].kind # "PAID"
      <3>1. j \in 1 .. n /\ ~(x >= j)
        BY <2>3
      <3> QED BY <1>1, <2>2, <3>1 DEF x
    <2> QED BY <1>1, <2>3, <2>4 DEF TellsAll, TellsNonce, x
  <1>6. /\ RowsSum(rows, "PAID") <= md.spent
        /\ Complete(m) =>
               /\ RowsSum(rows, "PAID") = md.spent
               /\ Cardinality(R) = md.refusal_count
               /\ rows[1].kind = "OPENED" /\ rows[1].amount = md.cap
    <2> HIDE DEF R
    <2> QED BY <1>1, <1>2, <1>3, <1>4 DEF TellsAll, TellsTotals
  <1> QED
    BY <1>5, <1>6 DEF rows, md

\* ... every payment above the ceiling has its override, ...
LEMMA CeilingIsTold == RecordInv => AboveCeilingIsOnRecord
  <1> SUFFICES ASSUME RecordInv, NEW m \in Mandates, Live(m), NEW i \in DOMAIN Rows(m),
                      Rows(m)[i].kind = "PAID", Rows(m)[i].amount > mandate[m].per_tx_max
               PROVE  LET rows == Rows(m)
                          grants == {j \in 1 .. i - 1 : rows[j].kind = "OVERRIDE"}
                      IN IF grants = {} THEN ~Complete(m)
                         ELSE /\ rows[Max(grants)].nonce = rows[i].nonce
                              /\ rows[Max(grants)].amount >= rows[i].amount
    BY DEF AboveCeilingIsOnRecord
  <1> DEFINE rows == Rows(m)
             n == Occupied(ledger[m])
             G == {j \in 1 .. i - 1 : rows[j].kind = "OVERRIDE"}
  <1>1. /\ n \in Nat /\ DOMAIN rows = 1 .. n
        /\ TellsAll(rows, n, ledger[m].total, mandate[m])
    BY InvariantTells
  <1>2. i \in 1 .. n /\ rows[i].kind = "PAID" /\ rows[i].amount > mandate[m].per_tx_max
    BY <1>1
  <1> HIDE DEF rows, n
  <1>3. Covered(rows, ledger[m].total, i, rows[i].nonce, rows[i].amount)
    BY <1>1, <1>2 DEF TellsAll, TellsGrants
  <1>4. CASE G = {}
    <2>1. ~GrantBefore(rows, i, rows[i].nonce, rows[i].amount)
      BY <1>4 DEF GrantBefore
    <2> QED BY <1>3, <1>4, <2>1 DEF Covered, Complete, Whole, rows
  <1>5. CASE G # {}
    <2>1. IsFiniteSet(G) /\ G \subseteq Int
      <3>1. G \subseteq 1 .. i - 1 /\ i - 1 \in Int /\ G \subseteq Int
        BY <1>1, <1>2
      <3>2. IsFiniteSet(1 .. i - 1)
        BY <3>1, FS_Interval
      <3>3. IsFiniteSet(G)
        <4> HIDE DEF G
        <4> QED BY <3>1, <3>2, FS_Subset
      <3> QED BY <3>1, <3>3
    <2>2. Max(G) \in G /\ \A y \in G : Max(G) >= y
      <3> HIDE DEF G
      <3> QED BY <1>5, <2>1, GreatestMember
    <2>3. ~NoGrantBefore(rows, i)
      BY <1>5 DEF NoGrantBefore
    <2>4. PICK j \in 1 .. i - 1 :
              /\ rows[j].kind = "OVERRIDE"
              /\ rows[j].nonce = rows[i].nonce /\ rows[j].amount >= rows[i].amount
              /\ \A k \in j + 1 .. i - 1 : rows[k].kind # "OVERRIDE"
      BY <1>3, <2>3 DEF Covered, GrantBefore
    <2>5. Max(G) = j
      <3> DEFINE x == Max(G)
      <3> HIDE DEF x
      <3>1. x \in 1 .. i - 1 /\ rows[x].kind = "OVERRIDE" /\ x >= j
        BY <2>2, <2>4 DEF x
      <3>2. x \notin j + 1 .. i - 1
        BY <2>4, <3>1
      <3>3. x = j
        BY <1>2, <3>1, <3>2
      <3> QED BY <3>3 DEF x
    <2>6. /\ rows[Max(G)].nonce = rows[i].nonce
          /\ rows[Max(G)].amount >= rows[i].amount
      BY <2>4, <2>5
    <2> QED BY <1>5, <2>6 DEF rows
  <1> QED
    BY <1>4, <1>5

\* ... and nothing is paid after the end.
LEMMA EndIsTold == RecordInv => NothingPaidAfterTheEnd
  <1> SUFFICES ASSUME RecordInv, NEW m \in Mandates, Live(m),
                      NEW i \in DOMAIN Rows(m), NEW j \in DOMAIN Rows(m), i < j,
                      IsEnd(Rows(m)[i])
               PROVE  Rows(m)[j].kind # "PAID"
    BY DEF NothingPaidAfterTheEnd, IsEnd
  <1> DEFINE rows == Rows(m)
             n == Occupied(ledger[m])
  <1>1. /\ n \in Nat /\ DOMAIN rows = 1 .. n
        /\ TellsAll(rows, n, ledger[m].total, mandate[m])
    BY InvariantTells
  <1>2. i \in 1 .. n /\ j \in i + 1 .. n
    BY <1>1
  <1> HIDE DEF n
  <1> QED
    BY <1>1, <1>2 DEF TellsAll, TellsEnd

\* For every capacity below the range of the count: what a reader makes of the ledger of an
\* open mandate agrees with the account, accounts for every payment above the ceiling, and
\* shows none after the end (Ledger::record, in charge, grant_override and revoke_mandate).
THEOREM LedgerTellsTheTruth ==
    ASSUME CapacityBelowCount
    PROVE  Spec => []RecordTellsTheTruth
  <1>1. Init => RecordInv
    BY InitRecord
  <1>2. RecordInv /\ [Next]_vars => RecordInv'
    BY RecordStep
  <1>3. RecordInv => RecordTellsTheTruth
    BY AccountIsTold, CeilingIsTold, EndIsTold DEF RecordTellsTheTruth
  <1> QED
    BY <1>1, <1>2, <1>3, PTL DEF Spec

=============================================================================
