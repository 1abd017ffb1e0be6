---------------------------- MODULE ChargerProofs ----------------------------
(***************************************************************************)
(* Theorems about what charges.  Agent: the chain an agent's commands run  *)
(* on is the one of Mandate, and what the commands report and guard holds  *)
(* for any number of commands, rules and keys.  Watcher: its journal is    *)
(* backed by the chain, through crashes, lost answers and repairs.         *)
(***************************************************************************)
EXTENDS Agent, Watcher, MandateProofs, SequenceTheorems

-----------------------------------------------------------------------------
(* The chain. Overrides and rows of a ledger carry only amounts and nonces *)
(* somebody asked for, so that an override granted from a row of the       *)
(* record is one of those the owner of Mandate may grant.                  *)

AskedEntry ==
    {e \in Entry : e.kind = "REFUSED" =>
        e.nonce \in Nonces /\ (e.suggested_override > 0 => e.suggested_override \in Amounts)}

RowsWereAsked == ledger \in [Mandates -> Ring(AskedEntry)]

OverridesWereAsked == \A m \in Mandates : mandate[m].override_nonce \in Nonces \union {0}

\* Only finitely many rules are ever open, so a listing has a newest one.
FewAreOpen == IsFiniteSet({m \in Mandates : Live(m)})

ChainInv == TypeOK /\ RowsWereAsked /\ OverridesWereAsked /\ FewAreOpen

\* An entry of another kind than a refusal was asked for in this sense.
LEMMA OtherEntries ==
    ASSUME NEW e \in Entry, e.kind # "REFUSED" PROVE e \in AskedEntry
  BY DEF AskedEntry

\* The initial chain.
LEMMA InitChain == Init => ChainInv
  <1> SUFFICES ASSUME Init PROVE ChainInv
    OBVIOUS
  <1>1. {m \in Mandates : Live(m)} = {}
    BY DEF Init, Live, NoMandate
  <1>2. FewAreOpen
    BY <1>1, FS_EmptySet DEF FewAreOpen
  <1> QED
    BY <1>2, InitType, EmptyRingType DEF Init, ChainInv, RowsWereAsked, OverridesWereAsked, NoMandate

\* One transaction opens at most one rule.
LEMMA FewStayOpen == TypeOK /\ FewAreOpen /\ [Next]_vars => FewAreOpen'
  <1> SUFFICES ASSUME TypeOK, FewAreOpen, [Next]_vars PROVE FewAreOpen'
    OBVIOUS
  <1> DEFINE Open == {m \in Mandates : Live(m)}
  <1>0. IsFiniteSet(Open)
    BY DEF FewAreOpen
  <1>1. \E n : Open' \subseteq Open \union {n}
    <2>1. ASSUME NEW m \in Mandates, NEW args \in Terms, OpenMandate(m, args)
          PROVE  Open' \subseteq Open \union {m}
      BY <2>1 DEF OpenMandate, TypeOK, Live
    <2>2. ASSUME NEW m \in Mandates,
                 \/ \E signer \in Wallets, dst \in TokenAccounts, amount \in Amounts, nonce \in Nonces :
                       Charge(m, signer, dst, amount, nonce)
                 \/ \E signer \in Wallets, amount \in Amounts, nonce \in Nonces :
                       GrantOverride(m, signer, amount, nonce)
                 \/ \E signer \in Wallets : RevokeMandate(m, signer)
                 \/ \E signer \in Wallets : CloseMandate(m, signer)
          PROVE  Open' \subseteq Open \union {m}
      <3>1. \A n \in Mandates \ {m} : mandate'[n] = mandate[n]
        <4>1. ASSUME \E v : mandate' = [mandate EXCEPT ![m] = v]
              PROVE  \A n \in Mandates \ {m} : mandate'[n] = mandate[n]
          BY <4>1 DEF TypeOK
        <4>2. ASSUME NEW signer \in Wallets, NEW dst \in TokenAccounts, NEW amount \in Amounts,
                     NEW nonce \in Nonces, Charge(m, signer, dst, amount, nonce)
              PROVE  \E v : mandate' = [mandate EXCEPT ![m] = v]
          BY <4>2 DEF Charge, ChargePaid, ChargeRefused
        <4>3. ASSUME NEW signer \in Wallets, NEW amount \in Amounts, NEW nonce \in Nonces,
                     GrantOverride(m, signer, amount, nonce)
              PROVE  \E v : mandate' = [mandate EXCEPT ![m] = v]
          BY <4>3 DEF GrantOverride
        <4>4. ASSUME NEW signer \in Wallets, RevokeMandate(m, signer)
              PROVE  \E v : mandate' = [mandate EXCEPT ![m] = v]
          BY <4>4 DEF RevokeMandate
        <4>5. ASSUME NEW signer \in Wallets, CloseMandate(m, signer)
              PROVE  \E v : mandate' = [mandate EXCEPT ![m] = v]
          BY <4>5 DEF CloseMandate
        <4> QED BY <2>2, <4>1, <4>2, <4>3, <4>4, <4>5
      <3> QED
        BY <3>1 DEF Live
    <2>3. ASSUME UNCHANGED mandate PROVE Open' \subseteq Open \union {NoKey}
      BY <2>3 DEF Live
    <2> QED
      BY <2>1, <2>2, <2>3
      DEF Next, DirectApprove, DirectRevoke, DirectTransfer, FreezeOrThaw, Tick, vars
  <1> QED
    <2>1. PICK n : Open' \subseteq Open \union {n}
      BY <1>1
    <2>2. IsFiniteSet(Open \union {n})
      BY <1>0, FS_AddElement
    <2>3. IsFiniteSet(Open')
      BY <2>1, <2>2, FS_Subset
    <2> QED
      BY <2>3 DEF FewAreOpen

\* Every step of Mandate keeps it.
LEMMA ChainKept == ChainInv /\ [Next]_vars => ChainInv'
  <1> SUFFICES ASSUME ChainInv, [Next]_vars PROVE RowsWereAsked' /\ OverridesWereAsked'
    BY TypeStep, FewStayOpen DEF ChainInv
  <1> USE MandateAssumption DEF ChainInv
  <1>1. ASSUME NEW m \in Mandates, NEW args \in Terms, OpenMandate(m, args)
        PROVE  RowsWereAsked' /\ OverridesWereAsked'
    <2>1. args \in OpenMandateArgs /\ args.merchant \in Wallets
      BY <1>1 DEF OpenMandate, OpenMandateArgs
    <2>2. MkEntry("OPENED", args.cap, args.merchant, 0, 0, "OK") \in AskedEntry
      BY <2>1 DEF MkEntry, Entry, AskedEntry, OpenMandateArgs, Kinds, Reasons
    <2>3. RowsWereAsked'
      BY <1>1, <2>2, EmptyRingType, RecordType DEF OpenMandate, RowsWereAsked
    <2>4. OverridesWereAsked'
      BY <1>1 DEF OpenMandate, OverridesWereAsked, TypeOK
    <2> QED
      BY <2>3, <2>4
  <1>2. ASSUME NEW m \in Mandates, NEW signer \in Wallets, NEW dst \in TokenAccounts,
               NEW amount \in Amounts, NEW nonce \in Nonces,
               Charge(m, signer, dst, amount, nonce)
        PROVE  RowsWereAsked' /\ OverridesWereAsked'
    <2>1. amount \in Nat /\ nonce \in Nat /\ mandate[m] \in MandateAccount
      BY <1>2, LiveType DEF Charge
    <2>2. CASE ChargePaid(m, dst, amount, nonce)
      <3>1. MkEntry("PAID", amount, dst, nonce, 0, "OK") \in AskedEntry
        BY <2>1 DEF MkEntry, Entry, AskedEntry, Kinds, Reasons
      <3>2. Settled(mandate[m], amount, nonce).override_nonce \in {0, mandate[m].override_nonce}
        BY <2>1 DEF Settled, SettledWith, MandateAccount
      <3>3. RowsWereAsked'
        BY <2>2, <3>1, RecordType DEF ChargePaid, RowsWereAsked
      <3>4. OverridesWereAsked'
        BY <2>2, <3>2 DEF ChargePaid, OverridesWereAsked, TypeOK
      <3> QED
        BY <3>3, <3>4
    <2>3. CASE ChargeRefused(m, dst, amount, nonce)
      <3> DEFINE reason == Evaluate(m, mandate[m], token, dst, amount, nonce, now)
                 suggested == SuggestedOverride(Refused(mandate[m], reason), reason, amount)
      <3>1. suggested \in {0, amount} /\ reason \in Reasons
        BY EvaluateType DEF SuggestedOverride
      <3>2. MkEntry("REFUSED", amount, dst, nonce, suggested, reason) \in AskedEntry
        <4> HIDE DEF suggested, reason
        <4> QED BY <2>1, <3>1 DEF MkEntry, Entry, AskedEntry, Kinds
      <3>3. RowsWereAsked'
        BY <2>3, <3>2, RecordType DEF ChargeRefused, RowsWereAsked
      <3>4. Refused(mandate[m], reason).override_nonce = mandate[m].override_nonce
        BY <2>1 DEF Refused, MandateAccount
      <3>5. OverridesWereAsked'
        BY <2>3, <3>4 DEF ChargeRefused, OverridesWereAsked, TypeOK
      <3> QED
        BY <3>3, <3>5
    <2> QED
      BY <1>2, <2>2, <2>3 DEF Charge
  <1>3. ASSUME NEW m \in Mandates, NEW signer \in Wallets, NEW amount \in Amounts,
               NEW nonce \in Nonces, GrantOverride(m, signer, amount, nonce)
        PROVE  RowsWereAsked' /\ OverridesWereAsked'
    <2>1. amount \in Nat /\ nonce \in Nat /\ mandate[m] \in MandateAccount
      BY <1>3, LiveType DEF GrantOverride
    <2>2. MkEntry("OVERRIDE", amount, mandate[m].merchant, nonce, amount, "OK") \in AskedEntry
      BY <2>1 DEF MkEntry, Entry, AskedEntry, Kinds, Reasons, MandateAccount
    <2>3. RowsWereAsked'
      BY <1>3, <2>2, RecordType DEF GrantOverride, RowsWereAsked
    <2>4. Granted(mandate[m], amount, nonce).override_nonce = nonce
      BY <2>1 DEF Granted, MandateAccount
    <2>5. OverridesWereAsked'
      BY <1>3, <2>4 DEF GrantOverride, OverridesWereAsked, TypeOK
    <2> QED
      BY <2>3, <2>5
  <1>4. ASSUME NEW m \in Mandates, NEW signer \in Wallets, RevokeMandate(m, signer)
        PROVE  RowsWereAsked' /\ OverridesWereAsked'
    <2>1. mandate[m] \in MandateAccount
      BY <1>4, LiveType DEF RevokeMandate, CanRevokeMandate, Live
    <2>2. MkEntry("REVOKED", 0, mandate[m].merchant, 0, 0, "OK") \in AskedEntry
      BY <2>1 DEF MkEntry, Entry, AskedEntry, Kinds, Reasons, MandateAccount
    <2>3. RowsWereAsked'
      BY <1>4, <2>2, RecordType DEF RevokeMandate, RowsWereAsked
    <2>4. OverridesWereAsked'
      BY <1>4, <2>1 DEF RevokeMandate, OverridesWereAsked, TypeOK, MandateAccount
    <2> QED
      BY <2>3, <2>4
  <1>5. ASSUME NEW m \in Mandates, NEW signer \in Wallets, CloseMandate(m, signer)
        PROVE  RowsWereAsked' /\ OverridesWereAsked'
    BY <1>5, EmptyRingType DEF CloseMandate, RowsWereAsked, OverridesWereAsked, TypeOK, NoMandate
  <1>6. ASSUME UNCHANGED <<mandate, ledger>> PROVE RowsWereAsked' /\ OverridesWereAsked'
    BY <1>6 DEF RowsWereAsked, OverridesWereAsked
  <1> QED
    BY <1>1, <1>2, <1>3, <1>4, <1>5, <1>6
    DEF Next, DirectApprove, DirectRevoke, DirectTransfer, FreezeOrThaw, Tick, vars

-----------------------------------------------------------------------------
(* The commands                                                            *)

Places ==
    {"idle", "key", "wait", "show", "save", "select", "open", "nonce", "check", "load", "send",
     "decline", "confirm", "read", "done"}

Blocks ==
    [agent : Wallets \union {NoKey}, source : TokenAccounts \union {NoKey},
     payee : TokenAccounts \union {NoKey}, cluster : {"none", "devnet", "mainnet-beta"},
     decimals : {"none", "6", "9"}, keys : {"none", "all", "lost"}]

Replies == {"nothing", "error", "requested", "saved", "shown", "paid", "refused", "declined"}

Command ==
    [op : Ops \union {"none", "connect", "pay"}, at : Places, key : Wallets \union {NoKey},
     rule : Mandates \union {NoKey}, block : Blocks, amount : Nat, nonce : Nat,
     destination : TokenAccounts \union {NoKey}, seen : Nat \X Nat, said : Replies]

AgentTypeOK ==
    /\ home \in [key : BOOLEAN, config : [rule : Mandates \union {NoKey}, flag : BOOLEAN]]
    /\ cmd \in [Commands -> Command]
    /\ fate \in [Commands -> {"none", "flying", "PAID", "REFUSED", "MEMO", "EXPIRED"}]

\* The places from the reading of a rule on, those before a transaction is sent, and those
\* between the sending and the report.
Reading == {"nonce", "check", "load", "send", "decline", "confirm", "read"}
Unsent == Places \ {"confirm", "read", "done"}

\* A command pays only for a rule it has read, with what it was asked to pay; it sends one
\* transaction, and a decline before it knows an account to pay to.
AsksAsItShould(c) ==
    LET k == cmd[c] IN
    /\ k.op \in {"pay", "sdk", "purpose"} => k.amount \in Amounts
    /\ k.at \in Reading \/ fate[c] # "none" =>
           /\ k.op \in {"pay", "sdk", "purpose"}
           /\ k.rule \in Mandates /\ Live(k.rule)
           /\ k.key \in Wallets
    /\ k.at \in Reading \ {"nonce"} \/ fate[c] # "none" => k.nonce \in Nonces
    /\ k.at \in Unsent \ {"send"} => k.destination = NoKey
    /\ k.at \in {"check", "decline"} => k.op = "purpose"
    /\ k.at = "send" \/ (fate[c] # "none" /\ ~IsDecline(c)) => k.destination \in TokenAccounts

\* What is known of its transaction at each place, and what it says in the end.
KnowsItsFate(c) ==
    LET k == cmd[c] IN
    /\ k.at \in Unsent => fate[c] = "none"
    /\ k.at = "read" => fate[c] \in {"PAID", "REFUSED"}
    /\ k.said = "paid" => k.at = "done" /\ fate[c] = "PAID"
    /\ k.said = "refused" => k.at = "done" /\ fate[c] = "REFUSED"
    /\ k.said = "declined" => k.at = "done" /\ fate[c] = "MEMO"

\* Its payment stands among those of the rule.
PaymentStands(c) ==
    LET k == cmd[c] IN
    fate[c] = "PAID" =>
        \E i \in DOMAIN paid[k.rule] :
            paid[k.rule][i].nonce = k.nonce /\ paid[k.rule][i].amount = k.amount

\* Once `veto pay` has passed the guard, an override it saw for its nonce is for its amount,
\* or its nonce can no longer be paid.
GuardHolds(c) ==
    LET k == cmd[c] IN
    k.op = "pay" /\ (k.at = "send" \/ fate[c] # "none") =>
        \/ k.seen[1] # k.nonce
        \/ k.seen[2] = k.amount
        \/ k.seen[1] <= mandate[k.rule].last_nonce

CommandInv(c) == AsksAsItShould(c) /\ KnowsItsFate(c) /\ PaymentStands(c) /\ GuardHolds(c)

AgentInv == ChainInv /\ AgentTypeOK /\ \A c \in Commands : CommandInv(c)

-----------------------------------------------------------------------------
(* What happens to the rules                                               *)

\* The steps of Mandate an agent's world takes: no rule is closed, and nobody changes the
\* token accounts directly.
RuleStep ==
    \/ \E m \in Mandates, args \in Terms : OpenMandate(m, args)
    \/ \E m \in Mandates, signer \in Wallets, dst \in TokenAccounts, amount \in Amounts,
          nonce \in Nonces : Charge(m, signer, dst, amount, nonce)
    \/ \E m \in Mandates, signer \in Wallets, amount \in Amounts, nonce \in Nonces :
          GrantOverride(m, signer, amount, nonce)
    \/ \E m \in Mandates, signer \in Wallets : RevokeMandate(m, signer)
    \/ Tick
    \/ UNCHANGED vars

\* A refusal read from the record names what was asked for.
LEMMA RefusalsWereAsked ==
    ASSUME ChainInv, NEW m \in Mandates, NEW i \in DOMAIN Rows(m), Rows(m)[i].kind = "REFUSED",
           Rows(m)[i].suggested_override > 0
    PROVE  Rows(m)[i].nonce \in Nonces /\ Rows(m)[i].suggested_override \in Amounts
  <1>1. ledger[m] \in Ring(AskedEntry)
    BY DEF ChainInv, RowsWereAsked
  <1>2. /\ i \in 1 .. Occupied(ledger[m])
        /\ SlotAt(ledger[m], i) \in Slots
        /\ Rows(m)[i] = ledger[m].entries[SlotAt(ledger[m], i)]
    BY <1>1, DecodeSlots DEF Rows
  <1>3. Rows(m)[i] \in AskedEntry \union {EmptySlot}
    BY <1>1, <1>2 DEF Ring
  <1> QED
    BY <1>3 DEF AskedEntry, EmptySlot

\* The owner grants, opens and stops, charges land, and commands only read.
LEMMA RulesTakeTheirSteps == AgentInv /\ [AgentNext]_allVars => RuleStep
  <1> SUFFICES ASSUME AgentInv, [AgentNext]_allVars PROVE RuleStep
    OBVIOUS
  <1> USE MandateAssumption
  <1>1. ASSUME NEW c \in Commands, StartConnect(c) \/ StartPay(c) \/ StartOther(c) \/ StartSdk(c)
        PROVE  UNCHANGED vars
    BY <1>1 DEF StartConnect, StartPay, StartOther, StartSdk, Begin
  <1>2. ASSUME NEW c \in Commands, Step(c) \/ Fails(c) \/ Expire(c) PROVE UNCHANGED vars
    BY <1>2 DEF Step, Fails, Expire, LoadOrCreateKey, NamedRule, RequestAndWait, ShowRule, SaveConfig,
                SelectRule, OpenRule, OpenFromConfig, NextNonce, PurposeCheck, ChargeLoad,
                Submit, Confirm, ReadDecision, ReadOnly
  <1>3. ASSUME NEW c \in Commands, Land(c) PROVE RuleStep
    <2>1. CASE IsDecline(c)
      BY <1>3, <2>1 DEF Land, RuleStep
    <2>2. CASE ~IsDecline(c)
      <3>1. /\ cmd[c].rule \in Mandates /\ cmd[c].key \in Wallets
            /\ cmd[c].destination \in TokenAccounts
            /\ cmd[c].amount \in Amounts /\ cmd[c].nonce \in Nonces
        BY <1>3, <2>2 DEF Land, AgentInv, CommandInv, AsksAsItShould
      <3> QED
        BY <1>3, <2>2, <3>1 DEF Land, RuleStep
    <2> QED
      BY <2>1, <2>2
  <1>4. ASSUME NEW m \in Mandates, OwnerAllows(m) PROVE RuleStep
    <2>1. PICK i \in DOMAIN Rows(m) :
              /\ Rows(m)[i].kind = "REFUSED" /\ Rows(m)[i].suggested_override > 0
              /\ GrantOverride(m, OwnerOf[m], Rows(m)[i].suggested_override, Rows(m)[i].nonce)
      BY <1>4 DEF OwnerAllows
    <2>2. Rows(m)[i].nonce \in Nonces /\ Rows(m)[i].suggested_override \in Amounts
      BY <2>1, RefusalsWereAsked DEF AgentInv
    <2> QED
      BY <2>1, <2>2 DEF RuleStep
  <1>5. ASSUME NEW m \in Mandates, OwnerOpens(m) \/ OwnerRevokes(m) PROVE RuleStep
    BY <1>5 DEF OwnerOpens, OwnerRevokes, RuleStep
  <1>6. CASE ClockTicks
    BY <1>6 DEF ClockTicks, RuleStep
  <1>7. CASE UNCHANGED allVars
    BY <1>7 DEF allVars, RuleStep
  <1> QED
    BY <1>1, <1>2, <1>3, <1>4, <1>5, <1>6, <1>7 DEF AgentNext, RuleStep

\* They are steps of Mandate.
LEMMA RuleStepsAreNext == RuleStep => [Next]_vars
  BY DEF RuleStep, Next

\* A rule that is open stays open; its payments stay, and its last nonce never falls.
LEMMA RulesStay ==
    ASSUME ChainInv, RuleStep, NEW m \in Mandates, Live(m)
    PROVE  /\ Live(m)'
           /\ mandate[m].last_nonce \in Nat /\ mandate'[m].last_nonce \in Nat
           /\ mandate'[m].last_nonce >= mandate[m].last_nonce
           /\ \A i \in DOMAIN paid[m] : i \in DOMAIN paid'[m] /\ paid'[m][i] = paid[m][i]
  <1> USE MandateAssumption
  <1>1. TypeOK /\ mandate[m] \in MandateAccount
    BY LiveType DEF ChainInv
  <1>2. ASSUME NEW n \in Mandates, NEW args \in Terms, OpenMandate(n, args)
        PROVE  mandate'[m] = mandate[m] /\ paid'[m] = paid[m]
    BY <1>1, <1>2 DEF OpenMandate, TypeOK
  <1>3. ASSUME NEW n \in Mandates, NEW signer \in Wallets, NEW dst \in TokenAccounts,
               NEW amount \in Amounts, NEW nonce \in Nonces,
               Charge(n, signer, dst, amount, nonce), n = m
        PROVE  /\ mandate'[m].status # "NONE" /\ mandate'[m].last_nonce \in Nat
               /\ mandate'[m].last_nonce >= mandate[m].last_nonce
               /\ \A i \in DOMAIN paid[m] : i \in DOMAIN paid'[m] /\ paid'[m][i] = paid[m][i]
    <2>1. amount \in Nat /\ nonce \in Nat
      OBVIOUS
    <2>2. CASE ChargePaid(m, dst, amount, nonce)
      <3> DEFINE p == [nonce |-> nonce, amount |-> amount, destination |-> dst]
      <3>1. mandate'[m] = Settled(mandate[m], amount, nonce)
        BY <1>1, <2>2 DEF ChargePaid, TypeOK
      <3>2. mandate'[m].status \in Statuses /\ mandate'[m].last_nonce = nonce
        <4>1. Settled(mandate[m], amount, nonce) \in MandateAccount
          BY <1>1, <2>1, SettledType
        <4>2. Settled(mandate[m], amount, nonce).last_nonce = nonce
          BY <1>1, <2>1, SettledFields
        <4> QED
          BY <3>1, <4>1, <4>2 DEF MandateAccount
      <3>3. ~(nonce <= mandate[m].last_nonce)
        BY <2>1, <2>2, AcceptedCharge DEF ChargePaid
      <3>4. p \in Payment /\ paid[m] \in Seq(Payment) /\ paid'[m] = Append(paid[m], p)
        BY <1>1, <2>1, <2>2 DEF ChargePaid, TypeOK, Payment
      <3>5. \A i \in DOMAIN paid[m] : i \in DOMAIN paid'[m] /\ paid'[m][i] = paid[m][i]
        BY <3>4, AppendFacts
      <3> QED
        BY <1>1, <2>1, <3>2, <3>3, <3>5 DEF MandateAccount, Statuses
    <2>3. CASE ChargeRefused(m, dst, amount, nonce)
      <3>1. PICK reason : mandate'[m] = Refused(mandate[m], reason)
        BY <1>1, <2>3 DEF ChargeRefused, TypeOK
      <3> QED
        BY <1>1, <2>3, <3>1 DEF ChargeRefused, Refused, MandateAccount, Statuses
    <2> QED
      BY <1>3, <2>2, <2>3 DEF Charge
  <1>4. ASSUME NEW n \in Mandates, NEW signer \in Wallets, NEW dst \in TokenAccounts,
               NEW amount \in Amounts, NEW nonce \in Nonces,
               Charge(n, signer, dst, amount, nonce), n # m
        PROVE  mandate'[m] = mandate[m] /\ paid'[m] = paid[m]
    BY <1>1, <1>4 DEF Charge, ChargePaid, ChargeRefused, TypeOK
  <1>5. ASSUME NEW n \in Mandates, NEW signer \in Wallets, NEW amount \in Amounts,
               NEW nonce \in Nonces, GrantOverride(n, signer, amount, nonce)
        PROVE  /\ mandate'[m].status = mandate[m].status
               /\ mandate'[m].last_nonce = mandate[m].last_nonce
               /\ paid'[m] = paid[m]
    <2>1. mandate'[m] \in {mandate[m], Granted(mandate[m], amount, nonce)}
      BY <1>1, <1>5 DEF GrantOverride, TypeOK
    <2> QED
      BY <1>1, <1>5, <2>1 DEF GrantOverride, Granted, MandateAccount
  <1>7. ASSUME NEW n \in Mandates, NEW signer \in Wallets, RevokeMandate(n, signer)
        PROVE  /\ mandate'[m].status # "NONE"
               /\ mandate'[m].last_nonce = mandate[m].last_nonce
               /\ paid'[m] = paid[m]
    BY <1>1, <1>7 DEF RevokeMandate, TypeOK, Live, MandateAccount
  <1>6. CASE Tick \/ UNCHANGED vars
    BY <1>1, <1>6 DEF Tick, vars, Live, MandateAccount
  <1> QED
    BY <1>1, <1>2, <1>3, <1>4, <1>5, <1>6, <1>7 DEF RuleStep, Live, MandateAccount

-----------------------------------------------------------------------------
(* What happens to the commands                                            *)

\* What a step of command c owes.
Keeps(c) ==
    /\ AgentTypeOK'
    /\ \A d \in Commands \ {c} : cmd'[d] = cmd[d] /\ fate'[d] = fate[d]
    /\ CommandInv(c)'

\* A command that does not move is not disturbed by what happens to the rules.
LEMMA CommandStands ==
    ASSUME AgentInv, RuleStep, NEW c \in Commands, cmd'[c] = cmd[c], fate'[c] = fate[c]
    PROVE  CommandInv(c)'
  <1> DEFINE k == cmd[c]
  <1>1. CommandInv(c) /\ k \in Command
    BY DEF AgentInv, AgentTypeOK
  <1>2. k.at \in Reading \/ fate[c] # "none" =>
            /\ k.rule \in Mandates /\ Live(k.rule) /\ Live(k.rule)'
            /\ mandate[k.rule].last_nonce \in Nat /\ mandate'[k.rule].last_nonce \in Nat
            /\ mandate'[k.rule].last_nonce >= mandate[k.rule].last_nonce
            /\ \A i \in DOMAIN paid[k.rule] :
                   i \in DOMAIN paid'[k.rule] /\ paid'[k.rule][i] = paid[k.rule][i]
    BY <1>1, RulesStay DEF AgentInv, CommandInv, AsksAsItShould
  <1>3. AsksAsItShould(c)'
    BY <1>1, <1>2 DEF CommandInv, AsksAsItShould, IsDecline, Live
  <1>4. KnowsItsFate(c)'
    BY <1>1 DEF CommandInv, KnowsItsFate
  <1>5. PaymentStands(c)'
    BY <1>1, <1>2 DEF CommandInv, PaymentStands
  <1>6. GuardHolds(c)'
    <2>1. k.seen[1] \in Nat
      BY <1>1 DEF Command
    <2> QED
      BY <1>1, <1>2, <2>1 DEF CommandInv, GuardHolds, Reading
  <1> QED
    BY <1>3, <1>4, <1>5, <1>6 DEF CommandInv

\* Going to another place, and ending with a reply.
LEMMA Going ==
    ASSUME AgentTypeOK, NEW c \in Commands, NEW at \in Places, Goto(c, at)
    PROVE  /\ cmd' \in [Commands -> Command]
           /\ \A d \in Commands \ {c} : cmd'[d] = cmd[d]
           /\ cmd'[c] = [cmd[c] EXCEPT !.at = at]
  <1>1. cmd[c] \in Command
    BY DEF AgentTypeOK
  <1>2. [cmd[c] EXCEPT !.at = at] \in Command
    BY <1>1 DEF Command
  <1> QED
    BY <1>2 DEF AgentTypeOK, Goto

LEMMA Saying ==
    ASSUME AgentTypeOK, NEW c \in Commands, NEW reply \in Replies, Say(c, reply)
    PROVE  /\ cmd' \in [Commands -> Command]
           /\ \A d \in Commands \ {c} : cmd'[d] = cmd[d]
           /\ cmd'[c] = [cmd[c] EXCEPT !.at = "done", !.said = reply]
  <1>1. cmd[c] \in Command
    BY DEF AgentTypeOK
  <1>2. [cmd[c] EXCEPT !.at = "done", !.said = reply] \in Command
    BY <1>1 DEF Command, Places
  <1> DEFINE ended == [cmd EXCEPT ![c] = [cmd[c] EXCEPT !.at = "done", !.said = reply]]
  <1>3. cmd' = ended
    BY DEF AgentTypeOK, Say
  <1> QED
    BY <1>2, <1>3 DEF AgentTypeOK

\* A command that ends without a report on its transaction, while the chain rests.
LEMMA Ends ==
    ASSUME AgentInv, NEW c \in Commands, NEW reply \in Replies, Say(c, reply),
           reply = "paid" => fate'[c] = "PAID", reply = "refused" => fate'[c] = "REFUSED",
           reply = "declined" => fate'[c] = "MEMO",
           UNCHANGED <<vars, home, fate>>
    PROVE  Keeps(c)
  <1> DEFINE k == cmd[c]
  <1>1. CommandInv(c) /\ k \in Command /\ AgentTypeOK
    BY DEF AgentInv, AgentTypeOK
  <1>2. /\ cmd' \in [Commands -> Command]
        /\ \A d \in Commands \ {c} : cmd'[d] = cmd[d]
        /\ cmd'[c] = [k EXCEPT !.at = "done", !.said = reply]
    BY <1>1, Saying
  <1>3. AsksAsItShould(c)'
    BY <1>1, <1>2 DEF CommandInv, AsksAsItShould, IsDecline, Live, vars, Command, Reading, Unsent
  <1>4. KnowsItsFate(c)'
    BY <1>1, <1>2 DEF CommandInv, KnowsItsFate, Command, Unsent
  <1>5. PaymentStands(c)'
    BY <1>1, <1>2 DEF CommandInv, PaymentStands, Command, vars
  <1>6. GuardHolds(c)'
    BY <1>1, <1>2 DEF CommandInv, GuardHolds, Command, vars
  <1> QED
    BY <1>1, <1>2, <1>3, <1>4, <1>5, <1>6 DEF CommandInv, Keeps, AgentTypeOK

\* A command that has sent nothing and still has no rule to pay from: what it will pay, and
\* that it knows of no account to pay to, is all there is to it.
LEMMA Prepares ==
    ASSUME AgentInv, NEW c \in Commands,
           cmd[c].at \in {"idle", "key", "wait", "show", "save", "select", "open"},
           \A d \in Commands \ {c} : cmd'[d] = cmd[d],
           cmd'[c].at \in {"key", "wait", "show", "save", "select", "open", "done"},
           cmd'[c].said \in {"nothing", "error", "requested", "saved", "shown"},
           cmd'[c].op \in {"pay", "sdk", "purpose"} => cmd'[c].amount \in Amounts,
           cmd'[c].destination = NoKey,
           AgentTypeOK', UNCHANGED <<vars, fate>>
    PROVE  Keeps(c)
  <1>1. CommandInv(c) /\ fate[c] = "none"
    BY DEF AgentInv, CommandInv, KnowsItsFate, Unsent, Places
  <1>2. AsksAsItShould(c)'
    BY <1>1 DEF AsksAsItShould, Reading
  <1>3. KnowsItsFate(c)'
    BY <1>1 DEF CommandInv, KnowsItsFate
  <1>4. PaymentStands(c)' /\ GuardHolds(c)'
    BY <1>1 DEF PaymentStands, GuardHolds
  <1> QED
    BY <1>2, <1>3, <1>4 DEF Keeps, CommandInv

-----------------------------------------------------------------------------
(* What the SDK reads                                                      *)

\* The newest active rule of a key is an open rule of that key.
LEMMA NewestIsOpen ==
    ASSUME ChainInv, NEW key, NEW t, NewestActive(key, t) # NoKey
    PROVE  NewestActive(key, t) \in Mandates
  <1> DEFINE active == {m \in RulesOf(key) : IsActive(mandate[m], t)}
  <1>1. active \subseteq Mandates /\ active # {}
    BY DEF NewestActive, RulesOf
  <1>2. IsFiniteSet(active)
    <2>1. active \in SUBSET {m \in Mandates : Live(m)}
      BY DEF RulesOf
    <2> HIDE DEF active
    <2> QED BY <2>1, FS_Subset DEF ChainInv, FewAreOpen
  <1>3. \A m \in active : IdOf[m] \in Int
    BY <1>1, AgentAssumption
  <1>4. \E m \in active : \A n \in active : IdOf[n] <= IdOf[m]
    <2> HIDE DEF active
    <2> QED BY <1>1, <1>2, <1>3, LargestNumber
  <1>5. NewestActive(key, t) = CHOOSE m \in active : \A n \in active : IdOf[n] <= IdOf[m]
    BY <1>1 DEF NewestActive
  <1> QED
    <2> HIDE DEF active
    <2> QED BY <1>1, <1>4, <1>5

\* An account to pay a merchant to is one of the token accounts.
LEMMA PayeeType ==
    ASSUME NEW merchant \in Wallets
    PROVE  /\ MerchantTokenAccount(merchant) \in TokenAccounts \union {NoKey}
           /\ ReadPayeeTokenAccount(merchant) \in TokenAccounts \union {NoKey}
  <1> DEFINE listed == {a \in TokenAccounts : HolderOf[a] = merchant}
  <1>1. AtaOf[merchant] \in TokenAccounts \union {NoKey}
    BY AgentAssumption
  <1>2. Cardinality(listed) = 1 => \E a \in listed : TRUE
    BY FS_EmptySet
  <1> QED
    BY <1>1, <1>2 DEF MerchantTokenAccount, ReadPayeeTokenAccount

\* The account an agent command finds under the rule it is given.
LEMMA FoundRule ==
    ASSUME TypeOK, NEW m, NEW key, FromMandate(m, key)
    PROVE  m \in Mandates /\ Live(m) /\ key \in Wallets
  BY LiveType DEF FromMandate, MandateAccount

-----------------------------------------------------------------------------
(* Starting and connecting                                                 *)

LEMMA IdleType == Idle \in Command
  <1>1. NoBlock \in Blocks
    BY DEF NoBlock, Blocks
  <1> QED
    BY <1>1 DEF Idle, Command, Places, Replies

\* A command begins as it was asked to.
LEMMA BeginKeeps ==
    ASSUME AgentInv, NEW c \in Commands, NEW op \in Ops \union {"connect", "pay"},
           op \in {"connect", "pay", "status", "request"},
           NEW amount \in Nat, op = "pay" => amount \in Amounts, NEW flag \in BOOLEAN,
           NEW named \in Mandates \union {NoKey}, Begin(c, op, amount, flag, named)
    PROVE  Keeps(c)
  <1> DEFINE key == IF flag THEN FlagKey ELSE NoKey
             at == IF op \in {"connect", "request"} THEN "key" ELSE "select"
             k == [Idle EXCEPT !.op = op, !.amount = amount, !.rule = named, !.key = key, !.at = at]
  <1>1. key \in Wallets \union {NoKey}
    BY AgentAssumption DEF Keys
  <1>2. at \in {"key", "select"}
    OBVIOUS
  <1>3. k \in Command
    <2> HIDE DEF key, at
    <2> QED BY <1>1, <1>2, IdleType DEF Idle, Command, Places
  <1>4. /\ k.op = op /\ k.amount = amount /\ k.at \in {"key", "select"} /\ k.said = "nothing"
        /\ k.destination = NoKey
    BY <1>2 DEF Idle
  <1>5. cmd' = [cmd EXCEPT ![c] = k]
    BY DEF Begin
  <1>6. AgentTypeOK /\ cmd[c].at = "idle"
    BY DEF AgentInv, Begin
  <1>7. /\ cmd' \in [Commands -> Command] /\ cmd'[c] = k
        /\ \A d \in Commands \ {c} : cmd'[d] = cmd[d]
    <2> HIDE DEF k
    <2> QED BY <1>3, <1>5, <1>6 DEF AgentTypeOK
  <1>8. AgentTypeOK'
    BY <1>6, <1>7 DEF Begin, AgentTypeOK
  <1> HIDE DEF k
  <1> QED
    BY <1>4, <1>6, <1>7, <1>8, Prepares DEF Begin

\* An agent program begins with the block of a rule, or what became of it.
LEMMA StartSdkKeeps == ASSUME AgentInv, NEW c \in Commands, StartSdk(c) PROVE Keeps(c)
  <1> USE MandateAssumption
  <1>1. PICK op \in Ops \intersect {"sdk", "purpose"}, m \in Mandates, amount \in Amounts, t \in Times :
            /\ cmd[c].at = "idle"
            /\ HasBlock(m, t)
            /\ \E block \in BlocksOf(m) :
                  cmd' = [cmd EXCEPT ![c] =
                      [Idle EXCEPT !.op = op, !.at = "open", !.amount = amount, !.rule = m,
                                   !.block = block, !.key = mandate[m].agent]]
            /\ UNCHANGED <<vars, home, fate>>
    BY ZenonT(40) DEF StartSdk
  <1>2. PICK block \in BlocksOf(m) :
            cmd' = [cmd EXCEPT ![c] =
                [Idle EXCEPT !.op = op, !.at = "open", !.amount = amount, !.rule = m,
                             !.block = block, !.key = mandate[m].agent]]
    BY <1>1
  <1>3. mandate[m] \in MandateAccount
    BY <1>1, LiveType DEF HasBlock, AgentInv, ChainInv
  <1>4. BlockOf(m) \in Blocks
    <2>1. /\ mandate[m].agent \in Wallets /\ mandate[m].merchant \in Wallets
          /\ mandate[m].source \in TokenAccounts
      BY <1>3 DEF MandateAccount
    <2>2. ReadPayeeTokenAccount(mandate[m].merchant) \in TokenAccounts \union {NoKey}
      BY <2>1, PayeeType
    <2> QED BY <2>1, <2>2 DEF BlockOf, Blocks
  <1>5. block \in Blocks
    BY <1>4 DEF BlocksOf, Blocks
  <1> DEFINE k == [Idle EXCEPT !.op = op, !.at = "open", !.amount = amount, !.rule = m,
                               !.block = block, !.key = mandate[m].agent]
  <1>6. k \in Command
    <2>1. mandate[m].agent \in Wallets /\ amount \in Nat
      BY <1>3 DEF MandateAccount
    <2> QED BY <1>5, <2>1, IdleType DEF Idle, Command, Places
  <1>7. k.op = op /\ k.amount = amount /\ k.at = "open" /\ k.said = "nothing" /\ k.destination = NoKey
    BY DEF Idle
  <1>8. AgentTypeOK
    BY DEF AgentInv
  <1>9. /\ cmd' \in [Commands -> Command] /\ cmd'[c] = k
        /\ \A d \in Commands \ {c} : cmd'[d] = cmd[d]
    <2>1. cmd' = [cmd EXCEPT ![c] = k]
      BY <1>2
    <2> HIDE DEF k
    <2> QED BY <1>6, <1>8, <2>1 DEF AgentTypeOK
  <1>10. AgentTypeOK'
    BY <1>1, <1>8, <1>9 DEF AgentTypeOK
  <1> HIDE DEF k
  <1> QED
    BY <1>1, <1>7, <1>9, <1>10, Prepares

\* A record of a command with some of its fields changed.
LEMMA Becoming ==
    ASSUME AgentTypeOK, NEW c \in Commands, NEW new \in Command, cmd' = [cmd EXCEPT ![c] = new]
    PROVE  /\ cmd' \in [Commands -> Command]
           /\ \A d \in Commands \ {c} : cmd'[d] = cmd[d]
           /\ cmd'[c] = new
  BY DEF AgentTypeOK

Homes == [key : BOOLEAN, config : [rule : Mandates \union {NoKey}, flag : BOOLEAN]]

\* Before a rule is open, a command goes from place to place, and ends without a report.
LEMMA PlaceChanges ==
    ASSUME AgentInv, NEW c \in Commands, cmd[c].at \in {"key", "wait", "show", "save", "select", "open"},
           NEW new \in Command, cmd' = [cmd EXCEPT ![c] = new],
           new.at \in {"key", "wait", "show", "save", "select", "open", "done"},
           new.said \in {cmd[c].said, "error", "requested", "saved", "shown"},
           new.op = cmd[c].op, new.amount = cmd[c].amount, new.destination = cmd[c].destination,
           UNCHANGED <<vars, fate>>, home' \in Homes
    PROVE  Keeps(c)
  <1> DEFINE k == cmd[c]
  <1>1. AgentTypeOK /\ k \in Command /\ CommandInv(c)
    BY DEF AgentInv, AgentTypeOK
  <1>2. /\ k.destination = NoKey
        /\ k.op \in {"pay", "sdk", "purpose"} => k.amount \in Amounts
        /\ k.said \in {"nothing", "error", "requested", "saved", "shown"}
    BY <1>1 DEF CommandInv, AsksAsItShould, KnowsItsFate, Unsent, Places, Command, Replies
  <1>3. /\ cmd' \in [Commands -> Command] /\ cmd'[c] = new
        /\ \A d \in Commands \ {c} : cmd'[d] = cmd[d]
    BY <1>1, Becoming
  <1>4. AgentTypeOK'
    BY <1>1, <1>3 DEF AgentTypeOK, Homes
  <1>5. /\ cmd'[c].at \in {"key", "wait", "show", "save", "select", "open", "done"}
        /\ cmd'[c].said \in {"nothing", "error", "requested", "saved", "shown"}
        /\ cmd'[c].op \in {"pay", "sdk", "purpose"} => cmd'[c].amount \in Amounts
        /\ cmd'[c].destination = NoKey
    BY <1>2, <1>3
  <1>6. cmd[c].at \in {"idle", "key", "wait", "show", "save", "select", "open"}
    OBVIOUS
  <1> QED
    BY <1>3, <1>4, <1>5, <1>6, Prepares

\* So do the commands that connect or choose a rule.
LEMMA ConnectKeeps ==
    ASSUME AgentInv, NEW c \in Commands,
           \/ LoadOrCreateKey(c) \/ NamedRule(c) \/ RequestAndWait(c) \/ ShowRule(c) \/ SaveConfig(c)
           \/ SelectRule(c)
    PROVE  Keeps(c)
  <1> DEFINE k == cmd[c]
             To(at, key, rule, said) ==
                 cmd' = [cmd EXCEPT ![c] = [k EXCEPT !.at = at, !.key = key, !.rule = rule, !.said = said]]
  <1> USE AgentAssumption
  <1>1. /\ AgentTypeOK /\ ChainInv /\ cmd \in [Commands -> Command] /\ k \in Command
        /\ home \in Homes
    BY DEF AgentInv, AgentTypeOK, Homes
  <1>2. k.at \in {"key", "wait", "show", "save", "select"}
    BY DEF LoadOrCreateKey, NamedRule, RequestAndWait, ShowRule, SaveConfig, SelectRule
  <1>3. /\ k.key \in Wallets \union {NoKey} /\ k.rule \in Mandates \union {NoKey}
        /\ FlagKey \in Wallets /\ DefaultKey \in Wallets
    BY <1>1 DEF Command, Keys
  <1>4. ASSUME NEW at, Goto(c, at) PROVE To(at, k.key, k.rule, k.said)
    BY <1>1, <1>4 DEF Goto, Command
  <1>5. ASSUME NEW reply, Say(c, reply) PROVE To("done", k.key, k.rule, reply)
    BY <1>1, <1>5 DEF Say, Command
  <1>6. ASSUME NEW at \in {"wait", "show", "save", "open", "done"}, NEW key \in Wallets \union {NoKey},
               NEW rule \in Mandates \union {NoKey},
               NEW said \in {k.said, "error", "requested", "saved", "shown"}, To(at, key, rule, said),
               UNCHANGED <<vars, fate>>, home' \in Homes
        PROVE  Keeps(c)
    <2> DEFINE new == [k EXCEPT !.at = at, !.key = key, !.rule = rule, !.said = said]
    <2>1. at \in Places /\ said \in Replies
      BY <1>1 DEF Command, Places, Replies
    <2>2. /\ new \in Command /\ new.at = at /\ new.said = said
          /\ new.op = k.op /\ new.amount = k.amount /\ new.destination = k.destination
      BY <1>1, <2>1 DEF Command
    <2>3. cmd' = [cmd EXCEPT ![c] = new]
      BY <1>6
    <2>4. at \in {"key", "wait", "show", "save", "select", "open", "done"}
      OBVIOUS
    <2>5. k.at \in {"key", "wait", "show", "save", "select", "open"}
      BY <1>2
    <2> HIDE DEF new
    <2> QED BY <1>6, <2>2, <2>3, <2>4, <2>5, PlaceChanges
  <1>7. CASE LoadOrCreateKey(c)
    <2> DEFINE key == IF k.key = FlagKey THEN FlagKey ELSE DefaultKey
    <2>1. key \in Wallets /\ home' \in Homes
      BY <1>1, <1>3, <1>7 DEF LoadOrCreateKey, Homes
    <2>2. \/ cmd' = [cmd EXCEPT ![c].at = "done", ![c].key = key, ![c].said = "requested"]
          \/ cmd' = [cmd EXCEPT ![c].at = "wait", ![c].key = key]
      BY <1>7 DEF LoadOrCreateKey
    <2>3. To("done", key, k.rule, "requested") \/ To("wait", key, k.rule, k.said)
      <3> HIDE DEF key
      <3>1. [k EXCEPT !.at = "done", !.key = key, !.said = "requested"]
               = [k EXCEPT !.at = "done", !.key = key, !.rule = k.rule, !.said = "requested"]
        BY <1>1 DEF Command
      <3>2. [k EXCEPT !.at = "wait", !.key = key]
               = [k EXCEPT !.at = "wait", !.key = key, !.rule = k.rule, !.said = k.said]
        BY <1>1 DEF Command
      <3> QED BY <1>1, <2>2, <3>1, <3>2, ZenonT(40)
    <2> QED
      <3> HIDE DEF key, To
      <3> QED BY <1>3, <1>6, <1>7, <2>1, <2>3 DEF LoadOrCreateKey
  <1>8. CASE NamedRule(c) \/ ShowRule(c)
    <2>1. Goto(c, "show") \/ Goto(c, "save") \/ Say(c, "error")
      BY <1>8 DEF NamedRule, ShowRule
    <2> HIDE DEF To
    <2> QED BY <1>1, <1>3, <1>4, <1>5, <1>6, <1>8, <2>1 DEF NamedRule, ShowRule, ReadOnly
  <1>9. CASE RequestAndWait(c)
    <2>1. PICK t \in Times :
              /\ NewestActive(k.key, t) # NoKey
              /\ cmd' = [cmd EXCEPT ![c].at = "show", ![c].rule = NewestActive(k.key, t)]
      BY <1>9 DEF RequestAndWait
    <2> DEFINE rule == NewestActive(k.key, t)
    <2>2. rule \in Mandates
      BY <1>1, <2>1, NewestIsOpen
    <2>3. To("show", k.key, rule, k.said)
      <3> HIDE DEF rule
      <3> QED BY <1>1, <2>1 DEF Command, rule
    <2> HIDE DEF To, rule
    <2> QED BY <1>1, <1>3, <1>6, <1>9, <2>2, <2>3 DEF RequestAndWait, ReadOnly
  <1>10. CASE SaveConfig(c)
    <2> HIDE DEF To
    <2>1. home' \in Homes
      BY <1>1, <1>3, <1>10 DEF SaveConfig, Homes
    <2> QED BY <1>3, <1>5, <1>6, <1>10, <2>1 DEF SaveConfig
  <1>11. CASE SelectRule(c)
    <2> HIDE DEF To
    <2>1. CASE Say(c, "error")
      BY <1>1, <1>3, <1>5, <1>6, <1>11, <2>1 DEF SelectRule, ReadOnly
    <2>2. CASE ~Say(c, "error")
      <3>1. PICK rule :
                /\ rule # NoKey
                /\ \/ rule = home.config.rule \/ rule = k.rule
                   \/ \E t \in Times : rule = NewestActive(SavedKey, t)
                /\ cmd' = [cmd EXCEPT ![c].at = "open", ![c].key = SavedKey, ![c].rule = rule]
        BY <1>11, <2>2 DEF SelectRule
      <3>2. rule \in Mandates
        BY <1>1, <1>3, <3>1, NewestIsOpen DEF Homes
      <3>3. SavedKey \in Wallets \union {NoKey}
        BY <1>3 DEF SavedKey
      <3>4. To("open", SavedKey, rule, k.said)
        BY <1>1, <3>1 DEF Command, To
      <3> QED BY <1>1, <1>6, <1>11, <3>2, <3>3, <3>4 DEF SelectRule, ReadOnly
    <2> QED
      BY <2>1, <2>2
  <1> QED
    BY <1>7, <1>8, <1>9, <1>10, <1>11

-----------------------------------------------------------------------------
(* Reading a rule and charging                                             *)

\* A command that has a rule and has sent nothing yet.
LEMMA Reads ==
    ASSUME AgentInv, NEW c \in Commands, cmd[c].at \in Unsent, cmd[c].at # "send",
           NEW new \in Command, cmd' = [cmd EXCEPT ![c] = new],
           new.at \in {"nonce", "check", "load", "send", "decline"},
           new.op = cmd[c].op, new.rule = cmd[c].rule, new.key = cmd[c].key,
           new.amount = cmd[c].amount, new.said = cmd[c].said,
           new.op \in {"pay", "sdk", "purpose"}, new.rule \in Mandates, Live(new.rule),
           new.key \in Wallets,
           new.at # "nonce" => new.nonce \in Nonces,
           new.destination = NoKey \/ (new.at = "send" /\ new.destination \in TokenAccounts),
           new.at = "send" => new.destination \in TokenAccounts,
           new.at \in {"check", "decline"} => new.op = "purpose",
           new.at = "send" /\ new.op = "pay" =>
               \/ new.seen[1] # new.nonce \/ new.seen[2] = new.amount
               \/ new.seen[1] <= mandate[new.rule].last_nonce,
           UNCHANGED <<vars, home, fate>>
    PROVE  Keeps(c)
  <1> DEFINE k == cmd[c]
  <1>1. AgentTypeOK /\ k \in Command /\ CommandInv(c)
    BY DEF AgentInv, AgentTypeOK
  <1>2. fate[c] = "none" /\ new.said \notin {"paid", "refused", "declined"}
    BY <1>1 DEF CommandInv, KnowsItsFate, Unsent
  <1>3. k.op \in {"pay", "sdk", "purpose"} => k.amount \in Amounts
    BY <1>1 DEF CommandInv, AsksAsItShould
  <1>4. /\ cmd' \in [Commands -> Command] /\ cmd'[c] = new
        /\ \A d \in Commands \ {c} : cmd'[d] = cmd[d]
    BY <1>1, Becoming
  <1>5. AgentTypeOK'
    BY <1>1, <1>4 DEF AgentTypeOK
  <1>6. Live(new.rule)' /\ mandate' = mandate /\ fate' = fate
    BY DEF vars, Live
  <1>7. AsksAsItShould(c)'
    BY <1>2, <1>3, <1>4, <1>6, MandateAssumption DEF AsksAsItShould, Reading, Unsent, IsDecline, Live
  <1>8. KnowsItsFate(c)' /\ PaymentStands(c)'
    BY <1>2, <1>4, <1>6 DEF KnowsItsFate, PaymentStands
  <1>9. GuardHolds(c)'
    BY <1>2, <1>4, <1>6 DEF GuardHolds
  <1> QED
    BY <1>4, <1>5, <1>6, <1>7, <1>8, <1>9 DEF Keeps, CommandInv

\* Every read that fails, and every error, ends a command.
LEMMA FailsKeeps ==
    ASSUME AgentInv, NEW c \in Commands, NEW reply \in {"error", "shown"}, Say(c, reply),
           UNCHANGED <<vars, home, fate>>
    PROVE  Keeps(c)
  BY Ends DEF Replies

\* Opening the rule of a command.
LEMMA OpenKeeps ==
    ASSUME AgentInv, NEW c \in Commands, OpenRule(c) \/ OpenFromConfig(c)
    PROVE  Keeps(c)
  <1> DEFINE k == cmd[c]
  <1>1. /\ AgentTypeOK /\ TypeOK /\ CommandInv(c) /\ k.at = "open"
        /\ cmd \in [Commands -> Command] /\ k \in Command
        /\ UNCHANGED <<vars, home, fate>>
    BY DEF AgentInv, AgentTypeOK, ChainInv, OpenRule, OpenFromConfig, ReadOnly
  <1>2. \/ \E reply \in {"error", "shown"} : Say(c, reply)
        \/ \E block \in {k.block, NoBlock} :
              /\ k.op \in {"pay", "sdk", "purpose"} /\ FromMandate(k.rule, k.key)
              /\ cmd' = [cmd EXCEPT ![c] = [k EXCEPT !.at = "nonce", !.block = block]]
    <2>1. CASE OpenRule(c)
      <3>1. \/ \E reply \in {"error", "shown"} : Say(c, reply)
            \/ k.op = "pay" /\ FromMandate(k.rule, k.key) /\ Goto(c, "nonce")
        BY <2>1 DEF OpenRule
      <3>2. [k EXCEPT !.at = "nonce", !.block = k.block] = [k EXCEPT !.at = "nonce"]
        BY <1>1 DEF Command
      <3> QED BY <1>1, <3>1, <3>2 DEF Goto
    <2>2. CASE OpenFromConfig(c)
      BY <1>1, <2>2 DEF OpenFromConfig, FromConfig
    <2> QED BY <2>1, <2>2
  <1>3. ASSUME NEW block \in {k.block, NoBlock}, k.op \in {"pay", "sdk", "purpose"},
               FromMandate(k.rule, k.key),
               cmd' = [cmd EXCEPT ![c] = [k EXCEPT !.at = "nonce", !.block = block]]
        PROVE  Keeps(c)
    <2> DEFINE new == [k EXCEPT !.at = "nonce", !.block = block]
    <2>1. block \in Blocks
      BY <1>1, IdleType DEF Command, Idle
    <2>2. /\ new \in Command /\ new.at = "nonce" /\ new.op = k.op /\ new.rule = k.rule
          /\ new.key = k.key /\ new.amount = k.amount /\ new.said = k.said
          /\ new.destination = k.destination
      BY <1>1, <2>1 DEF Command, Places
    <2>3. cmd' = [cmd EXCEPT ![c] = new]
      BY <1>3
    <2>4. k.rule \in Mandates /\ Live(k.rule) /\ k.key \in Wallets
      BY <1>1, <1>3, FoundRule
    <2>5. k.destination = NoKey /\ k.at \in Unsent /\ k.at # "send"
      BY <1>1 DEF CommandInv, AsksAsItShould, Unsent, Places
    <2> HIDE DEF new
    <2> QED BY <1>1, <1>3, <2>2, <2>3, <2>4, <2>5, Reads
  <1> QED
    BY <1>1, <1>2, <1>3, FailsKeeps

\* The nonce it takes is one of those charges may name.
LEMMA NonceKeeps == ASSUME AgentInv, NEW c \in Commands, NextNonce(c) PROVE Keeps(c)
  <1> DEFINE k == cmd[c]
             nonce == NextNonceOf(mandate[k.rule])
             at == IF k.op = "purpose" THEN "check" ELSE "load"
             new == [k EXCEPT !.nonce = nonce, !.at = at]
  <1>1. /\ AgentTypeOK /\ TypeOK /\ OverridesWereAsked /\ CommandInv(c) /\ k.at = "nonce"
        /\ cmd \in [Commands -> Command] /\ k \in Command
        /\ UNCHANGED <<vars, home, fate>>
    BY DEF AgentInv, AgentTypeOK, ChainInv, NextNonce, ReadOnly
  <1>2. CASE Say(c, "error")
    BY <1>1, <1>2, FailsKeeps
  <1>3. CASE ~Say(c, "error")
    <2>1. Live(k.rule) /\ nonce # 0 /\ cmd' = [cmd EXCEPT ![c] = new]
      BY <1>3 DEF NextNonce
    <2>2. /\ k.op \in {"pay", "sdk", "purpose"} /\ k.rule \in Mandates /\ k.key \in Wallets
          /\ k.destination = NoKey /\ k.at \in Unsent /\ k.at # "send"
      BY <1>1 DEF CommandInv, AsksAsItShould, Reading, Unsent, Places
    <2>3. nonce \in Nonces /\ nonce \in Nat
      <3>1. mandate[k.rule] \in MandateAccount
        BY <1>1, <2>1, <2>2, LiveType
      <3>2. mandate[k.rule].override_nonce \in Nonces \union {0}
        BY <1>1, <2>2 DEF OverridesWereAsked
      <3>3. mandate[k.rule].last_nonce \in Nat /\ mandate[k.rule].override_nonce \in Nat
        BY <3>1 DEF MandateAccount
      <3> QED
        BY <2>1, <3>2, <3>3, AgentAssumption, MandateAssumption DEF NextNonceOf
    <2> HIDE DEF nonce
    <2>4. at \in {"check", "load"} /\ (at = "check" => k.op = "purpose")
      OBVIOUS
    <2> HIDE DEF at
    <2>5. /\ new \in Command /\ new.at = at /\ new.op = k.op /\ new.rule = k.rule
          /\ new.key = k.key /\ new.amount = k.amount /\ new.said = k.said
          /\ new.destination = k.destination /\ new.nonce = nonce
      BY <1>1, <2>3, <2>4 DEF Command, Places
    <2> HIDE DEF new
    <2> QED BY <1>1, <2>1, <2>2, <2>3, <2>4, <2>5, Reads
  <1> QED
    BY <1>2, <1>3

\* The caller's check allows a charge or declines it.
LEMMA CheckKeeps == ASSUME AgentInv, NEW c \in Commands, PurposeCheck(c) PROVE Keeps(c)
  <1> DEFINE k == cmd[c]
  <1>1. /\ AgentTypeOK /\ CommandInv(c) /\ k.at = "check"
        /\ cmd \in [Commands -> Command] /\ k \in Command
        /\ UNCHANGED <<vars, home, fate>>
    BY DEF AgentInv, AgentTypeOK, PurposeCheck, ReadOnly
  <1>2. Say(c, "error") \/ \E at \in {"load", "decline"} : Goto(c, at)
    BY DEF PurposeCheck
  <1>3. ASSUME NEW at \in {"load", "decline"}, Goto(c, at) PROVE Keeps(c)
    <2> DEFINE new == [k EXCEPT !.at = at]
    <2>1. /\ new \in Command /\ new.at = at /\ new.op = k.op /\ new.rule = k.rule
          /\ new.key = k.key /\ new.amount = k.amount /\ new.said = k.said
          /\ new.destination = k.destination /\ new.nonce = k.nonce
      BY <1>1 DEF Command, Places
    <2>2. cmd' = [cmd EXCEPT ![c] = new]
      BY <1>1, <1>3 DEF Goto
    <2>3. /\ k.op = "purpose" /\ k.rule \in Mandates /\ Live(k.rule) /\ k.key \in Wallets
          /\ k.nonce \in Nonces
          /\ k.destination = NoKey /\ k.at \in Unsent /\ k.at # "send"
      BY <1>1 DEF CommandInv, AsksAsItShould, Reading, Unsent, Places
    <2> HIDE DEF new
    <2> QED BY <1>1, <2>1, <2>2, <2>3, Reads
  <1> QED
    BY <1>1, <1>2, <1>3, FailsKeeps

\* The guard of `veto pay` is passed on what the rule then says.
LEMMA LoadKeeps == ASSUME AgentInv, NEW c \in Commands, ChargeLoad(c) PROVE Keeps(c)
  <1> DEFINE k == cmd[c]
             md == mandate[k.rule]
             dst == MerchantTokenAccount(md.merchant)
             seen == <<md.override_nonce, md.override_amount>>
             new == [k EXCEPT !.at = "send", !.destination = dst, !.seen = seen]
  <1>1. /\ AgentTypeOK /\ TypeOK /\ CommandInv(c) /\ k.at = "load"
        /\ cmd \in [Commands -> Command] /\ k \in Command
        /\ UNCHANGED <<vars, home, fate>>
    BY DEF AgentInv, AgentTypeOK, ChainInv, ChargeLoad, ReadOnly
  <1>2. CASE Say(c, "error")
    BY <1>1, <1>2, FailsKeeps
  <1>3. CASE ~Say(c, "error")
    <2>1. /\ Live(k.rule) /\ dst # NoKey
          /\ ~(k.op = "pay" /\ WouldClearOverride(md, k.amount, k.nonce))
          /\ cmd' = [cmd EXCEPT ![c] = new]
      BY <1>3 DEF ChargeLoad
    <2>2. /\ k.op \in {"pay", "sdk", "purpose"} /\ k.rule \in Mandates /\ k.key \in Wallets
          /\ k.nonce \in Nonces /\ k.at \in Unsent /\ k.at # "send"
      BY <1>1 DEF CommandInv, AsksAsItShould, Reading, Unsent, Places
    <2>3. md \in MandateAccount
      BY <1>1, <2>1, <2>2, LiveType
    <2>4. dst \in TokenAccounts
      <3>1. md.merchant \in Wallets
        BY <2>3 DEF MandateAccount
      <3> QED BY <2>1, <3>1, PayeeType
    <2>5. seen \in Nat \X Nat /\ seen[1] = md.override_nonce /\ seen[2] = md.override_amount
          /\ md.override_nonce \in Nat /\ md.last_nonce \in Nat
      BY <2>3 DEF MandateAccount
    <2>6. k.op = "pay" => seen[1] # k.nonce \/ seen[2] = k.amount \/ seen[1] <= md.last_nonce
      BY <2>1, <2>5 DEF WouldClearOverride
    <2> HIDE DEF dst, seen, md
    <2>7. /\ new \in Command /\ new.at = "send" /\ new.op = k.op /\ new.rule = k.rule
          /\ new.key = k.key /\ new.amount = k.amount /\ new.said = k.said
          /\ new.destination = dst /\ new.nonce = k.nonce /\ new.seen = seen
      BY <1>1, <2>4, <2>5 DEF Command, Places
    <2>8. new.at = "send" /\ new.op = "pay" =>
              \/ new.seen[1] # new.nonce \/ new.seen[2] = new.amount
              \/ new.seen[1] <= mandate[new.rule].last_nonce
      BY <2>6, <2>7 DEF md
    <2> HIDE DEF new
    <2> QED BY <1>1, <2>1, <2>2, <2>4, <2>7, <2>8, Reads
  <1> QED
    BY <1>2, <1>3

\* One transaction is sent, for a charge or for a decline.
LEMMA SubmitKeeps == ASSUME AgentInv, NEW c \in Commands, Submit(c) PROVE Keeps(c)
  <1> DEFINE k == cmd[c]
  <1>1. /\ AgentTypeOK /\ CommandInv(c) /\ k.at \in {"send", "decline"}
        /\ k \in Command /\ UNCHANGED <<vars, home>>
        /\ fate' = [fate EXCEPT ![c] = "flying"]
    BY DEF AgentInv, AgentTypeOK, Submit
  <1>2. /\ cmd' \in [Commands -> Command]
        /\ \A d \in Commands \ {c} : cmd'[d] = cmd[d]
        /\ \/ cmd'[c] = [k EXCEPT !.at = "confirm"]
           \/ cmd'[c] = [k EXCEPT !.at = "done", !.said = "error"]
    BY <1>1, Going, Saying DEF Submit, Places, Replies
  <1>3. /\ cmd'[c].at \in {"confirm", "done"} /\ cmd'[c].said \in {k.said, "error"}
        /\ cmd'[c].op = k.op /\ cmd'[c].rule = k.rule /\ cmd'[c].key = k.key
        /\ cmd'[c].amount = k.amount /\ cmd'[c].nonce = k.nonce
        /\ cmd'[c].destination = k.destination /\ cmd'[c].seen = k.seen
    BY <1>1, <1>2, ZenonT(40) DEF Command
  <1>4. /\ fate' \in [Commands -> {"none", "flying", "PAID", "REFUSED", "MEMO", "EXPIRED"}]
        /\ fate'[c] = "flying" /\ \A d \in Commands \ {c} : fate'[d] = fate[d]
    BY <1>1 DEF AgentTypeOK
  <1>5. AgentTypeOK'
    BY <1>1, <1>2, <1>4 DEF AgentTypeOK
  <1>6. /\ k.op \in {"pay", "sdk", "purpose"} /\ k.amount \in Amounts /\ k.rule \in Mandates
        /\ Live(k.rule) /\ k.key \in Wallets /\ k.nonce \in Nonces
        /\ k.said \notin {"paid", "refused", "declined"}
    BY <1>1 DEF CommandInv, AsksAsItShould, KnowsItsFate, Reading
  <1>7. k.destination \in TokenAccounts \/ (k.op = "purpose" /\ k.destination = NoKey)
    BY <1>1 DEF CommandInv, AsksAsItShould, Unsent, Places
  <1>8. AsksAsItShould(c)'
    BY <1>1, <1>3, <1>4, <1>6, <1>7 DEF AsksAsItShould, IsDecline, Reading, Unsent, Live, vars
  <1>9. KnowsItsFate(c)' /\ PaymentStands(c)'
    BY <1>3, <1>4, <1>6 DEF KnowsItsFate, PaymentStands, Unsent
  <1>10. GuardHolds(c)'
    <2>1. k.op = "pay" => k.at = "send"
      BY <1>1 DEF CommandInv, AsksAsItShould
    <2> QED BY <1>1, <1>3, <2>1 DEF CommandInv, GuardHolds, vars
  <1> QED
    BY <1>2, <1>4, <1>5, <1>8, <1>9, <1>10 DEF Keeps, CommandInv

\* Its confirmation is followed by the reading of the decision, and that by the report.
LEMMA ConfirmKeeps ==
    ASSUME AgentInv, NEW c \in Commands, Confirm(c) \/ ReadDecision(c) \/ Fails(c)
    PROVE  Keeps(c)
  <1> DEFINE k == cmd[c]
  <1>1. AgentTypeOK /\ CommandInv(c) /\ k \in Command /\ UNCHANGED <<vars, home, fate>>
    BY DEF AgentInv, AgentTypeOK, Confirm, ReadDecision, Fails, ReadOnly
  <1>2. \/ Say(c, "error")
        \/ Say(c, "paid") /\ fate[c] = "PAID"
        \/ Say(c, "refused") /\ fate[c] = "REFUSED"
        \/ Say(c, "declined") /\ fate[c] = "MEMO"
        \/ Goto(c, "read") /\ fate[c] \in {"PAID", "REFUSED"} /\ k.at = "confirm"
    BY <1>1 DEF Confirm, ReadDecision, Fails, CommandInv, KnowsItsFate
  <1>3. ASSUME NEW reply \in {"error", "paid", "refused", "declined"}, Say(c, reply),
               reply = "paid" => fate[c] = "PAID", reply = "refused" => fate[c] = "REFUSED",
               reply = "declined" => fate[c] = "MEMO"
        PROVE  Keeps(c)
    BY <1>1, <1>3, Ends DEF Replies
  <1>4. ASSUME Goto(c, "read"), fate[c] \in {"PAID", "REFUSED"}, k.at = "confirm"
        PROVE  Keeps(c)
    <2>1. /\ cmd' \in [Commands -> Command]
          /\ \A d \in Commands \ {c} : cmd'[d] = cmd[d]
          /\ cmd'[c] = [k EXCEPT !.at = "read"]
      BY <1>1, <1>4, Going DEF Places
    <2>2. /\ cmd'[c].at = "read" /\ cmd'[c].said = k.said
          /\ cmd'[c].op = k.op /\ cmd'[c].rule = k.rule /\ cmd'[c].key = k.key
          /\ cmd'[c].amount = k.amount /\ cmd'[c].nonce = k.nonce
          /\ cmd'[c].destination = k.destination /\ cmd'[c].seen = k.seen
      BY <1>1, <2>1 DEF Command
    <2>3. AgentTypeOK'
      BY <1>1, <2>1 DEF AgentTypeOK
    <2>4. AsksAsItShould(c)'
      BY <1>1, <1>4, <2>2 DEF CommandInv, AsksAsItShould, IsDecline, Reading, Unsent, Live, vars
    <2>5. KnowsItsFate(c)'
      BY <1>1, <1>4, <2>2 DEF CommandInv, KnowsItsFate, Unsent
    <2>6. PaymentStands(c)' /\ GuardHolds(c)'
      BY <1>1, <1>4, <2>2 DEF CommandInv, PaymentStands, GuardHolds, vars
    <2> QED
      BY <1>1, <2>1, <2>3, <2>4, <2>5, <2>6 DEF Keeps, CommandInv
  <1> QED
    BY <1>2, <1>3, <1>4

\* The transaction is decided by the program, or too old.
LEMMA LandKeeps ==
    ASSUME AgentInv, RuleStep, NEW c \in Commands, Land(c) \/ Expire(c)
    PROVE  Keeps(c)
  <1> DEFINE k == cmd[c]
  <1>1. /\ AgentTypeOK /\ ChainInv /\ TypeOK /\ CommandInv(c) /\ k \in Command
        /\ fate[c] = "flying" /\ UNCHANGED <<home, cmd>>
    BY DEF AgentInv, AgentTypeOK, ChainInv, Land, Expire
  <1>2. PICK new \in {"MEMO", "PAID", "REFUSED", "EXPIRED"} :
            /\ fate' = [fate EXCEPT ![c] = new]
            /\ new = "PAID" =>
                  /\ ~IsDecline(c) /\ paid' # paid
                  /\ Charge(k.rule, k.key, k.destination, k.amount, k.nonce)
    BY DEF Land, Expire
  <1>3. /\ fate' \in [Commands -> {"none", "flying", "PAID", "REFUSED", "MEMO", "EXPIRED"}]
        /\ fate'[c] = new /\ \A d \in Commands \ {c} : fate'[d] = fate[d]
    BY <1>1, <1>2 DEF AgentTypeOK
  <1>4. AgentTypeOK'
    BY <1>1, <1>3 DEF AgentTypeOK
  <1>5. /\ k.rule \in Mandates /\ Live(k.rule)'
        /\ mandate[k.rule].last_nonce \in Nat /\ mandate'[k.rule].last_nonce \in Nat
        /\ mandate'[k.rule].last_nonce >= mandate[k.rule].last_nonce
    BY <1>1, RulesStay DEF CommandInv, AsksAsItShould
  <1>6. AsksAsItShould(c)'
    BY <1>1, <1>3, <1>5 DEF CommandInv, AsksAsItShould, IsDecline, Live
  <1>7. KnowsItsFate(c)'
    BY <1>1, <1>3 DEF CommandInv, KnowsItsFate, Unsent
  <1>8. PaymentStands(c)'
    <2> SUFFICES ASSUME new = "PAID"
                 PROVE  \E i \in DOMAIN paid'[k.rule] :
                            /\ paid'[k.rule][i].nonce = k.nonce
                            /\ paid'[k.rule][i].amount = k.amount
      BY <1>1, <1>3 DEF PaymentStands
    <2>1. k.destination \in TokenAccounts /\ k.amount \in Nat /\ k.nonce \in Nat
      BY <1>1, <1>2, MandateAssumption DEF CommandInv, AsksAsItShould
    <2>2. ChargePaid(k.rule, k.destination, k.amount, k.nonce)
      BY <1>2 DEF Charge, ChargeRefused
    <2> DEFINE p == [nonce |-> k.nonce, amount |-> k.amount, destination |-> k.destination]
    <2>3. p \in Payment /\ paid[k.rule] \in Seq(Payment) /\ paid'[k.rule] = Append(paid[k.rule], p)
      BY <1>1, <1>5, <2>1, <2>2 DEF ChargePaid, TypeOK, Payment
    <2>4. p.nonce = k.nonce /\ p.amount = k.amount
      OBVIOUS
    <2> HIDE DEF p
    <2>5. Len(paid[k.rule]) + 1 \in DOMAIN paid'[k.rule] /\ paid'[k.rule][Len(paid[k.rule]) + 1] = p
      BY <2>3, AppendFacts
    <2> QED
      BY <2>4, <2>5
  <1>9. GuardHolds(c)'
    <2>1. k.seen[1] \in Nat
      BY <1>1 DEF Command
    <2> QED BY <1>1, <1>5, <2>1 DEF CommandInv, GuardHolds
  <1> QED
    BY <1>1, <1>3, <1>4, <1>6, <1>7, <1>8, <1>9 DEF Keeps, CommandInv

-----------------------------------------------------------------------------
(* The theorems                                                            *)

\* It holds initially, and every step keeps it.
LEMMA AgentInitInv == AgentInit => AgentInv
  <1> SUFFICES ASSUME AgentInit PROVE AgentInv
    OBVIOUS
  <1>1. ChainInv
    BY InitChain DEF AgentInit
  <1>2. home \in Homes
    <2> DEFINE Configs == [rule : Mandates \union {NoKey}, flag : BOOLEAN]
    <2>1. NoConfig \in Configs /\ [rule : Mandates, flag : {FALSE}] \subseteq Configs
      BY DEF NoConfig
    <2>2. \/ home \in [key : {FALSE}, config : {NoConfig}]
          \/ home \in [key : {TRUE}, config : [rule : Mandates, flag : {FALSE}]]
      BY DEF AgentInit
    <2>3. home \in [key : BOOLEAN, config : Configs]
      <3> HIDE DEF Configs
      <3> QED BY <2>1, <2>2
    <2> QED
      BY <2>3 DEF Homes
  <1>3. AgentTypeOK
    BY <1>2, IdleType DEF AgentInit, AgentTypeOK, Homes
  <1>4. ASSUME NEW c \in Commands PROVE CommandInv(c)
    <2>1. cmd[c] = Idle /\ fate[c] = "none"
      BY DEF AgentInit
    <2> QED
      BY <2>1 DEF CommandInv, AsksAsItShould, KnowsItsFate, PaymentStands, GuardHolds, Idle, Reading
  <1> QED
    BY <1>1, <1>3, <1>4 DEF AgentInv

LEMMA AgentStep == AgentInv /\ [AgentNext]_allVars => AgentInv'
  <1> SUFFICES ASSUME AgentInv, [AgentNext]_allVars PROVE AgentInv'
    OBVIOUS
  <1> USE MandateAssumption
  <1>1. RuleStep
    BY RulesTakeTheirSteps
  <1>2. ChainInv'
    BY <1>1, RuleStepsAreNext, ChainKept DEF AgentInv
  <1>3. ASSUME NEW c \in Commands, Keeps(c) PROVE AgentInv'
    BY <1>1, <1>2, <1>3, CommandStands DEF Keeps, AgentInv
  <1>4. ASSUME UNCHANGED agentVars PROVE AgentInv'
    <2>1. cmd' = cmd /\ fate' = fate /\ home' = home
      BY <1>4 DEF agentVars
    <2> QED
      BY <1>1, <1>2, <2>1, CommandStands DEF AgentInv, AgentTypeOK
  <1>5. ASSUME NEW c \in Commands,
               ("connect" \in Ops /\ StartConnect(c)) \/ ("pay" \in Ops /\ StartPay(c)) \/ StartOther(c)
        PROVE  Keeps(c)
    <2>1. CASE StartConnect(c)
      BY <2>1, BeginKeeps DEF StartConnect
    <2>2. CASE StartPay(c)
      BY <2>2, BeginKeeps DEF StartPay
    <2>3. CASE StartOther(c)
      BY <2>3, BeginKeeps DEF StartOther
    <2> QED
      BY <1>5, <2>1, <2>2, <2>3
  <1>6. ASSUME NEW c \in Commands, StartSdk(c) \/ Step(c) \/ Fails(c) \/ Land(c) \/ Expire(c)
        PROVE  Keeps(c)
    BY <1>1, <1>6, StartSdkKeeps, ConnectKeeps, OpenKeeps, NonceKeeps, CheckKeeps, LoadKeeps,
       SubmitKeeps, ConfirmKeeps, LandKeeps DEF Step
  <1>7. (\E m \in Mandates : OwnerAllows(m) \/ OwnerOpens(m) \/ OwnerRevokes(m)) \/ ClockTicks
        \/ UNCHANGED allVars => UNCHANGED agentVars
    BY DEF OwnerAllows, OwnerOpens, OwnerRevokes, ClockTicks, agentVars, allVars
  <1> QED
    BY <1>3, <1>4, <1>5, <1>6, <1>7 DEF AgentNext

\* Whatever the commands do and however late their transactions land, the chain takes only
\* the steps of Mandate: everything proved of mandates holds of those an agent charges.
THEOREM AgentsUseTheProgram == AgentSpec => Spec
  <1>1. AgentInit => Init
    BY DEF AgentInit
  <1>2. AgentInv /\ [AgentNext]_allVars => [Next]_vars
    BY RulesTakeTheirSteps, RuleStepsAreNext
  <1> QED
    BY <1>1, <1>2, AgentInitInv, AgentStep, PTL DEF AgentSpec, Spec

\* A command reports what its own transaction did, for any number of commands that run at
\* once, with reads that fail and transactions that land late.
THEOREM CommandsTellTheTruth == AgentSpec => []ReportsAreTrue
  <1>1. AgentInv => ReportsAreTrue
    BY DEF AgentInv, CommandInv, KnowsItsFate, PaymentStands, ReportsAreTrue
  <1> QED
    BY <1>1, AgentInitInv, AgentStep, PTL DEF AgentSpec

\* What a charge pays has a nonce above the last.
LEMMA PaidNonceIsNew ==
    ASSUME NEW m, NEW dst, NEW amount \in Nat, NEW nonce, ChargePaid(m, dst, amount, nonce)
    PROVE  ~(nonce <= mandate[m].last_nonce)
  <1>1. Evaluate(m, mandate[m], token, dst, amount, nonce, now) = "OK"
    BY DEF ChargePaid
  <1> QED
    BY <1>1 DEF Evaluate, StaleNonce

\* The guard of `veto pay` protects the override it saw until its payment lands.
THEOREM OverridesAreKept == AgentSpec => SeenOverrideIsKept
  <1>1. AgentInv /\ [AgentNext]_allVars =>
          [\A c \in Commands :
              LET md == mandate[cmd[c].rule] IN
              (fate[c] = "flying" /\ fate'[c] = "PAID" /\ cmd[c].op = "pay"
                 /\ cmd[c].seen = <<md.override_nonce, md.override_amount>>
                 /\ md.override_nonce = cmd[c].nonce /\ md.override_nonce > 0)
              => cmd[c].amount = md.override_amount]_allVars
    <2> SUFFICES ASSUME AgentInv, AgentNext, NEW c \in Commands,
                        fate[c] = "flying", fate'[c] = "PAID", cmd[c].op = "pay",
                        cmd[c].seen = <<mandate[cmd[c].rule].override_nonce,
                                        mandate[cmd[c].rule].override_amount>>,
                        mandate[cmd[c].rule].override_nonce = cmd[c].nonce
                 PROVE  cmd[c].amount = mandate[cmd[c].rule].override_amount
      OBVIOUS
    <2> DEFINE k == cmd[c]
               md == mandate[k.rule]
    <2>1. CommandInv(c) /\ TypeOK /\ AgentTypeOK
      BY DEF AgentInv, ChainInv
    <2>2. Land(c)
      <3>1. ASSUME NEW d \in Commands, Land(d) PROVE d = c
        BY <2>1, <3>1 DEF Land, AgentTypeOK
      <3>2. ASSUME NEW d \in Commands, Submit(d) \/ Expire(d) PROVE FALSE
        BY <2>1, <3>2 DEF Submit, Expire, AgentTypeOK
      <3>3. ASSUME fate' = fate PROVE FALSE
        BY <3>3
      <3> QED
        BY <3>1, <3>2, <3>3, ZenonT(40)
        DEF AgentNext, StartConnect, StartPay, StartOther, StartSdk, Begin, Step, Fails,
            LoadOrCreateKey, NamedRule, RequestAndWait, ShowRule, SaveConfig, SelectRule,
            OpenRule, OpenFromConfig, NextNonce, PurposeCheck, ChargeLoad, Confirm,
            ReadDecision, ReadOnly, OwnerAllows, OwnerOpens, OwnerRevokes, ClockTicks, agentVars
    <2>3. /\ paid' # paid /\ Charge(k.rule, k.key, k.destination, k.amount, k.nonce)
          /\ k.rule \in Mandates /\ k.amount \in Nat /\ k.nonce \in Nat
      BY <2>1, <2>2, MandateAssumption DEF Land, CommandInv, AsksAsItShould, AgentTypeOK
    <2>4. ChargePaid(k.rule, k.destination, k.amount, k.nonce)
      BY <2>3 DEF Charge, ChargeRefused
    <2>5. ~(k.nonce <= md.last_nonce)
      <3> HIDE DEF k
      <3> QED BY ONLY <2>3, <2>4, PaidNonceIsNew
    <2>6. k.seen[1] = md.override_nonce /\ k.seen[2] = md.override_amount
      OBVIOUS
    <2> QED
      BY <2>1, <2>5, <2>6 DEF CommandInv, GuardHolds
  <1> QED
    BY <1>1, AgentInitInv, AgentStep, PTL DEF AgentSpec, SeenOverrideIsKept

-----------------------------------------------------------------------------
(* The watcher's journal. A row that settles a slot is backed by the chain *)
(* because what a pass has read can only be added to. A slot is charged    *)
(* once for each transaction nobody heard of, and once more, because the   *)
(* answer that was heard is in a row that lasts before the pass moves on,  *)
(* and a pass that begins later works from what lasts.                     *)

\* What survives a crash of the watcher: the stored object, or the file without one.
Lasting == IF Remote THEN store ELSE local

\* Between the choice of a slot and the row that ends its turn.
Working == PCs \ {"idle", "ring", "walk", "upload", "next", "persist"}

\* A transaction is known by its id, and the one the pass waits for charges its slot.
IdsAreKnown ==
    /\ job.tx <= sent
    /\ \A i \in DOMAIN log : log[i].id <= sent /\ (log[i].id = job.tx => log[i].nonce = job.slot)
    /\ \A tx \in flight : tx.id <= sent /\ (tx.id = job.tx => tx.nonce = job.slot)

\* What a pass has read of the chain was so, and remains so as the chain only grows.
ReadsWereSo ==
    /\ job.settled \in {0} \union PaidNonces(log)
    /\ job.pc = "walk" => job.seen <= Len(log)

\* A pass begins from the journal that lasts and works on slots without a row.
WorksOnOpenSlots ==
    /\ job.pc # "idle" => Lasting \subseteq local
    /\ job.pc \in Working \union {"persist"} => job.slot \in SlotNonces
    /\ job.pc \in Working => ~ HasNonce(local, job.slot)
    /\ job.pc \in {"idle", "ring", "walk", "upload"} => job.tx = 0
    /\ job.tx # 0 /\ job.pc # "next" => job.slot \in SlotNonces /\ unanswered[job.slot] > 0

\* A slot is closed once a row that lasts settles it and the pass is done with it.
Closed(s) == HasNonce(Lasting, s) /\ ~ (job.pc = "persist" /\ job.slot = s)

\* The charges of a slot that landed, and its transactions that may still.
Charged(s) == {i \in DOMAIN log : log[i].nonce = s}
Underway(s) == {tx \in flight : tx.nonce = s}

\* The transactions of a slot, landed or not: each unanswered one, and one that was heard of.
SendsAreCounted ==
    \A s \in SlotNonces :
        /\ IsFiniteSet(Underway(s))
        /\ Cardinality(Charged(s)) + Cardinality(Underway(s))
               <= unanswered[s] + (IF Closed(s) THEN 1 ELSE 0)

\* What RowsTellTheChain says of one row.
Backed(row) ==
    /\ row.source \in {"answer", "ring", "history", "repair"} /\ row.decision # "gap"
           => OnChain(row.nonce, row.decision)
    /\ row.decision = "skipped" /\ row.source = "lastNonce" => row.nonce < LastNonce
    /\ row.decision = "paid" /\ row.source = "lastNonce" => OnChain(row.nonce, "paid")
    /\ row.source = "submit" => row.decision = "paid" /\ row.nonce <= LastNonce

\* The type of the running pass.
JobType ==
    [pc : PCs, due : SUBSET SlotNonces, slot : 0 .. MaxSlot, window : PriceWindows \union {"price"},
     settled : 0 .. MaxSlot, seen : Nat, tx : 0 .. MaxSends]

\* The inductive invariant.
JournalInv ==
    /\ WatcherTypeOK /\ IdsAreKnown /\ ReadsWereSo /\ WorksOnOpenSlots /\ SendsAreCounted
    /\ RowsTellTheChain

-----------------------------------------------------------------------------
(* What the watcher reads                                                  *)

\* The charges that landed, and what their numbers are.
LEMMA LogType ==
    ASSUME WatcherTypeOK
    PROVE  /\ Len(log) \in Nat /\ DOMAIN log = 1 .. Len(log)
           /\ \A i \in DOMAIN log : log[i] \in Charges
           /\ \A S \in SUBSET DOMAIN log : IsFiniteSet(S)
  <1>1. Len(log) \in Nat /\ DOMAIN log = 1 .. Len(log) /\ \A i \in DOMAIN log : log[i] \in Charges
    BY DEF WatcherTypeOK
  <1>2. IsFiniteSet(1 .. Len(log))
    BY <1>1, FS_Interval
  <1> QED
    BY <1>1, <1>2, FS_Subset

\* What is paid is on chain, and last_nonce is the newest of it.
LEMMA LastIsPaid ==
    ASSUME WatcherTypeOK
    PROVE  /\ PaidNonces(log) \subseteq SlotNonces
           /\ \A n : n \in PaidNonces(log) <=> OnChain(n, "paid")
           /\ LastNonce \in {0} \union PaidNonces(log) /\ LastNonce \in 0 .. MaxSlot
           /\ \A n \in PaidNonces(log) : n <= LastNonce
  <1> DEFINE S == {0} \union PaidNonces(log)
  <1>1. PaidNonces(log) \subseteq SlotNonces
    BY LogType DEF PaidNonces, Charges
  <1>2. \A n : n \in PaidNonces(log) <=> OnChain(n, "paid")
    BY DEF PaidNonces, OnChain
  <1>3. MaxSlot \in Nat /\ SlotNonces = 1 .. MaxSlot
    BY WatcherAssumption DEF SlotNonces
  <1>4. S \in SUBSET (0 .. MaxSlot)
    BY <1>1, <1>3
  <1>5. IsFiniteSet(S)
    <2>1. IsFiniteSet(0 .. MaxSlot)
      BY <1>3, FS_Interval
    <2> HIDE DEF S
    <2> QED BY <1>4, <2>1, FS_Subset
  <1>6. S # {} /\ S \subseteq Int
    BY <1>3, <1>4
  <1>7. Max(S) \in S /\ \A y \in S : y <= Max(S)
    <2> HIDE DEF S
    <2> QED BY <1>5, <1>6, Greatest
  <1> QED
    BY <1>1, <1>2, <1>4, <1>7 DEF LastNonce

\* The ring shows charges of the log.
LEMMA RingShowsLog ==
    ASSUME WatcherTypeOK, NEW i \in DOMAIN RingOf(Len(log))
    PROVE  \E j \in DOMAIN log : RingOf(Len(log))[i] = log[j]
  <1> DEFINE m == IF Len(log) > RingCapacity THEN Len(log) - RingCapacity + 1 ELSE 1
             n == Len(log)
  <1>1. n \in Nat /\ m \in Nat \ {0} /\ \A j \in 1 .. n : log[j] \in Charges
    BY LogType, WatcherAssumption
  <1>2. RingOf(Len(log)) = SubSeq(log, m, n)
    BY DEF RingOf
  <1> HIDE DEF m, n
  <1>3. \A j \in m .. n : log[j] \in Charges
    BY <1>1
  <1>4. /\ SubSeq(log, m, n) \in Seq(Charges)
        /\ Len(SubSeq(log, m, n)) = IF m <= n THEN n - m + 1 ELSE 0
        /\ \A j \in 1 .. n - m + 1 : SubSeq(log, m, n)[j] = log[m + j - 1]
    BY <1>1, <1>3, SubSeqProperties
  <1>5. DOMAIN SubSeq(log, m, n) = 1 .. Len(SubSeq(log, m, n))
    BY <1>4
  <1>6. i \in 1 .. n - m + 1 /\ m + i - 1 \in 1 .. n
    BY <1>1, <1>2, <1>4, <1>5
  <1>7. m + i - 1 \in DOMAIN log /\ RingOf(Len(log))[i] = log[m + i - 1]
    BY <1>2, <1>4, <1>6, LogType DEF n
  <1> QED
    BY <1>7

\* What the ring, the history and the repair find was decided on chain.
LEMMA FoundIsOnChain ==
    ASSUME WatcherTypeOK, NEW nonce
    PROVE  /\ PaidInRing(nonce) => OnChain(nonce, "paid")
           /\ RefusedInRing(nonce) => OnChain(nonce, "refused")
           /\ \A readable \in Readable : Recovered(nonce, readable) => OnChain(nonce, "paid")
  <1>1. PaidInRing(nonce) => OnChain(nonce, "paid")
    BY RingShowsLog DEF PaidInRing, PaidNonces, OnChain
  <1>2. RefusedInRing(nonce) => OnChain(nonce, "refused")
    BY RingShowsLog DEF RefusedInRing, OnChain
  <1> QED
    BY <1>1, <1>2 DEF Recovered, PaidInHistory, Readable, OnChain

LEMMA RepairedIsOnChain ==
    ASSUME WatcherTypeOK, job.seen <= Len(log), NEW readable \in Readable, NEW nonce,
           NEW d \in Merged(nonce, RingSpan(job.seen), Walked(RingSpan(job.seen), readable))
    PROVE  OnChain(nonce, d)
  <1> DEFINE ring == RingSpan(job.seen)
             walked == Walked(ring, readable)
  <1>1. readable \subseteq DOMAIN log
    BY DEF Readable
  <1>2. walked \subseteq DOMAIN log
    BY <1>1 DEF Walked
  <1>3. ring \subseteq DOMAIN log
    BY LogType DEF RingSpan, WatcherTypeOK
  <1>4. ASSUME NEW within \in SUBSET DOMAIN log, d \in Newest(nonce, within) PROVE OnChain(nonce, d)
    <2> DEFINE hits == {i \in within : log[i].nonce = nonce}
    <2>1. hits # {} /\ d = log[Max(hits)].decision
      BY <1>4 DEF Newest
    <2>2. hits \in SUBSET DOMAIN log /\ hits \subseteq Int
      BY LogType
    <2>3. IsFiniteSet(hits)
      BY <2>2, LogType
    <2>4. Max(hits) \in hits
      <3> HIDE DEF hits
      <3> QED BY <2>1, <2>2, <2>3, Greatest
    <2> QED
      BY <2>1, <2>4 DEF OnChain
  <1>5. d \in Newest(nonce, walked) \/ d \in Newest(nonce, ring)
    BY DEF Merged
  <1> QED
    <2> HIDE DEF ring, walked
    <2> QED BY <1>2, <1>3, <1>4, <1>5

-----------------------------------------------------------------------------
(* Steps of a pass within the turn of a slot                               *)

\* As long as the chain rests, a row is as true as it was, and no slot is charged.
LEMMA ChainRests ==
    ASSUME JournalInv, UNCHANGED <<log, flight, unanswered>>,
           \A row \in Journals' : row \in Journals \/ Backed(row),
           \A s \in SlotNonces : Closed(s) => Closed(s)'
    PROVE  RowsTellTheChain' /\ SendsAreCounted'
  <1>1. ASSUME NEW row \in Journals' PROVE Backed(row)'
    <2>1. Backed(row)
      BY <1>1 DEF JournalInv, RowsTellTheChain, Backed
    <2> QED
      BY <2>1 DEF Backed, OnChain, LastNonce, PaidNonces
  <1>2. RowsTellTheChain'
    BY <1>1 DEF RowsTellTheChain, Backed
  <1>3. ASSUME NEW s \in SlotNonces
        PROVE  /\ IsFiniteSet(Underway(s)')
               /\ Cardinality(Charged(s)') + Cardinality(Underway(s)')
                      <= unanswered'[s] + (IF Closed(s)' THEN 1 ELSE 0)
    <2>1. Charged(s)' = Charged(s) /\ Underway(s)' = Underway(s) /\ unanswered' = unanswered
      BY DEF Charged, Underway
    <2>2. /\ IsFiniteSet(Underway(s))
          /\ Cardinality(Charged(s)) + Cardinality(Underway(s))
                 <= unanswered[s] + (IF Closed(s) THEN 1 ELSE 0)
      BY DEF JournalInv, SendsAreCounted
    <2>3. Charged(s) \in SUBSET DOMAIN log
      BY DEF Charged
    <2>4. Cardinality(Charged(s)) \in Nat /\ Cardinality(Underway(s)) \in Nat /\ unanswered[s] \in Nat
      BY <2>2, <2>3, LogType, FS_CardinalityType DEF JournalInv, WatcherTypeOK
    <2> HIDE DEF Closed
    <2> QED
      BY <2>1, <2>2, <2>4
  <1>4. SendsAreCounted'
    BY <1>3 DEF SendsAreCounted
  <1> QED
    BY <1>2, <1>4

\* The pass goes on with its slot and writes nothing.
LEMMA GoesOn ==
    ASSUME JournalInv, UNCHANGED <<clock, log, flight, sent, local, store, unanswered>>,
           faults' \in 0 .. MaxFaults,
           job.pc \in Working, job'.pc \in Working, job' \in JobType,
           job'.slot = job.slot, job'.tx = job.tx, job'.settled \in {0} \union PaidNonces(log)
    PROVE  JournalInv'
  <1> USE DEF JournalInv
  <1>1. WatcherTypeOK'
    BY DEF WatcherTypeOK, JobType
  <1>2. IdsAreKnown'
    BY DEF IdsAreKnown
  <1>3. ReadsWereSo'
    BY DEF ReadsWereSo, Working, PaidNonces
  <1>4. WorksOnOpenSlots'
    BY DEF WorksOnOpenSlots, Working, HasNonce, Lasting
  <1>5. \A s \in SlotNonces : Closed(s) => Closed(s)'
    BY DEF Closed, HasNonce, Lasting, Working
  <1>6. Journals' = Journals
    BY DEF Journals
  <1>7. RowsTellTheChain' /\ SendsAreCounted'
    BY <1>5, <1>6, ChainRests
  <1> QED
    BY <1>1, <1>2, <1>3, <1>4, <1>7

\* The turn of a slot ends with a row.
LEMMA TurnEnds ==
    ASSUME JournalInv, UNCHANGED <<clock, log, flight, sent, unanswered>>,
           faults' \in 0 .. MaxFaults, job.pc \in Working,
           NEW decision \in Terminal \union {"gap"}, NEW source \in Sources,
           Decide(decision, source), Backed(Row(job.slot, decision, source))
    PROVE  JournalInv'
  <1> DEFINE row == Row(job.slot, decision, source)
  <1> USE DEF JournalInv
  <1>1. job.slot \in SlotNonces /\ job.pc \notin {"idle", "next", "persist"}
    BY DEF WorksOnOpenSlots, Working
  <1>2. row \in JournalRows /\ row.nonce = job.slot
    BY <1>1 DEF Row, JournalRows
  <1>3. /\ local' = local \union {row} /\ store' = store
        /\ job' = [job EXCEPT !.pc = "persist"] /\ job' \in JobType
        /\ job'.pc = "persist" /\ job'.slot = job.slot /\ job'.tx = job.tx
        /\ job'.settled = job.settled
    BY DEF Decide, WatcherTypeOK, JobType, PCs
  <1>4. WatcherTypeOK'
    BY <1>2, <1>3 DEF WatcherTypeOK, JobType
  <1>5. IdsAreKnown'
    BY <1>3 DEF IdsAreKnown
  <1>6. ReadsWereSo'
    BY <1>3 DEF ReadsWereSo, PaidNonces
  <1>7. WorksOnOpenSlots'
    BY <1>1, <1>3 DEF WorksOnOpenSlots, Working, Lasting
  <1>8. \A s \in SlotNonces : Closed(s) => Closed(s)'
    <2>1. ~ HasNonce(local, job.slot) /\ Lasting \subseteq local
      BY <1>1 DEF WorksOnOpenSlots
    <2>2. ~ HasNonce(Lasting, job.slot)
      BY <2>1 DEF HasNonce
    <2>3. Lasting \subseteq Lasting'
      BY <1>3 DEF Lasting
    <2>4. \A s : HasNonce(Lasting, s) => HasNonce(Lasting, s)'
      BY <2>3 DEF HasNonce
    <2> QED
      BY <1>3, <2>2, <2>4 DEF Closed
  <1>9. \A r \in Journals' : r \in Journals \/ Backed(r)
    BY <1>3 DEF Journals
  <1>10. RowsTellTheChain' /\ SendsAreCounted'
    BY <1>8, <1>9, ChainRests
  <1> QED
    BY <1>4, <1>5, <1>6, <1>7, <1>10

\* A change of place alone.
LEMMA PassingTo ==
    ASSUME JournalInv, UNCHANGED <<clock, log, flight, sent, local, store, unanswered>>,
           faults' \in 0 .. MaxFaults, job.pc \in Working, NEW pc \in Working, PassTo(pc)
    PROVE  JournalInv'
  <1>1. /\ job' \in JobType /\ job'.pc = pc /\ job'.slot = job.slot /\ job'.tx = job.tx
        /\ job'.settled = job.settled
    BY DEF JournalInv, WatcherTypeOK, JobType, PassTo, Working
  <1> QED
    BY <1>1, GoesOn DEF JournalInv, ReadsWereSo

\* A gap and a row of the price feed claim nothing of the chain.
LEMMA NothingClaimed ==
    ASSUME NEW nonce, NEW source, NEW decision,
           decision = "gap" \/ source \in {"feed", "rpc"}, source # "submit"
    PROVE  Backed(Row(nonce, decision, source))
  BY DEF Backed, Row

\* The count of faults stays within its bound.
LEMMA FaultsBounded ==
    ASSUME WatcherTypeOK, Fault \/ NoFault \/ FaultIf(0) \/ FaultIf(1)
    PROVE  faults' \in 0 .. MaxFaults
  BY WatcherAssumption DEF WatcherTypeOK, Fault, NoFault, FaultIf

LEMMA TurnKept ==
    ASSUME JournalInv,
           \/ RateLimited \/ ReadFeed \/ ReadSettled \/ CloseAlreadySettled \/ ReadRecorded
           \/ PriceSlot \/ SubmitCharge \/ ConfirmCharge \/ ReadAnswer \/ ReadSettledAgain
    PROVE  JournalInv'
  <1> USE DEF Gap, NoRow, chainVars
  <1>0. /\ WatcherTypeOK /\ job \in JobType /\ LastNonce \in {0} \union PaidNonces(log)
        /\ LastNonce \in 0 .. MaxSlot
    BY LastIsPaid DEF JournalInv, WatcherTypeOK, JobType
  <1>1. CASE RateLimited
    <2>1. job.pc \in Working
      BY <1>1 DEF RateLimited, Working, PCs
    <2> QED
      BY <1>0, <1>1, <2>1, FaultsBounded, NothingClaimed, TurnEnds DEF RateLimited, Sources
  <1>2. CASE ReadFeed
    <2>1. PICK w \in PriceWindows :
             /\ job' = [job EXCEPT !.pc = "settled", !.window = w]
             /\ IF w \in Outages THEN Fault ELSE NoFault
      BY <1>2 DEF ReadFeed
    <2>2. /\ job' \in JobType /\ job'.pc \in Working /\ job.pc \in Working
          /\ job'.slot = job.slot /\ job'.tx = job.tx /\ job'.settled = job.settled
      BY <1>0, <1>2, <2>1 DEF ReadFeed, JobType, Working, PCs
    <2>3. faults' \in 0 .. MaxFaults
      BY <1>0, <2>1, FaultsBounded
    <2> QED
      BY <1>2, <2>2, <2>3, GoesOn DEF ReadFeed, JournalInv, ReadsWereSo
  <1>3. CASE ReadSettled \/ ReadSettledAgain
    <2>1. \E pc \in {"close", "recorded"} : job' = [job EXCEPT !.settled = LastNonce, !.pc = pc]
      BY <1>3 DEF ReadSettled, ReadSettledAgain
    <2>2. /\ job' \in JobType /\ job'.pc \in Working /\ job.pc \in Working
          /\ job'.slot = job.slot /\ job'.tx = job.tx /\ job'.settled = LastNonce
      BY <1>0, <1>3, <2>1 DEF ReadSettled, ReadSettledAgain, JobType, Working, PCs
    <2>3. faults' \in 0 .. MaxFaults
      BY <1>0, <1>3, FaultsBounded DEF ReadSettled, ReadSettledAgain
    <2> QED
      BY <1>0, <1>3, <2>2, <2>3, GoesOn DEF ReadSettled, ReadSettledAgain
  <1>4. CASE CloseAlreadySettled
    <2>1. PICK readable \in Readable :
            /\ FaultIf(FaultsOfWalk(readable))
            /\ \/ Recovered(job.slot, readable) /\ Decide("paid", "history")
               \/ ~ Recovered(job.slot, readable) /\ job.slot < job.settled /\ Decide("skipped", "lastNonce")
               \/ ~ Recovered(job.slot, readable) /\ job.slot = job.settled /\ Decide("paid", "lastNonce")
               \/ ~ Recovered(job.slot, readable) /\ job.slot > job.settled /\ Gap("lastNonce")
      BY <1>4 DEF CloseAlreadySettled
    <2>2. job.pc \in Working /\ job.slot \in SlotNonces
      BY <1>4 DEF CloseAlreadySettled, Working, PCs, JournalInv, WorksOnOpenSlots
    <2>3. faults' \in 0 .. MaxFaults
      BY <1>0, <2>1, FaultsBounded DEF FaultsOfWalk
    <2>4. job.settled \in {0} \union PaidNonces(log) /\ job.settled <= LastNonce
      BY <1>0, LastIsPaid DEF JournalInv, ReadsWereSo
    <2>5. job.slot \in Nat \ {0} /\ job.settled \in Nat /\ LastNonce \in Nat
      BY <1>0, <2>2, WatcherAssumption DEF SlotNonces, JobType
    <2>6. Recovered(job.slot, readable) => Backed(Row(job.slot, "paid", "history"))
      BY <1>0, FoundIsOnChain DEF Backed, Row
    <2>7. job.slot < job.settled => Backed(Row(job.slot, "skipped", "lastNonce"))
      BY <2>4, <2>5 DEF Backed, Row
    <2>8. job.slot = job.settled => Backed(Row(job.slot, "paid", "lastNonce"))
      BY <1>0, <2>4, <2>5, LastIsPaid DEF Backed, Row
    <2> QED
      BY <1>4, <2>1, <2>2, <2>3, <2>6, <2>7, <2>8, NothingClaimed, TurnEnds
      DEF CloseAlreadySettled, Sources, Terminal
  <1>5. CASE ReadRecorded
    <2>1. job.pc \in Working /\ "price" \in Working
      BY <1>5 DEF ReadRecorded, Working, PCs
    <2>2. faults' \in 0 .. MaxFaults
      BY <1>0, <1>5, FaultsBounded DEF ReadRecorded
    <2>3. /\ PaidInRing(job.slot) => Backed(Row(job.slot, "paid", "ring"))
          /\ RefusedInRing(job.slot) => Backed(Row(job.slot, "refused", "ring"))
      BY <1>0, FoundIsOnChain DEF Backed, Row
    <2> QED
      BY <1>5, <2>1, <2>2, <2>3, TurnEnds, PassingTo DEF ReadRecorded, RecordedOnRing, Sources, Terminal
  <1>6. CASE PriceSlot
    <2>1. job.pc \in Working /\ "submit" \in Working
      BY <1>6 DEF PriceSlot, Working, PCs
    <2>2. faults' \in 0 .. MaxFaults
      BY <1>0, <1>6, FaultsBounded DEF PriceSlot
    <2> QED
      BY <1>6, <2>1, <2>2, NothingClaimed, TurnEnds, PassingTo DEF PriceSlot, Sources, Terminal
  <1>7. CASE SubmitCharge
    <2>1. PICK readable \in Readable :
            /\ FaultIf(FaultsOfWalk(readable))
            /\ \/ PassTo("send") /\ NoRow
               \/ Recovered(job.slot, readable) /\ Decide("paid", "history")
               \/ job.slot <= LastNonce /\ Decide("paid", "submit")
      BY <1>7 DEF SubmitCharge
    <2>2. job.pc \in Working /\ "send" \in Working
      BY <1>7 DEF SubmitCharge, Working, PCs
    <2>3. faults' \in 0 .. MaxFaults
      BY <1>0, <2>1, FaultsBounded DEF FaultsOfWalk
    <2>4. Recovered(job.slot, readable) => Backed(Row(job.slot, "paid", "history"))
      BY <1>0, FoundIsOnChain DEF Backed, Row
    <2>5. job.slot <= LastNonce => Backed(Row(job.slot, "paid", "submit"))
      BY DEF Backed, Row
    <2> QED
      BY <1>7, <2>1, <2>2, <2>3, <2>4, <2>5, TurnEnds, PassingTo
      DEF SubmitCharge, Sources, Terminal
  <1>8. CASE ConfirmCharge
    <2>1. job.pc \in Working /\ {"answer", "submit"} \subseteq Working
      BY <1>8 DEF ConfirmCharge, Working, PCs
    <2>2. faults' \in 0 .. MaxFaults
      BY <1>0, <1>8, FaultsBounded DEF ConfirmCharge
    <2> QED
      BY <1>8, <2>1, <2>2, NothingClaimed, TurnEnds, PassingTo DEF ConfirmCharge, Sources, Terminal
  <1>9. CASE ReadAnswer
    <2>1. job.pc \in Working /\ {"submit", "reread"} \subseteq Working
      BY <1>9 DEF ReadAnswer, Working, PCs
    <2>2. faults' \in 0 .. MaxFaults
      BY <1>0, <1>9, FaultsBounded DEF ReadAnswer
    <2>3. ASSUME NEW i \in Landed(job.tx)
          PROVE  /\ log[i].decision \in Terminal
                 /\ Backed(Row(job.slot, log[i].decision, "answer"))
      <3>1. i \in DOMAIN log /\ log[i].id = job.tx /\ log[i] \in Charges
        BY <1>0, <2>3, LogType DEF Landed
      <3>2. log[i].nonce = job.slot
        BY <3>1 DEF JournalInv, IdsAreKnown
      <3>3. OnChain(job.slot, log[i].decision) /\ log[i].decision \in {"paid", "refused"}
        BY <3>1, <3>2 DEF OnChain, Charges
      <3> QED
        BY <3>3 DEF Backed, Row, Terminal
    <2> QED
      BY <1>9, <2>1, <2>2, <2>3, TurnEnds, PassingTo DEF ReadAnswer, Sources
  <1> QED
    BY <1>1, <1>2, <1>3, <1>4, <1>5, <1>6, <1>7, <1>8, <1>9

-----------------------------------------------------------------------------
(* Steps of a pass between the turns                                       *)

\* The pass moves between slots, dies or is ended. It is left with rows that were there or
\* are true, and what lasts is kept.
LEMMA Between ==
    ASSUME JournalInv, UNCHANGED <<clock, log, flight, sent, unanswered>>,
           faults' \in 0 .. MaxFaults,
           job' \in JobType, job'.tx = 0,
           job'.pc # "persist", job'.pc = "walk" => job'.seen <= Len(log),
           job'.pc \in Working => job'.slot \in SlotNonces /\ ~ HasNonce(local', job'.slot),
           job'.settled \in {0} \union PaidNonces(log),
           \A row \in local' \union store' : row \in Journals \/ (row \in JournalRows /\ Backed(row)),
           Lasting \subseteq Lasting',
           job'.pc # "idle" => Lasting' \subseteq local'
    PROVE  JournalInv'
  <1> USE DEF JournalInv
  <1>1. WatcherTypeOK'
    BY DEF WatcherTypeOK, JobType, Journals
  <1>2. IdsAreKnown'
    <2>1. sent \in Nat /\ \A i \in DOMAIN log : log[i].id # 0
      <3>1. \A i \in DOMAIN log : log[i] \in Charges
        BY LogType
      <3> QED BY <3>1, WatcherAssumption DEF WatcherTypeOK, Charges
    <2>2. \A tx \in flight : tx.id # 0
      BY WatcherAssumption DEF WatcherTypeOK
    <2> QED
      BY <2>1, <2>2 DEF IdsAreKnown
  <1>3. ReadsWereSo'
    BY DEF ReadsWereSo, PaidNonces
  <1>4. WorksOnOpenSlots'
    BY DEF WorksOnOpenSlots, HasNonce
  <1>5. \A s \in SlotNonces : Closed(s) => Closed(s)'
    BY DEF Closed, HasNonce
  <1>6. \A r \in Journals' : r \in Journals \/ Backed(r)
    BY DEF Journals
  <1>7. RowsTellTheChain' /\ SendsAreCounted'
    BY <1>5, <1>6, ChainRests
  <1> QED
    BY <1>1, <1>2, <1>3, <1>4, <1>7

\* No pass at all.
LEMMA NoPassType == NoPass \in JobType
  BY WatcherAssumption DEF NoPass, JobType, PCs

LEMMA PassEnds ==
    ASSUME JournalInv, UNCHANGED <<clock, log, flight, sent, store, unanswered>>,
           faults' \in 0 .. MaxFaults, job' = NoPass,
           local' = local \/ (Remote /\ local' = {})
    PROVE  JournalInv'
  <1>1. job' \in JobType /\ job'.pc = "idle" /\ job'.tx = 0 /\ job'.settled = 0
    BY NoPassType DEF NoPass
  <1>2. /\ local' \subseteq Journals /\ store' \subseteq Journals
        /\ Lasting \subseteq Lasting'
    BY DEF Lasting, Journals
  <1> QED
    BY <1>1, <1>2, Between DEF Working

\* A pass begins.
LEMMA StartKept == ASSUME JournalInv, StartPass PROVE JournalInv'
  <1>1. \E pc \in {"next", "ring"} : job' = [NoPass EXCEPT !.due = DueSlots(clock), !.pc = pc]
    BY DEF StartPass
  <1>2. DueSlots(clock) \subseteq SlotNonces
    BY DEF DueSlots
  <1>3. /\ job' \in JobType /\ job'.pc \in {"next", "ring"} /\ job'.tx = 0 /\ job'.settled = 0
    BY <1>1, <1>2, NoPassType DEF NoPass, JobType, PCs
  <1>4. /\ local' \subseteq Journals /\ store' \subseteq Journals
        /\ Lasting \subseteq Lasting' /\ Lasting' \subseteq local'
    BY DEF StartPass, Lasting, Journals, Hydrated
  <1>5. faults' \in 0 .. MaxFaults
    BY FaultsBounded DEF StartPass, JournalInv
  <1> QED
    BY <1>3, <1>4, <1>5, Between DEF StartPass, chainVars, Working

\* The due slots in order.
LEMMA NextKept == ASSUME JournalInv, NextSlot PROVE JournalInv'
  <1> DEFINE left == {s \in job.due : s > job.slot /\ ~ HasNonce(local, s)}
  <1>0. WatcherTypeOK /\ job \in JobType /\ faults' \in 0 .. MaxFaults
    BY FaultsBounded DEF NextSlot, JournalInv, WatcherTypeOK, JobType
  <1>1. job' = IF left = {} THEN NoPass ELSE [job EXCEPT !.pc = "feed", !.slot = Min(left), !.tx = 0]
    BY DEF NextSlot
  <1>2. CASE left = {}
    BY <1>0, <1>1, <1>2, PassEnds DEF NextSlot, NoRow, chainVars
  <1>3. CASE left # {}
    <2>1. left \in SUBSET SlotNonces
      BY <1>0 DEF JobType
    <2>2. IsFiniteSet(left) /\ left \subseteq Int
      <3>1. SlotNonces \subseteq Int
        BY WatcherAssumption DEF SlotNonces
      <3>2. IsFiniteSet(SlotNonces)
        BY FS_Interval, WatcherAssumption DEF SlotNonces
      <3> HIDE DEF left
      <3>3. IsFiniteSet(left)
        BY <2>1, <3>2, FS_Subset
      <3> QED BY <2>1, <3>1, <3>3
    <2>3. Min(left) \in left
      <3> HIDE DEF left
      <3> QED BY <1>3, <2>2, LeastOfSet
    <2>4. Min(left) \in SlotNonces /\ ~ HasNonce(local, Min(left)) /\ Min(left) \in 0 .. MaxSlot
      BY <2>1, <2>3, WatcherAssumption DEF SlotNonces
    <2>5. job' = [job EXCEPT !.pc = "feed", !.slot = Min(left), !.tx = 0]
      BY <1>1, <1>3
    <2> HIDE DEF left
    <2>6. /\ job' \in JobType /\ job'.pc = "feed" /\ job'.slot = Min(left) /\ job'.tx = 0
          /\ job'.settled = job.settled
      <3>1. ASSUME NEW m \in 0 .. MaxSlot, job' = [job EXCEPT !.pc = "feed", !.slot = m, !.tx = 0]
            PROVE  /\ job' \in JobType /\ job'.pc = "feed" /\ job'.slot = m /\ job'.tx = 0
                   /\ job'.settled = job.settled
        <4>1. 0 \in 0 .. MaxSends /\ "feed" \in PCs
          BY WatcherAssumption DEF PCs
        <4> QED BY <1>0, <3>1, <4>1 DEF JobType
      <3> QED BY <2>4, <2>5, <3>1
    <2>7. /\ local' = local /\ store' = store /\ job.pc = "next"
          /\ UNCHANGED <<clock, log, flight, sent, unanswered>>
      BY DEF NextSlot, NoRow, chainVars
    <2>8. Lasting' = Lasting /\ Lasting \subseteq local
      BY <2>7 DEF Lasting, JournalInv, WorksOnOpenSlots
    <2>9. ~ HasNonce(local', job'.slot)
      BY <2>4, <2>6, <2>7
    <2> QED
      BY <1>0, <2>4, <2>6, <2>7, <2>8, <2>9, Between DEF JournalInv, ReadsWereSo, Journals
  <1> QED
    BY <1>2, <1>3

\* The ring is read, and the journal repaired from it.
LEMMA RepairKept ==
    ASSUME JournalInv, ReadRing \/ Repair \/ PersistRepair
    PROVE  JournalInv'
  <1>0. /\ WatcherTypeOK /\ job \in JobType /\ job.settled \in {0} \union PaidNonces(log)
        /\ job.pc # "idle" => Lasting \subseteq local
        /\ job.pc \in {"ring", "walk", "upload"} => job.tx = 0
    BY DEF JournalInv, WatcherTypeOK, JobType, ReadsWereSo, WorksOnOpenSlots
  <1>1. CASE ReadRing
    <2>1. faults' \in 0 .. MaxFaults
      BY <1>0, <1>1, FaultsBounded DEF ReadRing
    <2>2. /\ job' \in JobType /\ job'.tx = 0 /\ job'.settled = job.settled
          /\ job'.pc \in {"walk", "next"} /\ (job'.pc = "walk" => job'.seen <= Len(log))
      <3>1. \/ job' = [job EXCEPT !.pc = "walk", !.seen = Len(log)]
            \/ job' = [job EXCEPT !.pc = "next"]
        BY <1>1 DEF ReadRing, PassTo
      <3>2. Len(log) \in Nat /\ {"walk", "next"} \subseteq PCs
        BY <1>0, LogType DEF PCs
      <3>3. job.tx = 0
        BY <1>0, <1>1 DEF ReadRing
      <3>4. ASSUME NEW n \in Nat, job' = [job EXCEPT !.pc = "walk", !.seen = n]
            PROVE  /\ job' \in JobType /\ job'.tx = 0 /\ job'.settled = job.settled
                   /\ job'.pc = "walk" /\ job'.seen = n
        BY <1>0, <3>2, <3>3, <3>4 DEF JobType
      <3>5. ASSUME job' = [job EXCEPT !.pc = "next"]
            PROVE  job' \in JobType /\ job'.tx = 0 /\ job'.settled = job.settled /\ job'.pc = "next"
        BY <1>0, <3>2, <3>3, <3>5 DEF JobType
      <3>6. ASSUME job' = [job EXCEPT !.pc = "walk", !.seen = Len(log)]
            PROVE  /\ job' \in JobType /\ job'.tx = 0 /\ job'.settled = job.settled
                   /\ job'.pc = "walk" /\ job'.seen = Len(log)
        BY <3>2, <3>4, <3>6
      <3> QED BY <3>1, <3>2, <3>5, <3>6
    <2>3. Lasting' = Lasting /\ Lasting \subseteq local
      BY <1>0, <1>1 DEF ReadRing, NoRow, Lasting
    <2> QED
      BY <1>0, <1>1, <2>1, <2>2, <2>3, Between DEF ReadRing, NoRow, chainVars, Journals, Working
  <1>2. CASE Repair
    <2> DEFINE ring == RingSpan(job.seen)
               rows == {Row(n, d, "repair") : n \in {m \in SlotNonces : ~ HasNonce(local, m)}, d \in Terminal}
               found(readable) ==
                  {row \in rows : row.decision \in Merged(row.nonce, ring, Walked(ring, readable))}
    <2>1. PICK readable \in Readable :
              /\ FaultIf(FaultsOfWalk(readable))
              /\ local' = local \union found(readable)
              /\ PassTo(IF found(readable) # {} /\ Remote THEN "upload" ELSE "next")
      BY <1>2 DEF Repair
    <2>2. faults' \in 0 .. MaxFaults
      BY <1>0, <2>1, FaultsBounded DEF FaultsOfWalk
    <2>3. \E pc \in {"upload", "next"} : PassTo(pc)
      BY <2>1
    <2>4. job' \in JobType /\ job'.tx = 0 /\ job'.settled = job.settled /\ job'.pc \in {"upload", "next"}
      BY <1>0, <1>2, <2>3 DEF Repair, PassTo, JobType, PCs
    <2>5. job.pc = "walk" /\ job.seen <= Len(log)
      BY <1>2 DEF Repair, JournalInv, ReadsWereSo
    <2>6. ASSUME NEW row \in found(readable) PROVE row \in JournalRows /\ Backed(row)
      <3>1. PICK n \in SlotNonces, d \in Terminal : row = Row(n, d, "repair")
        BY <2>6
      <3>2. row.nonce = n /\ row.decision = d /\ row.source = "repair" /\ row \in JournalRows
        BY <3>1 DEF Row, JournalRows, Sources
      <3>3. d \in Merged(n, ring, Walked(ring, readable))
        BY <2>6, <3>2
      <3>4. OnChain(n, d)
        BY <1>0, <2>5, <3>3, RepairedIsOnChain
      <3> QED
        BY <3>2, <3>4 DEF Backed
    <2> HIDE DEF found
    <2>7. \A row \in local' \union store' : row \in Journals \/ (row \in JournalRows /\ Backed(row))
      BY <1>2, <2>1, <2>6 DEF Repair, Journals
    <2>8. Lasting \subseteq Lasting' /\ Lasting' \subseteq local'
      BY <1>0, <1>2, <2>1, <2>5 DEF Repair, Lasting
    <2> QED
      BY <1>0, <1>2, <2>2, <2>4, <2>7, <2>8, Between DEF Repair, chainVars, Working
  <1>3. CASE PersistRepair
    <2>1. faults' \in 0 .. MaxFaults
      BY <1>0, <1>3, FaultsBounded DEF PersistRepair, Upload
    <2>2. CASE job' = NoPass /\ UNCHANGED store
      BY <1>3, <2>1, <2>2, PassEnds DEF PersistRepair, chainVars
    <2>3. CASE store' = (IF Remote THEN local ELSE store) /\ PassTo("next")
      <3>1. job' \in JobType /\ job'.tx = 0 /\ job'.settled = job.settled /\ job'.pc = "next"
        BY <1>0, <1>3, <2>3 DEF PersistRepair, PassTo, JobType, PCs
      <3>2. Lasting \subseteq Lasting' /\ Lasting' \subseteq local'
        BY <1>0, <1>3, <2>3 DEF PersistRepair, Lasting
      <3> QED
        BY <1>0, <1>3, <2>1, <2>3, <3>1, <3>2, Between DEF PersistRepair, chainVars, Journals, Working
    <2> QED
      BY <1>3, <2>2, <2>3 DEF PersistRepair, Upload
  <1> QED
    BY <1>1, <1>2, <1>3

\* What is counted of a slot are numbers.
LEMMA CountsType ==
    ASSUME JournalInv, NEW s \in SlotNonces
    PROVE  /\ IsFiniteSet(Charged(s)) /\ IsFiniteSet(Underway(s))
           /\ Cardinality(Charged(s)) \in Nat /\ Cardinality(Underway(s)) \in Nat
           /\ unanswered[s] \in Nat
           /\ Cardinality(Charged(s)) + Cardinality(Underway(s))
                  <= unanswered[s] + (IF Closed(s) THEN 1 ELSE 0)
  <1>1. Charged(s) \in SUBSET DOMAIN log
    BY DEF Charged
  <1>2. IsFiniteSet(Charged(s)) /\ IsFiniteSet(Underway(s))
    BY <1>1, LogType DEF JournalInv, SendsAreCounted
  <1> QED
    BY <1>2, FS_CardinalityType DEF JournalInv, SendsAreCounted, WatcherTypeOK

\* The upload that ends the turn of a slot: a transaction that was answered is accounted for
\* by the row.
LEMMA PersistKept == ASSUME JournalInv, PersistSlot PROVE JournalInv'
  <1> DEFINE heard == job'.pc = "next" /\ job.tx # 0
                      /\ \E row \in local : row.nonce = job.slot /\ row.decision # "gap"
  <1> USE DEF chainVars
  <1>0. /\ WatcherTypeOK /\ job \in JobType /\ job.pc = "persist" /\ job.slot \in SlotNonces
        /\ Lasting \subseteq local /\ (job.tx # 0 => unanswered[job.slot] > 0)
        /\ unanswered \in [SlotNonces -> Nat]
    BY DEF PersistSlot, JournalInv, WatcherTypeOK, JobType, WorksOnOpenSlots
  <1>1. faults' \in 0 .. MaxFaults
    BY <1>0, FaultsBounded DEF PersistSlot, Upload
  <1>2. unanswered' = [unanswered EXCEPT ![job.slot] = IF heard THEN @ - 1 ELSE @]
    BY DEF PersistSlot
  <1>3. CASE job' = NoPass /\ UNCHANGED store
    <2>1. unanswered' = unanswered
      BY <1>0, <1>2, <1>3 DEF NoPass
    <2> QED
      BY <1>1, <1>3, <2>1, PassEnds DEF PersistSlot
  <1>4. CASE store' = (IF Remote THEN local ELSE store) /\ PassTo("next")
    <2>1. /\ job' \in JobType /\ job'.pc = "next" /\ job'.slot = job.slot /\ job'.tx = job.tx
          /\ job'.settled = job.settled
      BY <1>0, <1>4 DEF PassTo, JobType, PCs
    <2>2. UNCHANGED <<clock, log, flight, sent, local>>
      BY DEF PersistSlot
    <2>3. \A s \in SlotNonces : unanswered'[s] = IF s = job.slot /\ heard THEN unanswered[s] - 1
                                                ELSE unanswered[s]
      BY <1>0, <1>2
    <2>4. unanswered' \in [SlotNonces -> Nat]
      BY <1>0, <1>2
    <2>5. WatcherTypeOK'
      BY <1>0, <1>1, <1>4, <2>1, <2>2, <2>4 DEF WatcherTypeOK, JobType
    <2>6. IdsAreKnown'
      BY <2>1, <2>2 DEF JournalInv, IdsAreKnown
    <2>7. ReadsWereSo'
      BY <2>1, <2>2 DEF JournalInv, ReadsWereSo, PaidNonces
    <2>8. Lasting' \subseteq local' /\ Lasting' = local
      BY <1>0, <1>4, <2>2 DEF Lasting
    <2>9. WorksOnOpenSlots'
      BY <2>1, <2>8 DEF WorksOnOpenSlots, Working
    <2>10. RowsTellTheChain'
      BY <1>4, <2>2 DEF JournalInv, RowsTellTheChain, Journals, OnChain, LastNonce, PaidNonces
    <2>11. ASSUME NEW s \in SlotNonces
           PROVE  /\ IsFiniteSet(Underway(s)')
                  /\ Cardinality(Charged(s)') + Cardinality(Underway(s)')
                         <= unanswered'[s] + (IF Closed(s)' THEN 1 ELSE 0)
      <3>1. Charged(s)' = Charged(s) /\ Underway(s)' = Underway(s)
        BY <2>2 DEF Charged, Underway
      <3>2. Closed(s) => Closed(s)'
        BY <1>0, <2>1, <2>8 DEF Closed, HasNonce
      <3>3. s = job.slot /\ heard => Closed(s)' /\ ~ Closed(s)
        <4>1. local \subseteq JournalRows
          BY <1>0 DEF WatcherTypeOK
        <4>2. heard => HasNonce(local, job.slot)
          BY <4>1 DEF HasNonce, JournalRows
        <4>3. s = job.slot /\ heard => HasNonce(Lasting', s)
          BY <2>8, <4>2
        <4> QED
          BY <1>0, <2>1, <4>3 DEF Closed, HasNonce
      <3>4. /\ IsFiniteSet(Underway(s))
            /\ Cardinality(Charged(s)) \in Nat /\ Cardinality(Underway(s)) \in Nat
            /\ unanswered[s] \in Nat
            /\ Cardinality(Charged(s)) + Cardinality(Underway(s))
                  <= unanswered[s] + (IF Closed(s) THEN 1 ELSE 0)
        BY CountsType
      <3> HIDE DEF Closed, heard
      <3>5. CASE s = job.slot /\ heard
        BY <2>3, <3>1, <3>3, <3>4, <3>5
      <3>6. CASE ~ (s = job.slot /\ heard)
        BY <2>3, <3>1, <3>2, <3>4, <3>6
      <3> QED
        BY <3>5, <3>6
    <2>12. SendsAreCounted'
      BY <2>11 DEF SendsAreCounted
    <2> QED
      BY <2>5, <2>6, <2>7, <2>9, <2>10, <2>12 DEF JournalInv
  <1> QED
    BY <1>3, <1>4 DEF PersistSlot, Upload

-----------------------------------------------------------------------------
(* The chain moves                                                         *)

\* A set with one element more, or the same.
LEMMA OneMore ==
    ASSUME NEW S, IsFiniteSet(S), NEW x
    PROVE  /\ IsFiniteSet(S \union {x}) /\ Cardinality(S \union {x}) \in Nat
           /\ Cardinality(S \union {x}) <= Cardinality(S) + 1
  <1>1. /\ IsFiniteSet(S \union {x})
        /\ Cardinality(S \union {x}) = IF x \in S THEN Cardinality(S) ELSE Cardinality(S) + 1
    BY FS_AddElement
  <1>2. Cardinality(S) \in Nat
    BY FS_CardinalityType
  <1> QED
    BY <1>1, <1>2

\* A transaction leaves: one more is unanswered, and it is the one the pass waits for.
LEMMA SendKept == ASSUME JournalInv, Send PROVE JournalInv'
  <1> DEFINE tx == [id |-> sent + 1, nonce |-> job.slot]
  <1>0. /\ WatcherTypeOK /\ job \in JobType /\ job.pc = "send" /\ job.slot \in SlotNonces
        /\ ~ HasNonce(local, job.slot) /\ sent \in Nat /\ sent + 1 \in 1 .. MaxSends
        /\ unanswered \in [SlotNonces -> Nat] /\ MaxSends \in Nat
    BY WatcherAssumption, SMTT(30)
    DEF Send, JournalInv, WatcherTypeOK, JobType, WorksOnOpenSlots, Working, PCs
  <1>1. /\ UNCHANGED <<clock, log, local, store, faults>>
        /\ sent' = sent + 1 /\ flight' = flight \union {tx}
        /\ unanswered' = [unanswered EXCEPT ![job.slot] = @ + 1]
    BY DEF Send, NoFault, NoRow
  <1>2. /\ job' \in JobType /\ job'.pc = "confirm" /\ job'.slot = job.slot /\ job'.tx = sent + 1
        /\ job'.settled = job.settled
    <2>0. "confirm" \in PCs
      BY DEF PCs
    <2>1. job' = [job EXCEPT !.pc = "confirm", !.tx = sent + 1]
      BY DEF Send
    <2>2. ASSUME NEW n \in 1 .. MaxSends, job' = [job EXCEPT !.pc = "confirm", !.tx = n]
          PROVE  /\ job' \in JobType /\ job'.pc = "confirm" /\ job'.slot = job.slot /\ job'.tx = n
                 /\ job'.settled = job.settled
      <3>1. n \in 0 .. MaxSends
        BY <1>0
      <3> QED
        BY <1>0, <2>0, <2>2, <3>1 DEF JobType
    <2> QED
      BY <1>0, <2>1, <2>2
  <1>3. unanswered' \in [SlotNonces -> Nat] /\ unanswered'[job.slot] > 0
    BY <1>0, <1>1
  <1>4. tx \in [id : 1 .. MaxSends, nonce : SlotNonces] /\ tx.id = sent + 1 /\ tx.nonce = job.slot
    BY <1>0
  <1>5. WatcherTypeOK'
    <2>1. sent' \in 0 .. MaxSends
      BY <1>0, <1>1
    <2> HIDE DEF tx
    <2> QED
      BY <1>0, <1>1, <1>2, <1>3, <1>4, <2>1 DEF WatcherTypeOK, JobType
  <1>6. IdsAreKnown'
    <2>1. \A i \in DOMAIN log : log[i].id \in Nat /\ log[i].id <= sent
      BY <1>0, LogType DEF JournalInv, IdsAreKnown, Charges
    <2>2. \A f \in flight : f.id \in Nat /\ f.id <= sent
      BY <1>0 DEF JournalInv, IdsAreKnown, WatcherTypeOK
    <2> HIDE DEF tx
    <2> QED
      BY <1>0, <1>1, <1>2, <1>4, <2>1, <2>2 DEF IdsAreKnown
  <1>7. ReadsWereSo'
    BY <1>1, <1>2 DEF JournalInv, ReadsWereSo, PaidNonces
  <1>8. WorksOnOpenSlots'
    BY <1>0, <1>1, <1>2, <1>3 DEF JournalInv, WorksOnOpenSlots, HasNonce, Lasting
  <1>9. RowsTellTheChain'
    BY <1>1 DEF JournalInv, RowsTellTheChain, Journals, OnChain, LastNonce, PaidNonces
  <1>10. ASSUME NEW s \in SlotNonces
         PROVE  /\ IsFiniteSet(Underway(s)')
                /\ Cardinality(Charged(s)') + Cardinality(Underway(s)')
                       <= unanswered'[s] + (IF Closed(s)' THEN 1 ELSE 0)
    <2>1. Charged(s)' = Charged(s) /\ Closed(s)' = Closed(s)
      BY <1>0, <1>1, <1>2 DEF Charged, Closed, HasNonce, Lasting
    <2>2. /\ IsFiniteSet(Underway(s))
          /\ Cardinality(Charged(s)) \in Nat /\ Cardinality(Underway(s)) \in Nat
          /\ unanswered[s] \in Nat
          /\ Cardinality(Charged(s)) + Cardinality(Underway(s))
                <= unanswered[s] + (IF Closed(s) THEN 1 ELSE 0)
      BY CountsType
    <2>3. CASE s = job.slot
      <3>1. Underway(s)' = Underway(s) \union {tx}
        BY <1>1, <2>3 DEF Underway
      <3>2. /\ IsFiniteSet(Underway(s) \union {tx})
            /\ Cardinality(Underway(s) \union {tx}) <= Cardinality(Underway(s)) + 1
            /\ Cardinality(Underway(s) \union {tx}) \in Nat
        BY <2>2, OneMore
      <3>3. unanswered'[s] = unanswered[s] + 1
        BY <1>0, <1>1, <2>3
      <3> HIDE DEF tx, Closed
      <3> QED
        BY <2>1, <2>2, <3>1, <3>2, <3>3
    <2>4. CASE s # job.slot
      <3>1. Underway(s)' = Underway(s)
        BY <1>1, <2>4 DEF Underway
      <3>2. unanswered'[s] = unanswered[s]
        BY <1>0, <1>1, <2>4
      <3> HIDE DEF Closed
      <3> QED
        BY <2>1, <2>2, <3>1, <3>2
    <2> QED
      BY <2>3, <2>4
  <1>11. SendsAreCounted'
    BY <1>10 DEF SendsAreCounted
  <1> QED
    BY <1>5, <1>6, <1>7, <1>8, <1>9, <1>11 DEF JournalInv

\* A transaction leaves the flight, and lands or not: the log grows at its end, last_nonce
\* does not fall.
LEMMA FlightEnds ==
    ASSUME JournalInv, UNCHANGED <<clock, local, store, job, sent, unanswered>>,
           faults' \in 0 .. MaxFaults,
           NEW tx \in flight, flight' = flight \ {tx},
           NEW charge \in Charges, charge.id = tx.id, charge.nonce = tx.nonce,
           \/ log' = log
           \/ log' = Append(log, charge) /\ LastNonce' \in Nat /\ LastNonce <= LastNonce'
    PROVE  JournalInv'
  <1> USE DEF JournalInv
  <1>0. /\ WatcherTypeOK /\ Len(log) \in Nat /\ DOMAIN log = 1 .. Len(log) /\ log \in Seq(Charges)
        /\ \A i \in DOMAIN log : log[i] \in Charges
    BY LogType DEF WatcherTypeOK
  <1>1. \/ log' = log
        \/ /\ log' = Append(log, charge)
           /\ DOMAIN log' = DOMAIN log \union {Len(log) + 1} /\ Len(log') = Len(log) + 1
           /\ Len(log) + 1 \notin DOMAIN log
           /\ \A i \in DOMAIN log : log'[i] = log[i]
           /\ log'[Len(log) + 1] = charge
    <2>1. ASSUME log' = Append(log, charge)
          PROVE  /\ DOMAIN log' = DOMAIN log \union {Len(log) + 1} /\ Len(log') = Len(log) + 1
                 /\ Len(log) + 1 \notin DOMAIN log
                 /\ \A i \in DOMAIN log : log'[i] = log[i]
                 /\ log'[Len(log) + 1] = charge
      <3>0. /\ log' \in Seq(Charges) /\ Len(log') = Len(log) + 1
            /\ \A i \in 1 .. Len(log) : log'[i] = log[i]
            /\ log'[Len(log) + 1] = charge
        <4>1. /\ Append(log, charge) \in Seq(Charges) /\ Len(Append(log, charge)) = Len(log) + 1
              /\ \A i \in 1 .. Len(log) : Append(log, charge)[i] = log[i]
              /\ Append(log, charge)[Len(log) + 1] = charge
          BY <1>0, AppendProperties
        <4> QED
          BY <2>1, <4>1
      <3>1. Len(log') = Len(log) + 1 /\ DOMAIN log' = 1 .. Len(log) + 1
        BY <3>0, LenProperties
      <3>2. 1 .. Len(log) + 1 = (1 .. Len(log)) \union {Len(log) + 1}
        BY <1>0
      <3>3. Len(log) + 1 \notin 1 .. Len(log)
        BY <1>0
      <3>4. (\A i \in DOMAIN log : log'[i] = log[i]) /\ log'[Len(log) + 1] = charge
        BY <1>0, <3>0
      <3> QED
        BY <1>0, <3>1, <3>2, <3>3, <3>4
    <2> QED
      BY <2>1
  <1>2. log' \in Seq(Charges) /\ Len(log) <= Len(log') /\ Len(log') \in Nat
    BY <1>0, <1>1
  <1>3. WatcherTypeOK'
    BY <1>0, <1>2 DEF WatcherTypeOK
  <1>4. IdsAreKnown'
    BY <1>1 DEF IdsAreKnown
  <1>5. \A n, d : OnChain(n, d) => OnChain(n, d)'
    BY <1>1 DEF OnChain
  <1>6. LastNonce <= LastNonce' /\ LastNonce \in Nat /\ LastNonce' \in Nat
    <2>1. LastNonce \in 0 .. MaxSlot
      BY <1>0, LastIsPaid
    <2>3. log' = log => LastNonce' = LastNonce
      BY DEF LastNonce, PaidNonces
    <2> QED
      BY <2>1, <2>3, WatcherAssumption
  <1>7. ReadsWereSo'
    <2>1. PaidNonces(log) \subseteq PaidNonces(log')
      BY <1>1 DEF PaidNonces
    <2>2. job.pc = "walk" => job.seen <= Len(log')
      BY <1>0, <1>2 DEF ReadsWereSo, WatcherTypeOK
    <2> QED
      BY <2>1, <2>2 DEF ReadsWereSo
  <1>8. WorksOnOpenSlots'
    BY DEF WorksOnOpenSlots, HasNonce, Lasting
  <1>9. RowsTellTheChain'
    <2>1. \A row \in Journals : row.nonce \in Nat
      BY <1>0, WatcherAssumption, SMTT(30) DEF Journals, WatcherTypeOK, JournalRows, SlotNonces
    <2>2. Journals' = Journals
      BY DEF Journals
    <2>3. \A row \in Journals : /\ row.nonce < LastNonce => row.nonce < LastNonce'
                                /\ row.nonce <= LastNonce => row.nonce <= LastNonce'
      BY <1>6, <2>1
    <2> QED
      BY <1>5, <2>2, <2>3 DEF RowsTellTheChain
  <1>10. ASSUME NEW s \in SlotNonces
         PROVE  /\ IsFiniteSet(Underway(s)')
                /\ Cardinality(Charged(s)') + Cardinality(Underway(s)')
                       <= unanswered'[s] + (IF Closed(s)' THEN 1 ELSE 0)
    <2>1. Closed(s)' = Closed(s) /\ unanswered' = unanswered
      BY DEF Closed, HasNonce, Lasting
    <2>2. /\ IsFiniteSet(Charged(s)) /\ IsFiniteSet(Underway(s))
          /\ Cardinality(Charged(s)) \in Nat /\ Cardinality(Underway(s)) \in Nat
          /\ unanswered[s] \in Nat
          /\ Cardinality(Charged(s)) + Cardinality(Underway(s))
                <= unanswered[s] + (IF Closed(s) THEN 1 ELSE 0)
      BY CountsType
    <2>3. Underway(s)' = IF tx.nonce = s THEN Underway(s) \ {tx} ELSE Underway(s)
      BY DEF Underway
    <2>4. /\ IsFiniteSet(Underway(s) \ {tx})
          /\ tx.nonce = s => Cardinality(Underway(s) \ {tx}) = Cardinality(Underway(s)) - 1
      <3>1. tx.nonce = s => tx \in Underway(s)
        BY DEF Underway
      <3> QED
        BY <2>2, <3>1, FS_RemoveElement
    <2>5. Charged(s)' \in {Charged(s), Charged(s) \union {Len(log) + 1}}
          /\ (tx.nonce # s => Charged(s)' = Charged(s))
      BY <1>0, <1>1 DEF Charged
    <2>6. /\ Cardinality(Charged(s) \union {Len(log) + 1}) <= Cardinality(Charged(s)) + 1
          /\ Cardinality(Charged(s) \union {Len(log) + 1}) \in Nat
      BY <2>2, OneMore
    <2> HIDE DEF Closed
    <2>7. CASE tx.nonce = s
      <3>1. Cardinality(Underway(s)') = Cardinality(Underway(s)) - 1
        BY <2>3, <2>4, <2>7
      <3>2. Cardinality(Charged(s)') <= Cardinality(Charged(s)) + 1 /\ Cardinality(Charged(s)') \in Nat
        <4>1. CASE Charged(s)' = Charged(s)
          BY <2>2, <4>1
        <4>2. CASE Charged(s)' = Charged(s) \union {Len(log) + 1}
          BY <2>6, <4>2
        <4> QED
          BY <2>5, <4>1, <4>2
      <3> QED
        BY <2>1, <2>2, <2>3, <2>4, <2>7, <3>1, <3>2
    <2>8. CASE tx.nonce # s
      BY <2>1, <2>2, <2>3, <2>5, <2>8
    <2> QED
      BY <2>7, <2>8
  <1>11. SendsAreCounted'
    BY <1>10 DEF SendsAreCounted
  <1> QED
    BY <1>3, <1>4, <1>7, <1>8, <1>9, <1>11

LEMMA FlightKept == ASSUME JournalInv, ChargeLands \/ ChargeExpires PROVE JournalInv'
  <1>0. /\ WatcherTypeOK /\ flight \subseteq [id : 1 .. MaxSends, nonce : SlotNonces]
        /\ LastNonce \in Nat
    <2>1. WatcherTypeOK
      BY DEF JournalInv
    <2>2. LastNonce \in 0 .. MaxSlot
      BY <2>1, LastIsPaid
    <2>3. flight \subseteq [id : 1 .. MaxSends, nonce : SlotNonces]
      BY <2>1 DEF WatcherTypeOK
    <2>4. LastNonce \in Nat
      BY <2>2, WatcherAssumption
    <2> QED
      BY <2>1, <2>3, <2>4
  <1>1. CASE ChargeLands
    <2>1. PICK tx \in flight, decision \in {"paid", "refused"}, stale \in BOOLEAN :
        /\ log' = Append(log, [id |-> tx.id, nonce |-> tx.nonce, decision |-> decision, stale |-> stale])
        /\ IF decision = "paid" THEN Chain!Settle(tx.nonce) ELSE UNCHANGED LastNonce
        /\ flight' = flight \ {tx}
        /\ UNCHANGED <<clock, local, store, job, sent, unanswered, faults>>
      BY <1>1 DEF ChargeLands
    <2> DEFINE charge == [id |-> tx.id, nonce |-> tx.nonce, decision |-> decision, stale |-> stale]
    <2>2. charge \in Charges /\ charge.id = tx.id /\ charge.nonce = tx.nonce /\ tx.nonce \in Nat
      BY <1>0, WatcherAssumption DEF Charges, SlotNonces
    <2>3. LastNonce <= LastNonce' /\ LastNonce' \in Nat
      BY <1>0, <2>1, <2>2 DEF Chain!Settle
    <2>4. faults' \in 0 .. MaxFaults
      BY <1>0, <2>1 DEF WatcherTypeOK
    <2>5. log' = Append(log, charge)
      BY <2>1
    <2> HIDE DEF charge
    <2> QED
      BY <2>1, <2>2, <2>3, <2>4, <2>5, FlightEnds
  <1>2. CASE ChargeExpires
    <2>1. PICK tx \in flight : flight' = flight \ {tx}
      BY <1>2 DEF ChargeExpires
    <2> DEFINE charge == [id |-> tx.id, nonce |-> tx.nonce, decision |-> "refused", stale |-> TRUE]
    <2>2. charge \in Charges /\ charge.id = tx.id /\ charge.nonce = tx.nonce
      BY <1>0 DEF Charges
    <2>3. faults' \in 0 .. MaxFaults /\ UNCHANGED <<clock, log, local, store, job, sent, unanswered>>
      BY <1>0, <1>2, FaultsBounded DEF ChargeExpires
    <2> HIDE DEF charge
    <2> QED
      BY <2>1, <2>2, <2>3, FlightEnds
  <1> QED
    BY <1>1, <1>2

-----------------------------------------------------------------------------
(* The journal                                                             *)

LEMMA InitJournal == WatcherInit => JournalInv
  <1> SUFFICES ASSUME WatcherInit PROVE JournalInv
    OBVIOUS
  <1> USE DEF WatcherInit
  <1>1. WatcherTypeOK
    BY NoPassType, WatcherAssumption DEF WatcherTypeOK, JobType
  <1>2. job.pc = "idle" /\ job.tx = 0 /\ job.settled = 0 /\ DOMAIN log = {}
    BY DEF NoPass
  <1>3. IdsAreKnown /\ ReadsWereSo /\ WorksOnOpenSlots /\ RowsTellTheChain
    BY <1>2 DEF IdsAreKnown, ReadsWereSo, WorksOnOpenSlots, Working, RowsTellTheChain, Journals
  <1>4. ASSUME NEW s \in SlotNonces
        PROVE  /\ IsFiniteSet(Underway(s))
               /\ Cardinality(Charged(s)) + Cardinality(Underway(s))
                      <= unanswered[s] + (IF Closed(s) THEN 1 ELSE 0)
    <2>1. Charged(s) = {} /\ Underway(s) = {} /\ unanswered[s] = 0
      BY <1>2 DEF Charged, Underway
    <2> HIDE DEF WatcherInit, Closed
    <2> QED
      BY <2>1, FS_EmptySet
  <1> QED
    BY <1>1, <1>3, <1>4 DEF JournalInv, SendsAreCounted

\* Every step of the watcher and of the world around it keeps the invariant.
LEMMA JournalKept == JournalInv /\ [WatcherNext]_watcherVars => JournalInv'
  <1> SUFFICES ASSUME JournalInv, [WatcherNext]_watcherVars PROVE JournalInv'
    OBVIOUS
  <1>0. WatcherTypeOK /\ clock \in 0 .. MaxSlot /\ MaxSlot \in Nat /\ faults \in 0 .. MaxFaults
    BY WatcherAssumption DEF JournalInv, WatcherTypeOK
  <1>1. CASE StartPass
    BY <1>1, StartKept
  <1>2. CASE ReadRing \/ Repair \/ PersistRepair
    BY <1>2, RepairKept
  <1>3. CASE PersistSlot
    BY <1>3, PersistKept
  <1>4. CASE NextSlot
    BY <1>4, NextKept
  <1>5. CASE \/ RateLimited \/ ReadFeed \/ ReadSettled \/ CloseAlreadySettled \/ ReadRecorded
             \/ PriceSlot \/ SubmitCharge \/ ConfirmCharge \/ ReadAnswer \/ ReadSettledAgain
    BY <1>5, TurnKept
  <1>6. CASE Send
    BY <1>6, SendKept
  <1>7. CASE ChargeLands \/ ChargeExpires
    BY <1>7, FlightKept
  <1>8. CASE Crash
    <2>1. faults' \in 0 .. MaxFaults
      BY <1>0, <1>8, FaultsBounded DEF Crash
    <2>2. local' = local \/ (Remote /\ local' = {})
      BY <1>8 DEF Crash
    <2> QED
      BY <1>8, <2>1, <2>2, PassEnds DEF Crash, chainVars
  <1>9. CASE Timeout
    <2>1. /\ UNCHANGED <<clock, log, flight, sent, store, unanswered>> /\ faults' \in 0 .. MaxFaults
          /\ job' = NoPass /\ local' = local
      BY <1>0, <1>9 DEF Timeout, chainVars
    <2> QED
      BY <2>1, PassEnds
  <1>10. CASE TimePasses \/ UNCHANGED watcherVars
    <2>1. /\ clock' \in 0 .. MaxSlot
          /\ UNCHANGED <<log, flight, sent, local, store, job, unanswered, faults>>
      BY <1>0, <1>10 DEF TimePasses, chainVars, watcherVars
    <2>2. WatcherTypeOK' /\ IdsAreKnown'
      BY <2>1 DEF JournalInv, WatcherTypeOK, IdsAreKnown
    <2>3. ReadsWereSo' /\ WorksOnOpenSlots'
      BY <2>1 DEF JournalInv, ReadsWereSo, PaidNonces, WorksOnOpenSlots, HasNonce, Lasting
    <2>4. RowsTellTheChain' /\ SendsAreCounted'
      BY <2>1, ChainRests DEF Journals, Closed, HasNonce, Lasting
    <2> QED
      BY <2>2, <2>3, <2>4 DEF JournalInv
  <1> QED
    BY <1>1, <1>2, <1>3, <1>4, <1>5, <1>6, <1>7, <1>8, <1>9, <1>10 DEF WatcherNext, Pass

\* What JournalInv says of the rows and of charging twice.
LEMMA JournalSays == JournalInv => JournalIsBacked
  <1> SUFFICES ASSUME JournalInv PROVE JournalIsBacked
    OBVIOUS
  <1>1. ASSUME NEW s \in SlotNonces
        PROVE  Cardinality({i \in DOMAIN log : log[i].nonce = s}) <= unanswered[s] + 1
    <2> HIDE DEF Closed
    <2> QED BY CountsType DEF Charged
  <1> QED
    BY <1>1 DEF JournalInv, JournalIsBacked, ChargedOnceUnlessUnheard

\* For any number of slots, any sizes of the ring and of a day, any prices and with or
\* without a stored object: the rows of the journal that settle a slot are what happened to
\* it on chain, and a slot is charged again only after a transaction nobody heard of
\* (processWindow, repairJournalFromChain, hydrateLocalJournal, persistRecordedDecision).
THEOREM TheJournalIsBacked == WatcherSpec => []JournalIsBacked
  <1> QED
    BY InitJournal, JournalKept, JournalSays, PTL DEF WatcherSpec

=============================================================================
