------------------------------- MODULE Agent -------------------------------
(***************************************************************************)
(* The agent's side of a mandate: the SDK's VetoAgent (sdk/src/agent.ts)   *)
(* and the commands built on it, `veto connect`, `veto pay`, `veto status` *)
(* and the rule request of the MCP server (cli/src).  A command is a       *)
(* sequence of remote reads with at most one transaction in it; the chain  *)
(* is the one of Mandate, and between two reads other commands run, the    *)
(* owner grants, revokes and opens, transactions land late or never, and   *)
(* any call may fail.                                                      *)
(***************************************************************************)
EXTENDS Mandate

CONSTANTS
    Commands,      \* commands that are run, each once
    Ops,           \* what is run in this instance
    DefaultKey,    \* the key of ~/.veto/agent.json
    FlagKey,       \* the key of the file given with --key
    IdOf,          \* mandate_id of each mandate address; rules are opened with rising ids
    AtaOf,         \* the associated token account of each wallet, or NoKey
    NONCE_MAX      \* the largest u64

Keys == {DefaultKey, FlagKey}

ASSUME AgentAssumption ==
    /\ Keys \subseteq Wallets
    /\ IdOf \in [Mandates -> Nat]
    /\ AtaOf \in [Wallets -> TokenAccounts \union {NoKey}]
    /\ \A w \in Wallets : AtaOf[w] # NoKey => HolderOf[AtaOf[w]] = w
    /\ NONCE_MAX \in Nat
    /\ 1 .. NONCE_MAX \subseteq Nonces
    /\ Ops \subseteq {"connect", "pay", "status", "request", "sdk", "purpose"}

VARIABLES
    home,    \* the files under ~/.veto: whether agent.json exists, and config.json
    cmd,     \* the commands
    fate     \* what became of the transaction of each command

agentVars == <<home, cmd, fate>>
allVars == <<vars, home, cmd, fate>>

-----------------------------------------------------------------------------
(* State                                                                   *)

NoBlock ==
    [agent |-> NoKey, source |-> NoKey, payee |-> NoKey, cluster |-> "none", decimals |-> "none",
     keys |-> "none"]

Idle ==
    [op |-> "none", at |-> "idle", key |-> NoKey, rule |-> NoKey, block |-> NoBlock,
     amount |-> 0, nonce |-> 0, destination |-> NoKey, seen |-> <<0, 0>>, said |-> "nothing"]

\* VetoConfig, or none; `flag` says that its key path is the one given with --key.
NoConfig == [rule |-> NoKey, flag |-> FALSE]

\* A config may be left from an earlier `veto connect` whose rule has been closed since.
AgentInit ==
    /\ Init
    /\ home \in [key : {FALSE}, config : {NoConfig}]
                \union [key : {TRUE}, config : [rule : Mandates, flag : {FALSE}]]
    /\ cmd = [c \in Commands |-> Idle]
    /\ fate = [c \in Commands |-> "none"]

Goto(c, at) == cmd' = [cmd EXCEPT ![c].at = at]

\* A value is returned or an error thrown: the command is over.
Say(c, reply) == cmd' = [cmd EXCEPT ![c].at = "done", ![c].said = reply]

\* A read of the chain that succeeds leaves everything but the command alone.
ReadOnly == UNCHANGED <<vars, home, fate>>

-----------------------------------------------------------------------------
(* What the SDK reads                                                      *)

\* isActive, with the clock of the machine, which need not be the chain's.
IsActive(md, t) == md.status = "ACTIVE" /\ md.expires_at > t

\* mandatesForAgent
RulesOf(key) == {m \in Mandates : Live(m) /\ mandate[m].agent = key}

\* The first rule of the listing, newest mandate id first, that is active.
NewestActive(key, t) ==
    LET active == {m \in RulesOf(key) : IsActive(mandate[m], t)} IN
    IF active = {} THEN NoKey
    ELSE CHOOSE m \in active : \A n \in active : IdOf[n] <= IdOf[m]

\* merchantTokenAccount: the associated account, or else the only account.
MerchantTokenAccount(merchant) ==
    LET listed == {a \in TokenAccounts : HolderOf[a] = merchant} IN
    IF AtaOf[merchant] # NoKey THEN AtaOf[merchant]
    ELSE IF Cardinality(listed) = 1 THEN CHOOSE a \in listed : TRUE
    ELSE NoKey

\* fromMandate: the account exists, names this key and has a payee to pay.
FromMandate(m, key) ==
    /\ m \in Mandates
    /\ Live(m)
    /\ mandate[m].agent = key
    /\ MerchantTokenAccount(mandate[m].merchant) # NoKey

\* readPayeeTokenAccount, the phone's own lookup: the associated account when it exists or
\* is listed, else the only match; the rule's screen has no block to copy otherwise.
ReadPayeeTokenAccount(merchant) ==
    LET matches == {a \in TokenAccounts : HolderOf[a] = merchant} IN
    CASE AtaOf[merchant] # NoKey -> AtaOf[merchant]
      [] AtaOf[merchant] = NoKey /\ \E a \in matches : matches = {a} -> CHOOSE a \in matches : TRUE
      [] OTHER -> NoKey

\* The block the app copies for an agent (agentChargeConfig).
BlockOf(m) ==
    [agent |-> mandate[m].agent, source |-> mandate[m].source,
     payee |-> ReadPayeeTokenAccount(mandate[m].merchant),
     cluster |-> "devnet", decimals |-> "6", keys |-> "all"]

\* agentConnectStatus: an active rule whose payee account is known has a block.
HasBlock(m, t) ==
    /\ Live(m)
    /\ IsActive(mandate[m], t)
    /\ BlockOf(m).payee # NoKey

\* What arrives at the agent: the block, or one that lost a key or was edited on its way.
BlocksOf(m) ==
    LET b == BlockOf(m) IN
    {b, [b EXCEPT !.keys = "lost"], [b EXCEPT !.cluster = "mainnet-beta"], [b EXCEPT !.decimals = "9"]}

\* loadAgentConfig: the documented keys, each usable.
LoadAgentConfig(block) == block.keys = "all"

\* assertCluster: the endpoint reports the genesis hash of the cluster.
AssertCluster(block) == block.cluster = "devnet"

\* assertMintDecimals: the mint account shows the decimals.
AssertMintDecimals(block) == block.decimals = "6"

\* fromConfig: every field of the block agrees with the chain.
FromConfig(m, block, key) ==
    /\ LoadAgentConfig(block)
    /\ block.agent = key
    /\ AssertCluster(block)
    /\ FromMandate(m, key)
    /\ mandate[m].source = block.source
    /\ AssertMintDecimals(block)
    /\ MerchantTokenAccount(mandate[m].merchant) = block.payee

\* nextNonce: the nonce of a pending override, or one more than the last; 0 for the error
\* at the end of u64.
NextNonceOf(md) ==
    IF md.override_nonce > md.last_nonce THEN md.override_nonce
    ELSE IF md.last_nonce >= NONCE_MAX THEN 0
    ELSE md.last_nonce + 1

\* Mutant: the guard looks at the nonce only when the amount is above the override.
MutGuardAbove(md, amount, nonce) ==
    /\ md.override_nonce > md.last_nonce
    /\ nonce = md.override_nonce
    /\ amount > md.override_amount

\* guardPendingOverride: this charge would use up an override granted for another amount.
WouldClearOverride(md, amount, nonce) ==
    /\ md.override_nonce > md.last_nonce
    /\ nonce = md.override_nonce
    /\ amount # md.override_amount

-----------------------------------------------------------------------------
(* Starting a command                                                      *)

\* run and the MCP tools: the arguments are checked before anything is read.  An amount
\* is a positive number of base units.
Begin(c, op, amount, flag, named) ==
    /\ cmd[c].at = "idle"
    /\ amount > 0
    /\ cmd' = [cmd EXCEPT ![c] =
           [Idle EXCEPT !.op = op, !.amount = amount, !.rule = named,
                        !.key = IF flag THEN FlagKey ELSE NoKey,
                        !.at = CASE op \in {"connect", "request"} -> "key"
                                 [] op \in {"pay", "status"} -> "select"
                                 [] OTHER -> "open"]]
    /\ UNCHANGED <<vars, home, fate>>

StartConnect(c) == \E flag \in BOOLEAN, named \in Mandates \union {NoKey} : Begin(c, "connect", 1, flag, named)

StartPay(c) == \E amount \in Amounts, named \in Mandates \union {NoKey} : Begin(c, "pay", amount, FALSE, named)

StartOther(c) == \E op \in Ops \intersect {"status", "request"} : Begin(c, op, 1, FALSE, NoKey)

\* An agent program that was given the block of an active rule: loadAgentConfig, then
\* fromConfig, with or without a purpose check.
StartSdk(c) ==
    \E op \in Ops \intersect {"sdk", "purpose"}, m \in Mandates, amount \in Amounts, t \in Times :
        /\ cmd[c].at = "idle"
        /\ HasBlock(m, t)
        /\ amount > 0
        /\ \E block \in BlocksOf(m) :
              cmd' = [cmd EXCEPT ![c] =
                  [Idle EXCEPT !.op = op, !.at = "open", !.amount = amount, !.rule = m,
                               !.block = block, !.key = mandate[m].agent]]
        /\ UNCHANGED <<vars, home, fate>>

\* An await that throws: the RPC, the network or a file. Of a transaction that was sent,
\* nothing is known afterwards.
Fails(c) ==
    /\ cmd[c].at \notin {"idle", "done"}
    /\ Say(c, "error")
    /\ UNCHANGED <<vars, home, fate>>

-----------------------------------------------------------------------------
(* veto connect and the rule request                                       *)

\* loadOrCreateKey: the key of --key, or agent.json, written when there is none. A rule
\* request always uses agent.json.
LoadOrCreateKey(c) ==
    LET key == IF cmd[c].key = FlagKey THEN FlagKey ELSE DefaultKey IN
    /\ cmd[c].at = "key"
    /\ home' = IF key = DefaultKey THEN [home EXCEPT !.key = TRUE] ELSE home
    /\ cmd' = IF cmd[c].op = "request"
              THEN [cmd EXCEPT ![c].at = "done", ![c].key = key, ![c].said = "requested"]
              ELSE [cmd EXCEPT ![c].at = "wait", ![c].key = key]
    /\ UNCHANGED <<vars, fate>>

\* namedRule: --rule names the rule, which must be this key's and active.
NamedRule(c) ==
    /\ cmd[c].at = "wait"
    /\ cmd[c].rule # NoKey
    /\ \E t \in Times :
          IF FromMandate(cmd[c].rule, cmd[c].key) /\ IsActive(mandate[cmd[c].rule], t)
          THEN Goto(c, "show") ELSE Say(c, "error")
    /\ ReadOnly

\* requestAndWait: polls until some rule of the key is active, however it got there.
RequestAndWait(c) ==
    /\ cmd[c].at = "wait"
    /\ cmd[c].rule = NoKey
    /\ \E t \in Times :
          /\ NewestActive(cmd[c].key, t) # NoKey
          /\ cmd' = [cmd EXCEPT ![c].at = "show", ![c].rule = NewestActive(cmd[c].key, t)]
    /\ ReadOnly

\* showRule reads the rule again and prints its terms.
ShowRule(c) ==
    /\ cmd[c].at = "show"
    /\ IF FromMandate(cmd[c].rule, cmd[c].key) THEN Goto(c, "save") ELSE Say(c, "error")
    /\ ReadOnly

\* writeConfig
SaveConfig(c) ==
    /\ cmd[c].at = "save"
    /\ home' = [home EXCEPT !.config = [rule |-> cmd[c].rule, flag |-> cmd[c].key = FlagKey]]
    /\ Say(c, "saved")
    /\ UNCHANGED <<vars, fate>>

-----------------------------------------------------------------------------
(* veto pay and veto status                                                *)

\* The key of the saved config; its file may not be there.
SavedKey == IF home.config.flag THEN FlagKey ELSE IF home.key THEN DefaultKey ELSE NoKey

\* readConfig, readKeyFile and selectRule: pay takes the rule it is given or the newest
\* active rule of the key, status (openSaved) the rule of the config.
SelectRule(c) ==
    /\ cmd[c].at = "select"
    /\ IF home.config = NoConfig \/ SavedKey = NoKey THEN Say(c, "error")
       ELSE \E t \in Times :
              LET rule == IF cmd[c].op = "status" THEN home.config.rule
                          ELSE IF cmd[c].rule # NoKey THEN cmd[c].rule
                          ELSE NewestActive(SavedKey, t)
              IN IF rule = NoKey THEN Say(c, "error")
                 ELSE cmd' = [cmd EXCEPT ![c].at = "open", ![c].key = SavedKey, ![c].rule = rule]
    /\ ReadOnly

\* openMandate, then status: a rule that is not active ends the command.
OpenRule(c) ==
    /\ cmd[c].at = "open"
    /\ cmd[c].op \in {"pay", "status"}
    /\ \E t \in Times :
          IF ~FromMandate(cmd[c].rule, cmd[c].key) \/ ~IsActive(mandate[cmd[c].rule], t)
          THEN Say(c, "error")
          ELSE IF cmd[c].op = "status" THEN Say(c, "shown")
          ELSE Goto(c, "nonce")
    /\ ReadOnly

-----------------------------------------------------------------------------
(* VetoAgent                                                               *)

OpenFromConfig(c) ==
    /\ cmd[c].at = "open"
    /\ cmd[c].op \in {"sdk", "purpose"}
    /\ IF FromConfig(cmd[c].rule, cmd[c].block, cmd[c].key)
       THEN cmd' = [cmd EXCEPT ![c].at = "nonce", ![c].block = NoBlock]
       ELSE Say(c, "error")
    /\ ReadOnly

NextNonce(c) ==
    LET nonce == NextNonceOf(mandate[cmd[c].rule]) IN
    /\ cmd[c].at = "nonce"
    /\ IF ~Live(cmd[c].rule) \/ nonce = 0 THEN Say(c, "error")
       ELSE cmd' = [cmd EXCEPT ![c].nonce = nonce,
                               ![c].at = IF cmd[c].op = "purpose" THEN "check" ELSE "load"]
    /\ ReadOnly

\* chargeWithPurposeCheck: the caller's check allows, declines or throws.
PurposeCheck(c) ==
    /\ cmd[c].at = "check"
    /\ IF ~Live(cmd[c].rule) \/ mandate[cmd[c].rule].agent # cmd[c].key THEN Say(c, "error")
       ELSE Goto(c, "load") \/ Goto(c, "decline")
    /\ ReadOnly

\* charge, up to the instruction: the mandate is read again, the guard of `veto pay` is
\* applied to what was read, and the payee's account is looked up.
ChargeLoad(c) ==
    LET m == cmd[c].rule
        md == mandate[m]
        dst == MerchantTokenAccount(md.merchant)
    IN
    /\ cmd[c].at = "load"
    /\ IF ~Live(m) \/ md.agent # cmd[c].key THEN Say(c, "error")
       ELSE IF cmd[c].op = "pay" /\ WouldClearOverride(md, cmd[c].amount, cmd[c].nonce) THEN Say(c, "error")
       ELSE IF dst = NoKey THEN Say(c, "error")
       ELSE cmd' = [cmd EXCEPT ![c].at = "send", ![c].destination = dst,
                               ![c].seen = <<md.override_nonce, md.override_amount>>]
    /\ ReadOnly

\* submit: the node takes the transaction, and its answer may still be lost. A preflight
\* that fails is a call that fails.
Submit(c) ==
    /\ cmd[c].at \in {"send", "decline"}
    /\ fate' = [fate EXCEPT ![c] = "flying"]
    /\ Goto(c, "confirm") \/ Say(c, "error")
    /\ UNCHANGED <<vars, home>>

IsDecline(c) == cmd[c].op = "purpose" /\ cmd[c].destination = NoKey

\* confirmTransaction: an error on the chain and an expired blockhash are thrown.
Confirm(c) ==
    /\ cmd[c].at = "confirm"
    /\ CASE fate[c] \in {"PAID", "REFUSED"} -> Goto(c, "read")
         [] fate[c] = "MEMO" -> Say(c, "declined")
         [] fate[c] = "EXPIRED" -> Say(c, "error")
         [] OTHER -> FALSE
    /\ ReadOnly

\* Mutant: a transaction that is not returned is taken for a refusal.
MutMissingIsRefused(c) ==
    /\ cmd[c].at = "read"
    /\ Say(c, IF fate[c] = "PAID" THEN "paid" ELSE "refused") \/ Say(c, "refused")
    /\ ReadOnly

\* confirmedTransaction and the decision in it. A transaction the node does not return
\* after eight tries, or one without its event, is an error (Fails).
ReadDecision(c) ==
    /\ cmd[c].at = "read"
    /\ Say(c, IF fate[c] = "PAID" THEN "paid" ELSE "refused")
    /\ ReadOnly

Step(c) ==
    \/ LoadOrCreateKey(c) \/ NamedRule(c) \/ RequestAndWait(c) \/ ShowRule(c) \/ SaveConfig(c)
    \/ SelectRule(c) \/ OpenRule(c) \/ OpenFromConfig(c) \/ NextNonce(c) \/ PurposeCheck(c)
    \/ ChargeLoad(c) \/ Submit(c) \/ Confirm(c) \/ ReadDecision(c)

-----------------------------------------------------------------------------
(* The chain and the owner                                                 *)

\* The transaction of a command is executed: a charge is decided by the program;
\* a memo names the mandate and changes nothing.
Land(c) ==
    LET k == cmd[c] IN
    /\ fate[c] = "flying"
    /\ IF IsDecline(c) THEN fate' = [fate EXCEPT ![c] = "MEMO"] /\ UNCHANGED vars
       ELSE /\ Charge(k.rule, k.key, k.destination, k.amount, k.nonce)
            /\ fate' = [fate EXCEPT ![c] = IF paid' = paid THEN "REFUSED" ELSE "PAID"]
    /\ UNCHANGED <<home, cmd>>

\* Its blockhash is too old, or it is executed with an error and changes nothing.
Expire(c) ==
    /\ fate[c] = "flying"
    /\ fate' = [fate EXCEPT ![c] = "EXPIRED"]
    /\ UNCHANGED <<vars, home, cmd>>

\* The owner lets a refused charge through, as the app offers it from a row of the record
\* (assessOverride with the rule read again).
OwnerAllows(m) ==
    \E i \in DOMAIN Rows(m) :
        LET row == Rows(m)[i] IN
        /\ row.kind = "REFUSED" /\ row.reason = "OVER_PER_TX_MAX" /\ row.suggested_override > 0
        /\ GrantOverride(m, OwnerOf[m], row.suggested_override, row.nonce)
        /\ UNCHANGED agentVars

\* The owner opens a rule, always with a new id, and stops one.
OwnerOpens(m) ==
    /\ \A n \in Mandates : IdOf[n] < IdOf[m] => Live(n)
    /\ \E args \in Terms : OpenMandate(m, args)
    /\ UNCHANGED agentVars

OwnerRevokes(m) == RevokeMandate(m, OwnerOf[m]) /\ UNCHANGED agentVars

ClockTicks == Tick /\ now' > now /\ UNCHANGED agentVars

AgentNext ==
    \/ \E c \in Commands :
          \/ "connect" \in Ops /\ StartConnect(c)
          \/ "pay" \in Ops /\ StartPay(c)
          \/ StartOther(c)
          \/ StartSdk(c)
          \/ Step(c) \/ Fails(c) \/ Land(c) \/ Expire(c)
    \/ \E m \in Mandates : OwnerAllows(m) \/ OwnerOpens(m) \/ OwnerRevokes(m)
    \/ ClockTicks

\* A command that can go on goes on, and a transaction that was sent is executed or becomes
\* too old.
AgentSpec ==
    /\ AgentInit /\ [][AgentNext]_allVars
    /\ \A c \in Commands : WF_allVars(Step(c)) /\ WF_allVars(Land(c) \/ Expire(c))

-----------------------------------------------------------------------------
(* Properties                                                              *)

\* What a command reports is what its own transaction did: a reported payment was made
\* under the rule it was asked for, with its nonce and amount; a reported refusal moved
\* nothing; a reported decline never reached the program (submit, confirmedTransaction and
\* the decision matched by charge).
ReportsAreTrue ==
    \A c \in Commands :
        /\ cmd[c].said = "paid" =>
              /\ fate[c] = "PAID"
              /\ \E i \in DOMAIN paid[cmd[c].rule] :
                    /\ paid[cmd[c].rule][i].nonce = cmd[c].nonce
                    /\ paid[cmd[c].rule][i].amount = cmd[c].amount
        /\ cmd[c].said = "refused" => fate[c] = "REFUSED"
        /\ cmd[c].said = "declined" => fate[c] = "MEMO"

\* An override that was pending when `veto pay` read the rule is not used up by a payment
\* of another amount, whatever lands before it (guardPendingOverride in charge).
SeenOverrideIsKept ==
    [][\A c \in Commands :
          LET md == mandate[cmd[c].rule] IN
          (fate[c] = "flying" /\ fate'[c] = "PAID" /\ cmd[c].op = "pay"
             /\ cmd[c].seen = <<md.override_nonce, md.override_amount>>
             /\ md.override_nonce = cmd[c].nonce /\ md.override_nonce > 0)
          => cmd[c].amount = md.override_amount]_allVars

\* Every command comes to an end, except that connect waits for the owner: no answer of
\* the chain or of the network leaves it hanging (submit and confirmTransaction).
CommandsEnd ==
    \A c \in Commands : []<>(cmd[c].at \in {"idle", "done"} \/ cmd[c].op = "connect")

=============================================================================
