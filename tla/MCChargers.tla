----------------------------- MODULE MCChargers -----------------------------
(***************************************************************************)
(* The programs that submit charges: the agent's commands, composed with   *)
(* the mandate they charge, and the watcher, which relies on Settlement    *)
(* alone; and the link by which an agent asks for the rule it charges.  A  *)
(* behaviour is of one of the three.                                       *)
(***************************************************************************)
EXTENDS Agent, Watcher, RuleLink

CONSTANTS owner, agent, spare, shop, m1, m2, purse, till

OwnBoth == [m \in Mandates |-> owner]

HoldBoth == [a \in {purse, till} |-> IF a = purse THEN owner ELSE shop]

Ids == [m \in Mandates |-> IF m = m1 THEN 1 ELSE 2]

\* The shop has no associated account, so its only account is looked up.
Atas == [w \in {owner, agent, spare, shop} |-> IF w = owner THEN purse ELSE NoKey]

AgentTerms ==
    {[agent |-> agent, merchant |-> shop, source |-> purse, cap |-> 3, per_tx_max |-> 1,
      expires_at |-> 1]}

\* Drafts of both versions, and edits with one token of every kind.
NoToken == Tok("absent", 0)
Label == {NoToken, Tok("empty", 0), Tok("text", 1)}

Payments ==
    { [v |-> 1, field |->
        [agent |-> Tok("key", 1), payee |-> Tok("key", 2), mint |-> Tok("key", 3),
         cap |-> Tok("digits", c), max |-> Tok("digits", m), days |-> Tok("digits", 2),
         purpose |-> p, agentLabel |-> l, payeeLabel |-> NoToken]] :
      c \in {2}, m \in {1, 3}, p \in {Tok("empty", 0)}, l \in Label }

Trades ==
    { [v |-> 2, field |->
        [agent |-> Tok("key", 1), inMint |-> Tok("key", 2), outMint |-> Tok("key", 3),
         pool |-> Tok("key", 2), perTrade |-> Tok("digits", 1), daily |-> Tok("digits", d),
         cap |-> Tok("digits", 2), floorBps |-> Tok("digits", 2), days |-> Tok("digits", 1),
         purpose |-> Tok("empty", 0), agentLabel |-> NoToken, poolLabel |-> l]] :
      d \in {2, 3}, l \in {NoToken, Tok("empty", 0)} }

MCDrafts == Payments \union Trades

MCTokens ==
    { Tok("key", 1), Tok("alias", 1), Tok("digits", 0), Tok("digits", 1), Tok("digits", 2),
      Tok("digits", 4), Tok("padded", 1), Tok("empty", 0), Tok("text", 1), Tok("text", 2),
      Tok("undecodable", 0) }

VARIABLE part

runVars == <<allVars, watcherVars, linkVars, part>>

\* The part that does not move stays in one of its initial states.
RunInit ==
    /\ part \in {"agent", "watcher", "link"}
    /\ AgentInit /\ WatcherInit /\ LinkInit
    /\ now = 0
    /\ part # "agent" => home = [key |-> FALSE, config |-> NoConfig]
    /\ part # "link" => draft = CHOOSE d \in Trades : InputProblem(d) = <<>>

RunNext ==
    \/ part = "agent" /\ AgentNext /\ UNCHANGED <<watcherVars, linkVars, part>>
    \/ part = "watcher" /\ WatcherNext /\ UNCHANGED <<allVars, linkVars, part>>
    \/ part = "link" /\ LinkNext /\ UNCHANGED <<allVars, watcherVars, part>>

\* The fairness of AgentSpec and of WatcherFairSpec.
RunSpec ==
    /\ RunInit /\ [][RunNext]_runVars
    /\ \A c \in Commands :
          /\ WF_allVars(part = "agent" /\ Step(c))
          /\ WF_allVars(part = "agent" /\ (Land(c) \/ Expire(c)))
    /\ WF_watcherVars(part = "watcher" /\ Pass)
    /\ WF_watcherVars(part = "watcher" /\ Timeout)
    /\ WF_watcherVars(part = "watcher" /\ TimePasses)
    /\ WF_watcherVars(part = "watcher" /\ ChargeLands)

-----------------------------------------------------------------------------

\* Every command ends (CommandsEnd), and once faults stop every slot of the last day is
\* settled in the stored journal and stays so (EverySlotIsSettled: the run loop, the journal
\* store and the task timeout).
ChargersEnd ==
    /\ CommandsEnd
    /\ <>[](part = "watcher" =>
               \A s \in {t \in SlotNonces : Day(t) = Day(MaxSlot)} : \E row \in Hydrated :
                   row.nonce = s /\ row.decision \in {"paid", "refused", "skipped"})

\* A link that was not touched reads back as what was asked for, the parsers of the SDK and
\* of the phone accept the same links, and only sound ones (ReadsBackAsAsked, ParsersAgree,
\* AcceptedIsSound: rule-request.ts against app/lib/ruleRequest.ts).
LinksAreReadAlike ==
    part = "link" => ReadsBackAsAsked /\ ParsersAgree /\ AcceptedIsSound

=============================================================================
