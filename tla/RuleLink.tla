------------------------------ MODULE RuleLink ------------------------------
(***************************************************************************)
(* The veto://rule-request link an agent's operator builds and the owner's *)
(* phone reads: createRuleRequest and parseRuleRequest of the SDK, for     *)
(* payments (version 1) and trades (version 2), and the phone's own parser *)
(* (app/lib/ruleRequest.ts).  A value in a link is a token: what kind of   *)
(* text it is after decoding, and the number, key or length it stands for. *)
(* The link is edited on the way: parts are lost, repeated or replaced.    *)
(***************************************************************************)
EXTENDS Integers, Sequences, SequencesExt, FiniteSets, FiniteSetsExt

CONSTANTS
    U64_MAX, DAYS_MAX, PURPOSE_MAX, LABEL_MAX,
    Pubkeys,           \* addresses
    Tokens,            \* what an edit may put in the place of a value
    Drafts,            \* what operators ask for: a version and a token for each field
    MaxEdits           \* bound: edits of one link

\* The text before the query, and what may stand around and in it: a run of spaces, a
\* no-break space or a control character before it, capitals, an empty user or port, a path,
\* a raw line break, a hash behind the query.
Heads == [around |-> {"none", "space", "nbsp", "control"}, scheme |-> {"veto", "VETO", "other"},
          user |-> {"none", "empty", "some"}, host |-> {"rule-request", "Rule-Request", "other"},
          port |-> {"none", "empty", "some"}, path |-> {"none", "slash", "dot", "more"},
          broken |-> BOOLEAN, hash |-> BOOLEAN]

PlainHead == [around |-> "none", scheme |-> "veto", user |-> "none", host |-> "rule-request",
              port |-> "none", path |-> "none", broken |-> FALSE, hash |-> FALSE]

VARIABLES
    draft,             \* what the operator asked for
    link,              \* the link now: its head and the parts of its query
    edits

linkVars == <<draft, link, edits>>

Tok(kind, n) == [kind |-> kind, n |-> n]

\* RULE_REQUEST_CHECK_ORDER and TRADE_REQUEST_CHECK_ORDER: fields in the order they are
\* checked; "limits" is the comparison of amounts made once they are all read.
CheckOrder(v) ==
    IF v = 1
    THEN <<"v", "agent", "payee", "mint", "cap", "max", "limits", "days", "purpose",
           "agentLabel", "payeeLabel">>
    ELSE <<"v", "kind", "agent", "inMint", "outMint", "pool", "perTrade", "daily", "cap",
           "limits", "floorBps", "days", "purpose", "agentLabel", "poolLabel">>

\* QUERY_KEYS and TRADE_QUERY_KEYS
QueryKeys(v) == Range(CheckOrder(v)) \ {"limits"}
Fields(v) == QueryKeys(v) \ {"v", "kind"}

AddressKeys == {"agent", "payee", "mint", "inMint", "outMint", "pool"}
AmountKeys == {"cap", "max", "perTrade", "daily", "floorBps"}
LabelKeys == {"agentLabel", "payeeLabel", "poolLabel"}

-----------------------------------------------------------------------------
(* Values                                                                  *)

\* parsePositiveU64 and coercePositiveU64: digits without a leading zero.
PositiveU64(t) == t.kind = "digits" /\ t.n \in 1 .. U64_MAX

\* parseDaysToken and coerceDays
Days(t) == t.kind = "digits" /\ t.n \in 1 .. DAYS_MAX

\* canonicalAddress: the key is written the one way it prints.
Canonical(t) == t.kind = "key" /\ t.n \in Pubkeys

\* What is wrong with a value that is there: nothing, "bad" or "too_long".
ValueProblem(v, key, t) ==
    CASE key = "v" -> IF t = Tok("digits", v) THEN "none" ELSE "bad"
      [] key = "kind" -> IF t.kind = "trade" THEN "none" ELSE "bad"
      [] key \in AddressKeys -> IF Canonical(t) THEN "none" ELSE "bad"
      [] key \in AmountKeys -> IF PositiveU64(t) THEN "none" ELSE "bad"
      [] key = "days" -> IF Days(t) THEN "none" ELSE "bad"
      [] key = "purpose" ->
            IF t.kind = "lone" THEN "bad"
            ELSE IF t.kind = "text" /\ t.n > PURPOSE_MAX THEN "too_long" ELSE "none"
      [] key \in LabelKeys ->
            IF t.kind = "lone" THEN "bad"
            ELSE IF t.kind = "text" /\ t.n > LABEL_MAX THEN "too_long" ELSE "none"

\* max is at most cap; perTrade at most daily, daily at most cap.
LimitsOutOfOrder(v, value) ==
    IF v = 1 THEN value.max.n > value.cap.n
    ELSE value.perTrade.n > value.daily.n \/ value.daily.n > value.cap.n

-----------------------------------------------------------------------------
(* Building a link                                                         *)


\* The fields of a draft that are given; an absent one is Tok("absent", 0).
Given(d) == {key \in Fields(d.v) : d.field[key].kind # "absent"}

\* readInput and readTradeInput: the first problem of what the operator asks for.
InputProblem(d) ==
    LET wrong(key) ==
            IF key \in {"v", "kind"} THEN "none"
            ELSE IF key = "limits"
            THEN IF LimitsOutOfOrder(d.v, d.field) THEN "limits" ELSE "none"
            ELSE IF key \notin Given(d) THEN (IF key \in LabelKeys THEN "none" ELSE "missing")
            ELSE ValueProblem(d.v, key, d.field[key])
        order == CheckOrder(d.v)
        first == SelectInSeq(order, LAMBDA key : wrong(key) # "none")
    IN IF first = 0 THEN <<>> ELSE <<wrong(order[first]), order[first]>>

\* formatRequest and formatTradeRequest: fields in order, an empty label left off.
Formatted(d) ==
    LET keys == SelectSeq(CheckOrder(d.v), LAMBDA key :
                    \/ key \in {"v"} \union (IF d.v = 2 THEN {"kind"} ELSE {})
                    \/ key \in Given(d) /\ ~ (key \in LabelKeys /\ d.field[key].kind = "empty"))
    IN [i \in DOMAIN keys |->
          [key |-> keys[i],
           tok |-> IF keys[i] = "v" THEN Tok("digits", d.v)
                   ELSE IF keys[i] = "kind" THEN Tok("trade", 0) ELSE d.field[keys[i]]]]

-----------------------------------------------------------------------------
(* Reading a link                                                          *)

\* parseSlots and parseTradeSlots: how often a known key comes, and its first value.
Slot(l, key) ==
    LET at == {i \in DOMAIN l.parts : l.parts[i].key = key}
    IN [count |-> Cardinality(at),
        tok |-> IF at = {} THEN Tok("absent", 0) ELSE l.parts[Min(at)].tok]

\* Mutant: the first of two equal keys is taken.
MutSlotProblem(v, l, key) ==
    LET slot == Slot(l, key)
    IN IF slot.count = 0 THEN (IF key \in LabelKeys THEN "none" ELSE "missing")
       ELSE IF slot.tok.kind = "undecodable" THEN "bad"
       ELSE ValueProblem(v, key, slot.tok)

\* readRequired, readOptional and the field readers on top of them.
SlotProblem(v, l, key) ==
    LET slot == Slot(l, key)
    IN IF slot.count = 0 THEN (IF key \in LabelKeys THEN "none" ELSE "missing")
       ELSE IF slot.count > 1 THEN "duplicate"
       ELSE IF slot.tok.kind = "undecodable" THEN "bad"
       ELSE ValueProblem(v, key, slot.tok)

\* readFields and readTradeFields: the first problem, fields in order.
FirstProblem(v, l) ==
    LET wrong(key) ==
            IF key # "limits" THEN SlotProblem(v, l, key)
            ELSE IF LimitsOutOfOrder(v, [k \in Fields(v) |-> Slot(l, k).tok]) THEN "limits" ELSE "none"
        order == CheckOrder(v)
        first == SelectInSeq(order, LAMBDA key : wrong(key) # "none")
    IN IF first = 0 THEN <<>> ELSE <<wrong(order[first]), order[first]>>

\* The fields of an accepted request; an empty label is no label.
ReadValues(v, l) ==
    [key \in Fields(v) |->
        LET t == Slot(l, key).tok
        IN IF key \in LabelKeys /\ t.kind = "empty" THEN Tok("absent", 0) ELSE t]

\* new URL, checkStructure and tradeStructure. The URL parser drops spaces and control
\* characters around the text and line breaks and tabs anywhere in it, lowers the scheme,
\* resolves a path of one dot, and knows no difference between an empty user or port and none.
\* Which of the problems is named first is left out.
WellStructured(h) ==
    /\ h.around # "nbsp"
    /\ h.scheme # "other" /\ h.user # "some" /\ h.port # "some"
    /\ h.host # "other" /\ h.path # "more"

\* The structure, then the fields.
Parse(v, l) ==
    LET problem == IF WellStructured(l.head) THEN FirstProblem(v, l) ELSE <<"structure">>
    IN IF problem = <<>> THEN [ok |-> TRUE, value |-> ReadValues(v, l), problem |-> <<>>]
       ELSE [ok |-> FALSE, value |-> <<>>, problem |-> problem]

\* parseRuleRequest and parseTradeRuleRequest: each reads its own version.
ParseRuleRequest(l) == Parse(1, l)
ParseTradeRuleRequest(l) == Parse(2, l)

\* isRuleRequestUrl of the phone: one pattern over the text, spaces around it and a hash cut
\* off, letters of either case. Whatever the pattern does not name is refused.
IsRuleRequestUrl(h) ==
    /\ h.around # "control" /\ ~ h.broken
    /\ h.scheme # "other" /\ h.host # "other"
    /\ h.user = "none" /\ h.port = "none" /\ h.path \in {"none", "slash"}

\* parseRuleRequest and requestFromPairs of the phone: one value that does not decode spoils
\* the whole link, then repeats, then empty fields, then each value.
AppAccepts(l) ==
    LET slot(key) == Slot(l, key)
    IN /\ IsRuleRequestUrl(l.head)
       /\ \A i \in DOMAIN l.parts :
            l.parts[i].key \in QueryKeys(1) => l.parts[i].tok.kind # "undecodable"
       /\ \A key \in QueryKeys(1) : slot(key).count <= 1
       /\ \A key \in QueryKeys(1) \ LabelKeys :
            slot(key).count = 1 /\ (key # "purpose" => slot(key).tok.kind # "empty")
       /\ slot("v").tok = Tok("digits", 1)
       /\ \A key \in {"agent", "payee", "mint"} : Canonical(slot(key).tok)
       /\ \A key \in {"cap", "max"} :
            slot(key).tok.kind = "digits" /\ slot(key).tok.n \in 1 .. U64_MAX
       /\ slot("max").tok.n <= slot("cap").tok.n
       /\ Days(slot("days").tok)
       /\ slot("purpose").tok.kind # "lone"
       /\ (slot("purpose").tok.kind = "text" => slot("purpose").tok.n <= PURPOSE_MAX)
       /\ \A key \in {"agentLabel", "payeeLabel"} :
            slot(key).tok.kind # "lone" /\ (slot(key).tok.kind = "text" => slot(key).tok.n <= LABEL_MAX)

-----------------------------------------------------------------------------
(* A link on its way                                                       *)

\* createRuleRequest or createTradeRuleRequest did not throw.
LinkInit ==
    /\ draft \in Drafts /\ InputProblem(draft) = <<>>
    /\ link = [head |-> PlainHead, parts |-> Formatted(draft)]
    /\ edits = 0

Edit(l) == edits < MaxEdits /\ link' = l /\ edits' = edits + 1 /\ UNCHANGED draft

Lose(i) == Edit([link EXCEPT !.parts = RemoveAt(@, i)])

Repeat(i, tok) ==
    Edit([link EXCEPT !.parts = Append(@, [key |-> link.parts[i].key, tok |-> tok])])

Replace(i, tok) == Edit([link EXCEPT !.parts[i].tok = tok])

Rename(i, key) == Edit([link EXCEPT !.parts[i].key = key])

\* One thing about the head is changed.
Reform(what, form) == form # link.head[what] /\ Edit([link EXCEPT !.head[what] = form])

LinkNext ==
    \/ \E i \in DOMAIN link.parts :
        \/ Lose(i)
        \/ \E tok \in Tokens : Repeat(i, tok) \/ Replace(i, tok)
        \/ \E key \in {"max", "daily", "unknown"} : Rename(i, key)
    \/ \E what \in DOMAIN Heads : \E form \in Heads[what] : Reform(what, form)

LinkSpec == LinkInit /\ [][LinkNext]_linkVars

-----------------------------------------------------------------------------
(* Properties                                                              *)

\* A link as it was built reads back as what the operator asked for, under its own version
\* and no other.
ReadsBackAsAsked ==
    edits = 0 =>
        /\ Parse(draft.v, link).ok
        /\ Parse(draft.v, link).value =
            [key \in Fields(draft.v) |->
                IF key \in LabelKeys /\ draft.field[key].kind = "empty" THEN Tok("absent", 0)
                ELSE draft.field[key]]
        /\ Parse(3 - draft.v, link).problem = <<"bad", "v">>

\* What the URL parser of the SDK lets pass and the pattern of the phone does not.
UrlParserOnly(h) ==
    \/ h.around = "control" \/ h.broken
    \/ h.user = "empty" \/ h.port = "empty" \/ h.path = "dot"

\* The phone and the SDK each parse the link with code of their own: they accept the same
\* links, whatever was lost, repeated, replaced or rewritten on the way, but for the heads
\* that only the URL parser takes and for a no-break space, which only the phone cuts off.
ParsersAgree ==
    /\ AppAccepts(link) /\ link.head.around # "nbsp" => ParseRuleRequest(link).ok
    /\ ParseRuleRequest(link).ok /\ ~ UrlParserOnly(link.head) => AppAccepts(link)

\* What a request must satisfy to be shown for approval, said without any order of checks.
Sound(v, value) ==
    /\ \A key \in Fields(v) \cap AddressKeys : value[key].kind = "key"
    /\ \A key \in Fields(v) \cap AmountKeys : value[key].n \in 1 .. U64_MAX
    /\ v = 1 => value["max"].n <= value["cap"].n
    /\ v = 2 => value["perTrade"].n <= value["daily"].n /\ value["daily"].n <= value["cap"].n
    /\ value["days"].n \in 1 .. DAYS_MAX

\* Every accepted link is one operator's sound request: each key of it comes once, and nothing
\* in it is out of bounds. No link is accepted under both versions.
AcceptedIsSound ==
    /\ \A v \in {1, 2} : Parse(v, link).ok =>
        /\ Sound(v, Parse(v, link).value)
        /\ \A key \in QueryKeys(v) :
            Cardinality({i \in DOMAIN link.parts : link.parts[i].key = key}) <= 1
    /\ ~ (ParseRuleRequest(link).ok /\ ParseTradeRuleRequest(link).ok)

=============================================================================
