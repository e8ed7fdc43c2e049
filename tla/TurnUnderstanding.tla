--------------------------- MODULE TurnUnderstanding --------------------------
(***************************************************************************)
(* How a message to Nadim becomes operations, tool calls and actions: the  *)
(* dialogue providers are asked in order (dialogue-model.service.ts), the  *)
(* decision of the first that answers with valid JSON is merged with what  *)
(* the message says explicitly (understanding.service.ts), or an outage    *)
(* leaves that alone; tools then run in a bounded loop with at most one    *)
(* more question to the model (tool-loop.service.ts), and the policy       *)
(* proposes actions (action-policy.service.ts).                            *)
(*                                                                         *)
(* Abstraction: a message is what explicitUnderstanding finds in it, a     *)
(* decision what its schema allows; the search has an amount and a place;  *)
(* wording, languages, references and latencies are left out.  The older   *)
(* understand() path is not modelled: the wired service always decides.    *)
(***************************************************************************)
EXTENDS Lists, FiniteSets, SequencesExt

CONSTANTS Budgets, Areas,
          SearchCall, MediaCall,   \* tool calls: a tool with its arguments
          Nothing

Calls == {SearchCall, MediaCall}

VARIABLES thought         \* the turn: how far it is, and what it has understood

MaxIterations == 4

-----------------------------------------------------------------------------
(* Operations *)

SetTo(f, v) == [op |-> "SET", field |-> f, value |-> v]
ResetSearch == [op |-> "RESET", field |-> "SEARCH", value |-> Nothing]
Sets == {SetTo("amount", a) : a \in Budgets} \cup {SetTo("place", p) : p \in Areas}

EmptySearch == [amount |-> Nothing, place |-> Nothing]
ApplyOne(search, o) == IF o.op = "RESET" THEN EmptySearch ELSE [search EXCEPT ![o.field] = o.value]

\* Intents whose turns leave the search alone.
PassiveIntents == {"SMALL_TALK", "UNKNOWN"}
ApplyAll(search, intent, ops) ==
  LET after[k \in 0..Len(ops)] == IF k = 0 THEN search ELSE ApplyOne(after[k - 1], ops[k])
  IN IF intent \in PassiveIntents THEN search ELSE after[Len(ops)]

-----------------------------------------------------------------------------
(* What the message says explicitly: explicitUnderstanding *)

\* Amounts, places and a fresh start that the words name; a fresh start comes first.
ExplicitOperations == {<<>>, <<ResetSearch>>} \cup {<<o>> : o \in Sets} \cup {<<ResetSearch, o>> : o \in Sets}

\* Words of search make it a search unless others mark it as something else.  action is a
\* follow-up the customer asked for; natural: looksLikeNaturalConversation,
\* read only of a message without intent or action.
Explicit ==
  {e \in [intent : {"UNKNOWN", "SMALL_TALK", "MODIFY_SEARCH", "MEDIA_REQUEST"},
          ops : ExplicitOperations, action : BOOLEAN, natural : BOOLEAN] :
     /\ e.intent = "UNKNOWN" => e.ops = <<>>
     /\ e.natural => e.intent = "UNKNOWN" /\ ~e.action}

\* 0.9 with an intent, 0.35 without.
Confident(e) == e.intent # "UNKNOWN"

\* semanticFallback: without a model an unclear but natural message is conversation.
SemanticFallback(e) ==
  [intent |-> IF e.intent = "UNKNOWN" /\ ~e.action /\ e.natural THEN "CONVERSATION" ELSE e.intent,
   ops |-> e.ops, actions |-> e.action, requested |-> e.action, sure |-> Confident(e),
   calls |-> Nothing, asks |-> FALSE]

-----------------------------------------------------------------------------
(* What the model decides: NadimBrainDecisionSchema *)

\* confidence is "low" below 0.72, "fair" below 0.75, else "high"; structured stands for
\* the conversational types DISCOVERY and STRUCTURED_REQUEST; asks: a clarifying question,
\* or a question about the state (with or without one).  What the merge does not read is
\* listed once: the type of a decision without understanding or confidence, its intent, and
\* the operations beside a question about the state.
Decisions ==
  {d \in [understood : BOOLEAN, confidence : {"low", "fair", "high"}, structured : BOOLEAN,
          intent : {Nothing, "SMALL_TALK", "MODIFY_SEARCH"},
          ops : {<<>>, <<ResetSearch>>} \cup {<<o>> : o \in Sets} \cup {<<o, ResetSearch>> : o \in Sets},
          asks : {"nothing", "clarification", "state"},
          calls : {<<>>} \cup {<<c>> : c \in Calls}, actions : BOOLEAN] :
     /\ d.structured => d.understood /\ d.confidence # "low"
     /\ ~d.understood => d.intent = Nothing
     /\ d.asks = "state" => d.ops = <<>>}

Allowed(d) == d.understood /\ d.confidence # "low" /\ d.structured

Additions(e, d) == Filtered(e.ops, Range(e.ops) \ Range(d.ops))
Others(e, d) ==
  LET fields == {Additions(e, d)[i].field : i \in DOMAIN Additions(e, d)}
  IN IF Allowed(d) THEN Filtered(d.ops, {o \in Range(d.ops) : o.field \notin fields}) ELSE <<>>

\* The operations of a turn, as they would be if the model had the last word.
MergedModelLast(e, d) == IF d.asks = "state" THEN <<>> ELSE Additions(e, d) \o (IF Allowed(d) THEN d.ops ELSE <<>>)

\* Explicit operations come last; one the model repeats is left to the model.
Merged(e, d) == IF d.asks = "state" THEN <<>> ELSE Others(e, d) \o Additions(e, d)

ExplicitWins == {"MODIFY_SEARCH", "MEDIA_REQUEST"}
MergedIntent(e, d) ==
  IF e.intent \in ExplicitWins THEN e.intent
  ELSE IF ~d.understood THEN "UNKNOWN"
  ELSE IF d.intent # Nothing THEN d.intent ELSE "CONVERSATION"

\* A request for media is answered with media only.
Proposed(e, d) == IF e.intent = "MEDIA_REQUEST" THEN Filtered(d.calls, {MediaCall}) ELSE d.calls

\* calls Nothing: the planner goes by the intent.
Combined(e, d) ==
  [intent |-> MergedIntent(e, d), ops |-> Merged(e, d), actions |-> d.actions \/ e.action,
   requested |-> e.action, sure |-> d.confidence = "high", asks |-> d.asks = "state",
   calls |-> IF Proposed(e, d) = <<>> /\ MergedIntent(e, d) = "MODIFY_SEARCH" THEN Nothing
             ELSE IF d.asks # "nothing" THEN <<>> ELSE Proposed(e, d)]

-----------------------------------------------------------------------------
(* Turns *)

\* PlannerService.plan: by the proposed calls, or else by the intent.  The search call stands
\* for the search of the state; media need a unit that was selected or named.
Plans(u) == IF u.calls # Nothing THEN {u.calls}
            ELSE CASE u.intent = "MODIFY_SEARCH" -> {<<SearchCall>>}
                   [] u.intent = "MEDIA_REQUEST" -> {<<>>, <<MediaCall>>}
                   [] OTHER -> {<<>>}

\* A turn that understood u: the state engine has run and the tools are next.
ToTools(t, u, plan, decided, agreed) ==
  [at |-> "tools", explicit |-> t.explicit.ops, search |-> ApplyAll(t.search, u.intent, u.ops),
   intent |-> u.intent, queue |-> plan, planned |-> Len(plan), executed |-> {}, iterations |-> 0,
   chain |-> t.chain, left |-> <<>>, decided |-> decided, continued |-> FALSE, excused |-> u.asks \/ agreed,
   actions |-> u.actions, requested |-> u.requested, sure |-> u.sure]

Searches == {EmptySearch, [EmptySearch EXCEPT !.amount = CHOOSE a \in Budgets : TRUE]}

\* providers(): those enabled and configured.
Chains == {<<>>, <<"bedrock-glm", "groq">>}

Receive ==
  /\ thought.at = "idle"
  /\ \E chain \in Chains, e \in Explicit, search \in Searches :
       thought' = [at |-> "decide", explicit |-> e, search |-> search, chain |-> chain, left |-> chain]

Decide ==
  /\ thought.at = "decide" /\ thought.left # <<>>
  /\ \E d \in Decisions : \E plan \in Plans(Combined(thought.explicit, d)) :
       thought' = ToTools(thought, Combined(thought.explicit, d), plan, TRUE,
                          \E i \in DOMAIN thought.explicit.ops : Contains(d.ops, thought.explicit.ops[i]))

\* A provider fails or its text does not fit the schema: the next one is asked.
NextProvider ==
  /\ thought.at \in {"decide", "continue"} /\ thought.left # <<>>
  /\ thought' = [thought EXCEPT !.left = Tail(@)]

Outage ==
  /\ thought.at = "decide" /\ thought.left = <<>>
  /\ \E plan \in Plans(SemanticFallback(thought.explicit)) :
       thought' = ToTools(thought, SemanticFallback(thought.explicit), plan, FALSE, FALSE)

\* One round of ToolLoopService.run: a call that was executed before is skipped; after
\* the only call of a plan the model may be asked once more.
RunTool ==
  LET call == Head(thought.queue)
      again == call \in thought.executed
      asks == /\ ~again /\ thought.decided /\ thought.chain # <<>> /\ ~thought.continued
              /\ thought.planned <= 1 /\ thought.iterations + 1 < MaxIterations
  IN
  /\ thought.at = "tools" /\ thought.queue # <<>> /\ thought.iterations < MaxIterations
  /\ thought' = [thought EXCEPT !.queue = Tail(@), !.executed = @ \cup {call},
                                !.iterations = IF again THEN @ ELSE @ + 1,
                                !.at = IF asks THEN "continue" ELSE @,
                                !.continued = @ \/ asks,
                                !.left = IF asks THEN thought.chain ELSE <<>>]

Continuations == {<<>>} \cup {<<c, d>> : c \in Calls, d \in Calls}

\* The continuation may add calls and actions.
Continue ==
  /\ thought.at = "continue" /\ thought.left # <<>>
  /\ \E calls \in Continuations, actions \in BOOLEAN :
       thought' = [thought EXCEPT !.at = "tools", !.left = <<>>, !.actions = @ \/ actions,
                                  !.queue = @ \o Filtered(calls, Calls \ thought.executed)]

ContinuationFails ==
  /\ thought.at = "continue" /\ thought.left = <<>>
  /\ thought' = [thought EXCEPT !.at = "tools"]

\* ActionPolicyService.propose: proposed actions need confidence; without it the request
\* counts only for intents that name an action.
Propose ==
  /\ thought.at = "tools" /\ (thought.queue = <<>> \/ thought.iterations = MaxIterations)
  /\ thought' = [thought EXCEPT !.at = "acted", !.actions = @ /\ thought.sure]

Answer == /\ thought.at = "acted"
          /\ thought' = [at |-> "idle"]

ThoughtInit == thought = [at |-> "idle"]

ThoughtNext == Receive \/ Decide \/ NextProvider \/ Outage \/ RunTool
               \/ Continue \/ ContinuationFails \/ Propose \/ Answer

ThoughtSpec == ThoughtInit /\ [][ThoughtNext]_thought
-----------------------------------------------------------------------------
(* Properties *)

\* A turn runs each call once and at most four, whatever plan and continuation propose.
ThoughtTyped ==
  thought.at \in {"tools", "continue", "acted"} =>
    /\ thought.iterations = Cardinality(thought.executed)
    /\ thought.iterations <= MaxIterations
    /\ thought.continued => thought.decided /\ thought.executed # {}

\* What the customer said in so many words is what the search goes by, whatever the model
\* proposes besides (UnderstandingService, README "supplements explicit constraints").  The
\* code gives way in three cases: a question about the state, a turn taken as small talk,
\* and an explicit operation that the model proposes too, which then stands or falls with
\* the model's other operations and its confidence.
ExplicitStands ==
  thought.at = "tools" /\ ~thought.excused /\ thought.intent \notin PassiveIntents =>
    \A i \in DOMAIN thought.explicit :
      thought.explicit[i].op = "SET" =>
        thought.search[thought.explicit[i].field] = thought.explicit[i].value
=============================================================================
