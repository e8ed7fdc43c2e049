----------------------------- MODULE NadimReply -----------------------------
(***************************************************************************)
(* What one turn of Nadim tells the customer against what it has done:     *)
(* tools are consulted, proposed actions are authorised and executed one   *)
(* after the other (nadim-v2/brain/action-policy.service.ts), and the      *)
(* reply is composed from their results by templates, or by a model whose  *)
(* words are checked first (response-composer.service.ts,                  *)
(* personality/response-style.service.ts).  A reply is the set of things   *)
(* it claims; its wording, style and language are left out.                *)
(***************************************************************************)
EXTENDS Integers, Sequences, FiniteSets

CONSTANTS Offered,        \* the kinds of action the brain proposes
          MaxProposals,   \* bound on the actions of a turn
          Nil

ASSUME ReplyAssumption ==
  MaxProposals \in Nat /\ Nil \notin {"failed", "empty", "found", "measured", "unlinked"}

VARIABLES ask,        \* what the turn starts from
          found,      \* what each tool returned
          proposals,  \* the actions to execute
          executed,   \* their results
          done,       \* what has really been done, told or not
          answer,     \* the reply
          at          \* where the turn is

replyVars == <<ask, found, proposals, executed, done, answer, at>>

LeadActions == {"CREATE_LEAD", "REQUEST_CALLBACK", "CREATE_VIEWING_REQUEST", "CREATE_RESERVATION_REQUEST"}
ProductActions == {"SAVE_PROPERTY_REQUIREMENT", "CREATE_FOLLOWUP", "CREATE_CONVERSATION_SHARE_LINK",
                   "CREATE_WHATSAPP_HANDOFF_LINK", "REVOKE_SHARE_LINK"}
Controls == {"HUMAN_HANDOFF", "RETURN_TO_AI", "REQUEST_CONVERSATION_DELETION", "CONFIRM_CONVERSATION_DELETION"}
Links == {"CREATE_CONVERSATION_SHARE_LINK", "CREATE_WHATSAPP_HANDOFF_LINK"}
Statuses == {"SUCCEEDED", "FAILED", "NOT_EXECUTED"}

\* The tool that answers a question, the questions there are, and a reservation that has all its
\* fields.
ToolOf == [PROPERTY_SEARCH |-> "PROPERTY_SEARCH", COMPARISON |-> "COMPARE_PROPERTIES", MEDIA_REQUEST |-> "GET_MEDIA",
           PAYMENT_PLAN_QUESTION |-> "GET_PAYMENT_PLAN", PRICE_QUESTION |-> "GET_UNIT_FACTS",
           LOCATION_QUESTION |-> "GET_LOCATION", RESERVATION |-> "GET_PAYMENT_PLAN"]
Questions == DOMAIN ToolOf
ReplyTools == {ToolOf[q] : q \in Questions}
\* Units may have verified distances to compare, and media records no address to show.
Outcomes(tool) ==
  {"failed", "empty", "found"} \cup (CASE tool = "COMPARE_PROPERTIES" -> {"measured"}
                                     [] tool = "GET_MEDIA" -> {"unlinked"}
                                     [] OTHER -> {})

Results == {executed[n] : n \in DOMAIN executed}
Succeeded == {a.type : a \in {b \in Results : b.status = "SUCCEEDED"}}
Ok(tool) == found[tool] \notin {Nil, "failed"}
Full(tool) == found[tool] \in {"found", "measured"}

-----------------------------------------------------------------------------
(* Control, tools and actions *)

\* A control action stands alone; a return to the AI and a confirmation may have nothing to act on.
Control(c) ==
  /\ at = "control" /\ ~ask.unclear
  /\ \E status \in IF c \in {"RETURN_TO_AI", "CONFIRM_CONVERSATION_DELETION"} THEN {"SUCCEEDED", "NOT_EXECUTED"}
                   ELSE {"SUCCEEDED"} :
       /\ executed' = <<[type |-> c, status |-> status]>>
       /\ done' = IF status = "SUCCEEDED" THEN done \cup {c} ELSE done
  /\ at' = "compose"
  /\ UNCHANGED <<ask, found, proposals, answer>>

\* The customer's brief is saved before it is searched for.
KeepBrief ==
  /\ at = "control" /\ ask.intent = "PROPERTY_SEARCH" /\ "SAVE_PROPERTY_REQUIREMENT" \notin done
  /\ done' = done \cup {"SAVE_PROPERTY_REQUIREMENT"}
  /\ UNCHANGED <<ask, found, proposals, executed, answer, at>>

\* A question that waits for a clarification consults nothing.  One tool is consulted: what a
\* model asks for besides is left out.
Consult ==
  /\ at = "control"
  /\ IF ask.unclear \/ ask.intent \notin Questions THEN UNCHANGED found
     ELSE \E o \in Outcomes(ToolOf[ask.intent]) : found' = [found EXCEPT ![ToolOf[ask.intent]] = o]
  /\ at' = "propose"
  /\ UNCHANGED <<ask, proposals, executed, done, answer>>

\* What the brain proposes; a brief that was saved is not saved again, and a reservation is
\* only asked for with the verified plans of its unit.
ProposeActions(ps) ==
  /\ at = "propose"
  /\ \A n \in DOMAIN ps :
       /\ ps[n] = "SAVE_PROPERTY_REQUIREMENT" => ps[n] \notin done
       /\ ps[n] = "CREATE_RESERVATION_REQUEST" => n = Len(ps) /\ Full("GET_PAYMENT_PLAN")
  /\ proposals' = ps
  /\ at' = "act"
  /\ UNCHANGED <<ask, found, executed, done, answer>>

\* What may come of an action: its status, and whether it was done.  A request without its unit,
\* time or contact is not executed.  The automation service may do what its client gave up on; a
\* link without an address to show is revoked again, unless that fails too; whatever else fails
\* has done nothing.
Comes(type) ==
  LET status(s, d) == [status |-> s, did |-> d] IN
  IF type \notin LeadActions \cup ProductActions THEN {status("NOT_EXECUTED", FALSE)}
  ELSE {status("SUCCEEDED", TRUE), status("FAILED", FALSE), status("NOT_EXECUTED", FALSE)}
       \cup IF type \in LeadActions \cup {"CREATE_CONVERSATION_SHARE_LINK"} THEN {status("FAILED", TRUE)} ELSE {}

Execute ==
  /\ at = "act" /\ Len(executed) < Len(proposals)
  /\ LET type == proposals[Len(executed) + 1] IN
     \E o \in Comes(type) :
       /\ executed' = Append(executed, [type |-> type, status |-> o.status])
       /\ done' = IF o.did THEN done \cup {type} ELSE done
  /\ UNCHANGED <<ask, found, proposals, answer, at>>

-----------------------------------------------------------------------------
(* Templates *)

\* Mutant: the status of an action is not looked at.
ToldAnyway(a) == {a.type}

\* What the template of a result claims.  A revoked link is answered with the sentence of a
\* contact request, the last one of the list.
Told(a) ==
  IF a.status # "SUCCEEDED" \/ a.type = "REQUEST_CONVERSATION_DELETION" THEN {}
  ELSE IF a.type \in {"HUMAN_HANDOFF", "RETURN_TO_AI", "CONFIRM_CONVERSATION_DELETION", "CREATE_FOLLOWUP",
                      "SAVE_PROPERTY_REQUIREMENT", "CREATE_VIEWING_REQUEST", "CREATE_RESERVATION_REQUEST"} \cup Links
  THEN {a.type}
  ELSE {"REQUEST_CALLBACK"}

SearchTold == CASE found["PROPERTY_SEARCH"] = "found" -> {"results"}
                [] found["PROPERTY_SEARCH"] = "empty" -> {"no match"}
                [] OTHER -> {}
ComparisonTold == IF Full("COMPARE_PROPERTIES") /\ (ask.near => found["COMPARE_PROPERTIES"] = "measured")
                  THEN {"comparison"} ELSE {}
MediaTold == IF Full("GET_MEDIA") THEN {"media"} ELSE {}
PlansTold == IF Full("GET_PAYMENT_PLAN") THEN {"plans"} ELSE {}
PriceTold == IF Full("GET_UNIT_FACTS") THEN {"price"} ELSE {}
LocationTold == IF Full("GET_LOCATION") THEN {"location"} ELSE {}
\* A question about the search so far: its value when there is one.
SearchSoFar == IF ask.known THEN {"the search"} ELSE {"nothing set"}

\* The reply without a model: a clarification, else the actions, else the answer.
Deterministic ==
  IF ask.unclear THEN {}
  ELSE IF executed # <<>> THEN UNION {Told(a) : a \in Results}
  ELSE CASE ask.intent = "PROPERTY_SEARCH" -> SearchTold
         [] ask.intent = "COMPARISON" -> ComparisonTold
         [] ask.intent = "MEDIA_REQUEST" -> MediaTold
         [] ask.intent = "PAYMENT_PLAN_QUESTION" -> PlansTold
         [] ask.intent = "PRICE_QUESTION" -> PriceTold
         [] ask.intent = "LOCATION_QUESTION" -> LocationTold
         [] ask.intent = "CURRENT_SEARCH_QUERY" -> SearchSoFar
         [] ask.intent = "ASSISTANT_NATURE" -> {"an assistant"}
         [] OTHER -> {}

\* The web shows results as cards under short sentences: photos are announced without a look at
\* how many there are.
Presentable ==
  /\ ask.web /\ ~ask.near
  /\ \/ Full("PROPERTY_SEARCH") \/ Full("COMPARE_PROPERTIES") \/ Ok("GET_MEDIA") \/ Full("GET_PAYMENT_PLAN")
     \/ Succeeded \cap Links # {}
Structured ==
  (IF Full("PROPERTY_SEARCH") THEN {"results"} ELSE {})
  \cup (IF Full("COMPARE_PROPERTIES") THEN {"comparison"} ELSE {})
  \cup (IF Ok("GET_MEDIA") THEN {"media"} ELSE {})
  \cup (IF Full("GET_PAYMENT_PLAN") THEN {"plans"} ELSE {})
  \cup UNION {Told(a) : a \in Results}

-----------------------------------------------------------------------------
(* The model's words *)

FactClaims == {"results", "comparison", "media", "plans", "price", "location", "the search", "nothing set"}
\* What the model may say of actions: "saved" is any other sentence that something was recorded.
ActionClaims == {"HUMAN_HANDOFF", "CONFIRM_CONVERSATION_DELETION", "booked", "CREATE_FOLLOWUP", "told staff", "saved"}
ModelClaims == FactClaims \cup ActionClaims \cup {"no match", "reason", "closer", "sending", "a human", "an assistant"}
\* What a reply must say may come with another claim.
Drafts == {{}} \cup UNION {{{c, d} : d \in {c, "no match", "the search", "nothing set", "an assistant"}} : c \in ModelClaims}

SafeActionClaims(draft) ==
  /\ "CONFIRM_CONVERSATION_DELETION" \in draft => "CONFIRM_CONVERSATION_DELETION" \in Succeeded
  /\ {"HUMAN_HANDOFF", "told staff"} \cap draft # {} => "HUMAN_HANDOFF" \in Succeeded
  /\ "booked" \in draft => {"CREATE_VIEWING_REQUEST", "CREATE_RESERVATION_REQUEST"} \cap Succeeded # {}
  /\ "CREATE_FOLLOWUP" \in draft => "CREATE_FOLLOWUP" \in Succeeded
  /\ "saved" \in draft => Succeeded # {}
SafeDeliveryAndProximityClaims(draft) ==
  "sending" \notin draft /\ ("closer" \in draft => found["COMPARE_PROPERTIES"] = "measured")
SafeInventoryClaims(draft) == "no match" \in draft => found["PROPERTY_SEARCH"] = "empty"
SafeNoMatchComposition(draft) == "no match" \in draft /\ {"reason", "price", "results"} \cap draft = {}
SafeHumanIdentity(draft) == "a human" \notin draft
SafeAssistantSemantics(draft) == ask.intent = "ASSISTANT_NATURE" => "an assistant" \in draft
SafeStateQuery(draft) == ask.intent = "CURRENT_SEARCH_QUERY" => SearchSoFar \subseteq draft

Safe(draft) ==
  /\ SafeHumanIdentity(draft) /\ SafeAssistantSemantics(draft) /\ SafeStateQuery(draft)
  /\ SafeActionClaims(draft) /\ SafeDeliveryAndProximityClaims(draft) /\ SafeInventoryClaims(draft)
  /\ ask.intent = "PROPERTY_SEARCH" /\ found["PROPERTY_SEARCH"] = "empty" => SafeNoMatchComposition(draft)

Composing == at = "compose" \/ (at = "act" /\ Len(executed) = Len(proposals))
Answered(from, says) ==
  /\ answer' = [from |-> from, says |-> says] /\ at' = "answered"
  /\ UNCHANGED <<ask, found, proposals, executed, done>>

\* Questions about the customer's saved requirements are answered from them.
RequirementHistory == Composing /\ ask.intent = "REQUIREMENTS" /\ Answered("history", {})
Present == Composing /\ ask.intent # "REQUIREMENTS" /\ Presentable /\ Answered("structured", Structured)
\* No provider, a failed one, or words that were rejected.
FallBack == Composing /\ ask.intent # "REQUIREMENTS" /\ ~Presentable /\ Answered("fallback", Deterministic)
\* A draft may also be turned down for its style or for not saying what it should.
Compose(draft) ==
  /\ Composing /\ ask.intent # "REQUIREMENTS" /\ ~Presentable
  /\ Safe(draft) /\ Answered("model", draft)

-----------------------------------------------------------------------------
Asks == [intent : Questions \cup {"CURRENT_SEARCH_QUERY", "ASSISTANT_NATURE", "REQUIREMENTS", "OTHER"}, web : BOOLEAN,
         near : BOOLEAN, known : BOOLEAN, unclear : BOOLEAN]

\* Proximity is asked about in comparisons, and whether what is asked is known matters for the
\* search so far.
ReplyInit ==
  /\ ask \in {a \in Asks : (a.near => a.intent = "COMPARISON") /\ (a.known => a.intent = "CURRENT_SEARCH_QUERY")}
  /\ found = [t \in ReplyTools |-> Nil] /\ proposals = <<>> /\ executed = <<>> /\ done = {}
  /\ answer = Nil /\ at = "control"

ReplyNext ==
  \/ \E c \in Controls : Control(c)
  \/ KeepBrief
  \/ Consult
  \/ \E n \in 0..MaxProposals : \E ps \in [1..n -> Offered] :
       Cardinality({ps[i] : i \in 1..n}) = n /\ ProposeActions(ps)
  \/ Execute
  \/ RequirementHistory
  \/ Present
  \/ FallBack
  \/ \E draft \in Drafts : Compose(draft)

ReplySpec == ReplyInit /\ [][ReplyNext]_replyVars

-----------------------------------------------------------------------------
ReplyTyped ==
  /\ ask \in Asks /\ \A t \in ReplyTools : found[t] \in Outcomes(t) \cup {Nil}
  /\ proposals \in Seq(Offered) /\ \A a \in Results : a.status \in Statuses
  /\ done \subseteq LeadActions \cup ProductActions \cup Controls
  /\ at \in {"control", "propose", "act", "compose", "answered"}

\* What makes a claim true.
True(c) ==
  CASE c = "booked" -> {"CREATE_VIEWING_REQUEST", "CREATE_RESERVATION_REQUEST"} \cap done # {}
    [] c = "told staff" -> "HUMAN_HANDOFF" \in done
    [] c = "saved" -> done # {}
    [] c = "REQUEST_CALLBACK" -> LeadActions \cap done # {}
    [] c = "results" -> found["PROPERTY_SEARCH"] = "found"
    [] c = "no match" -> found["PROPERTY_SEARCH"] = "empty"
    [] c = "comparison" -> Full("COMPARE_PROPERTIES")
    [] c = "closer" -> found["COMPARE_PROPERTIES"] = "measured"
    [] c = "media" -> Full("GET_MEDIA")
    [] c = "plans" -> Full("GET_PAYMENT_PLAN")
    [] c = "price" -> Full("GET_UNIT_FACTS")
    [] c = "location" -> Full("GET_LOCATION")
    [] c = "the search" -> ask.known
    [] c = "nothing set" -> ~ask.known
    [] c = "an assistant" -> TRUE
    [] c \in {"sending", "a human"} -> FALSE
    [] OTHER -> c \in done

\* A reply claims nothing that was not done or found, however the actions of the turn came out;
\* and who asks what Nadim is, or what it searches for, is told, unless a clarification or the
\* results of actions take the reply.  Not kept: what the model says of facts is not checked,
\* photos are announced that are not there, and a revoked link is told as a contact request.
NothingClaimedUndone ==
  answer # Nil =>
    /\ \A c \in answer.says :
         \/ True(c)
         \/ answer.from = "model" /\ c \in FactClaims \cup {"reason"}
         \/ answer.from = "structured" /\ c = "media" /\ found["GET_MEDIA"] \in {"empty", "unlinked"}
         \/ answer.from \in {"structured", "fallback"} /\ c = "REQUEST_CALLBACK" /\ "REVOKE_SHARE_LINK" \in Succeeded
    /\ answer.from = "model" \/ (executed = <<>> /\ ~ask.unclear) =>
         /\ ask.intent = "ASSISTANT_NATURE" => "an assistant" \in answer.says
         /\ ask.intent = "CURRENT_SEARCH_QUERY" => SearchSoFar \subseteq answer.says
=============================================================================
