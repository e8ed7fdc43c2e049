----------------------------- MODULE MCServices -----------------------------
(***************************************************************************)
(* The services that share no state in the models, side by side: in a      *)
(* behaviour one part runs and the others stay as they start.  Together    *)
(* they are one model of the product; apart they are never interleaved,    *)
(* which would multiply the states and show nothing.                       *)
(***************************************************************************)
EXTENDS ServiceParts

CONSTANTS u1, p1, p2, h1, b1, a1, a2, q1,                    \* catalogue and search
          k1, k2, w1, w2, c1, c2, l1, f1, x1,               \* automation leads
          t1, t2, n1,                                       \* legacy chat
          r1, s1, s2, e1                                    \* answers, web chats

VARIABLE part       \* the part that runs

MC_ProjectOf == [u \in {1, 2} |-> IF u = 1 THEN "p1" ELSE "p2"]

\* Identities in every combination for a new lead; a lead named by itself or with a phone or
\* channel; and requests of a phone or a channel with too little for a lead.
MC_Requests ==
  {r \in [customer : {c1, Empty}, phone : {f1, Empty}, channel : {x1, Empty}, lead : {l1, Empty}, data : BOOLEAN] :
     /\ r.lead # Empty => r.customer = Empty /\ r.data
     /\ ~r.data => r.customer = Empty /\ Cardinality({r.phone, r.channel} \ {Empty}) = 1}

\* What a model makes of a text of two categories.
MC_Readings == {<<"cited", "own">>, <<"empty", "found">>}

MC_Nows == -30..30
\* Clocks are turned forward and back east of Greenwich, and back west of it.
MC_Zones == {[before |-> 2, after |-> 3, change |-> 22], [before |-> 3, after |-> 2, change |-> 21],
             [before |-> -4, after |-> -5, change |-> 30]}
MC_ModelOps == {Unset} \cup [operation : {"REMOVE"}, constraint : {"BUDGET"}]
                      \cup [operation : {"BROADEN", "RESET"}, constraint : {"SEARCH"}]

\* A plan of the designer, the same plan with a discount, one from an imported table, and cash.
MC_Plan(name, months, frequency, every, percent, down, total, discount) ==
  [name |-> name, kind |-> IF name = "cash" THEN "CASH" ELSE "INSTALLMENT", months |-> months,
   frequency |-> frequency, every |-> every, percent |-> percent, down |-> down, total |-> total,
   discount |-> discount, instalment |-> NoTerm, monthly |-> NoTerm]
MC_Terms == {MC_Plan("long", 24, "CUSTOM", 3, 10, NoTerm, NoTerm, 0),
             MC_Plan("long", 24, "CUSTOM", 3, NoTerm, 2400, NoTerm, 10),
             MC_Plan("short", 12, "QUARTERLY", 3, NoTerm, 4800, NoTerm, 0),
             MC_Plan("endless", 360, "CUSTOM", 3, NoTerm, 3600, 14400, 0),
             MC_Plan("cash", 0, NoTerm, 1, 100, NoTerm, 8400, 0)}
MC_Wishes == [down : {2400}, monthly : {NoTerm, 450}, months : {NoTerm, 12}, percent : {NoTerm}]
             \cup {[down |-> NoTerm, monthly |-> 450, months |-> NoTerm, percent |-> 10]}

\* Where no reminder, no change of constraints and no answer is asked for.
MC_NoReminder == [zone |-> CHOOSE z \in Zones : TRUE, now |-> 0,
                  says |-> [kind |-> "RELATIVE", amount |-> 0, unit |-> "DAY"], due |-> Unsaid]
MC_NoAsk == [intent |-> "OTHER", web |-> FALSE, near |-> FALSE, known |-> FALSE, unclear |-> FALSE]
MC_NoChange == [previous |-> [c \in Constraints |-> Unset], extracted |-> {}, words |-> Silent, op |-> Unset,
                says |-> {}, widens |-> FALSE, next |-> Unset]

smallV == <<reminder, change>>

\* The parts in three groups, by what their models touch.
turnsV == <<dvars, thought, replyVars, smallV, fxVars>>
stockV == <<searchVars, placeVars, contentVars, offerVars, knowledgeVars>>
talksV == <<leadVars, chatVars, answerVars, webVars>>
servicesVars == <<turnsV, stockV, talksV, part>>

Parts == {"dialogue", "search", "placement", "leads", "chat", "answers", "understanding", "web",
          "content", "reply", "fx", "times", "constraints", "offers", "knowledge"}

\* A part that does not run stays in one of its initial states.
ServicesInit ==
  /\ part \in Parts
  /\ Init /\ ThoughtInit /\ FxInit /\ PlacementInit /\ LeadsInit /\ SearchInit /\ ChatInit
  /\ part # "chat" => talk = NewTalk
  /\ IF part = "reply" THEN ask \in Asks ELSE ask = MC_NoAsk
  /\ ReplyInit
  /\ AnswerInit
  /\ part # "answers" => openAIEnabled = FALSE
  /\ IF part = "web" THEN WebInit
     ELSE /\ server = [c \in Chats |-> [is |-> "unused", messages |-> <<>>, mode |-> "AI"]]
          /\ tab = Opened(<<>>, Void) /\ sent = [e \in Events |-> NotSent]
  /\ ContentInit /\ KnowledgeInit
  /\ IF part = "times" THEN TimesInit
     ELSE /\ reminder = MC_NoReminder
  /\ IF part = "constraints" THEN ConstraintsInit
     ELSE /\ change = MC_NoChange
  /\ IF part = "offers" THEN OffersInit
     ELSE /\ offered = [l \in {Levels[i] : i \in DOMAIN Levels} |-> NoTerm]
          /\ price = CHOOSE p \in UnitPrices : TRUE
          /\ asker = NotAsking /\ changes = 0

ServicesNext ==
  /\ UNCHANGED part
  /\ \/ /\ part = "dialogue" /\ Next
        /\ UNCHANGED <<thought, replyVars, smallV, fxVars, stockV, talksV>>
     \/ /\ part = "understanding" /\ ThoughtNext
        /\ UNCHANGED <<dvars, replyVars, smallV, fxVars, stockV, talksV>>
     \/ /\ part = "reply" /\ ReplyNext
        /\ UNCHANGED <<dvars, thought, smallV, fxVars, stockV, talksV>>
     \/ /\ part = "times" /\ TimesNext
        /\ UNCHANGED <<dvars, thought, replyVars, change, fxVars, stockV, talksV>>
     \/ /\ part = "constraints" /\ ConstraintsNext
        /\ UNCHANGED <<dvars, thought, replyVars, reminder, fxVars, stockV, talksV>>
     \/ /\ part = "fx" /\ FxNext
        /\ UNCHANGED <<dvars, thought, replyVars, smallV, stockV, talksV>>
     \/ /\ part = "search" /\ SearchNext
        /\ UNCHANGED <<placeVars, contentVars, offerVars, knowledgeVars, turnsV, talksV>>
     \/ /\ part = "placement" /\ PlacementNext
        /\ UNCHANGED <<searchVars, contentVars, offerVars, knowledgeVars, turnsV, talksV>>
     \/ /\ part = "content" /\ ContentNext
        /\ UNCHANGED <<searchVars, placeVars, offerVars, knowledgeVars, turnsV, talksV>>
     \/ /\ part = "offers" /\ OffersNext
        /\ UNCHANGED <<searchVars, placeVars, contentVars, knowledgeVars, turnsV, talksV>>
     \/ /\ part = "knowledge" /\ KnowledgeNext
        /\ UNCHANGED <<searchVars, placeVars, contentVars, offerVars, turnsV, talksV>>
     \/ /\ part = "leads" /\ LeadsNext
        /\ UNCHANGED <<chatVars, answerVars, webVars, turnsV, stockV>>
     \/ /\ part = "chat" /\ ChatNext
        /\ UNCHANGED <<leadVars, answerVars, webVars, turnsV, stockV>>
     \/ /\ part = "answers" /\ AnswerNext
        /\ UNCHANGED <<leadVars, chatVars, webVars, turnsV, stockV>>
     \/ /\ part = "web" /\ WebNext
        /\ UNCHANGED <<leadVars, chatVars, answerVars, turnsV, stockV>>

ServicesSpec == ServicesInit /\ [][ServicesNext]_servicesVars /\ Fairness
=============================================================================
