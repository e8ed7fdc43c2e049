------------------------------- MODULE WebChat -------------------------------
(***************************************************************************)
(* The customer's chat page (chat-app.tsx, chat-state.ts), the adapter     *)
(* that takes a turn to Nadim and then stores it (nadim-server.ts), and    *)
(* the store of the web conversations (web-chat-persistence.service.ts).   *)
(* The page shows lists that several answers replace or extend: the index  *)
(* of conversations, a conversation's history, the polls of a conversation *)
(* a person has taken over, and the turn's own answer.                     *)
(*                                                                         *)
(* Abstraction: a message is what it is and of which event; the page's own *)
(* error notes, titles, languages, closed conversations, sharing, renaming *)
(* and rate windows are left out (a refused turn is one that fails).  Of   *)
(* Nadim's answer the mode, whether a reply is suppressed and whether the  *)
(* conversation was deleted are kept; the link between the two             *)
(* conversations is left out.                                              *)
(***************************************************************************)
EXTENDS Naturals, Sequences, FiniteSets, Functions

CONSTANTS Chats, Events,      \* web conversations; turns, each with its event id
          MaxLoads,           \* history requests and polls in flight
          Void

\* Void is no conversation, message or list of messages.
ASSUME WebAssumption ==
  LET messages == [what : {"asked", "question", "answer", "made up"}, of : Events] IN
  Void \notin Chats \cup messages /\ Void \notin Seq(messages)

VARIABLES server,   \* the store: Chats -> [is, messages, mode]
          tab,      \* the page
          sent      \* Events -> the turn sent with it

webVars == <<server, tab, sent>>

-----------------------------------------------------------------------------
(* Messages *)

\* The question as the page shows it until it is loaded, and as it is stored; the answer as
\* it is stored, and as the adapter makes it up when it cannot store it.
ShownQuestion(e) == [what |-> "asked", of |-> e]
StoredQuestion(e) == [what |-> "question", of |-> e]
StoredAnswer(e) == [what |-> "answer", of |-> e]
MadeUp(e) == [what |-> "made up", of |-> e]

Deleted == [is |-> "deleted", messages |-> <<>>, mode |-> "AI"]
Known(c) == server[c].is = "known"

Holds(list, m) == \E i \in DOMAIN list : list[i] = m
AppendAlways(list, m) == Append(list, m)
AppendUnique(list, m) == IF Holds(list, m) THEN list ELSE Append(list, m)

-----------------------------------------------------------------------------
(* The page *)

Shown(c) == tab.chats[c]
Listed == DOMAIN tab.chats

\* Extend one conversation's list; a conversation the page no longer lists is left out.
WithMessage(chats, c, m) ==
  IF c \in DOMAIN chats THEN [chats EXCEPT ![c].messages = AppendUnique(@, m)] ELSE chats

\* shouldLoadConversationHistory, and as it would be without the exception for new ones.
WantsHistoryAlways(page, c) == c # Void
WantsHistory(page, c) == c # Void /\ c \notin page.skip

\* setActiveId and the effects of it: requests for the conversation left behind no longer
\* count, and the history of the one now shown is asked for.
Activate(page, c) ==
  IF c = page.active THEN page
  ELSE [page EXCEPT !.active = c, !.skip = @ \ {c}, !.stayed = FALSE,
                    !.loads = IF WantsHistory(page, c) THEN {[poll |-> FALSE, items |-> Void]} ELSE {}]

\* A change of the mode of the conversation shown ends the polls of the old mode.
WithMode(page, c, mode) ==
  IF c \notin DOMAIN page.chats THEN page
  ELSE [page EXCEPT !.chats[c].mode = mode,
                    !.loads = IF c = page.active /\ page.chats[c].mode # mode
                              THEN {l \in @ : ~l.poll} ELSE @]

Without(chats, c) == [d \in DOMAIN chats \ {c} |-> chats[d]]

\* mergeConversationIndex
MergedIndex(current, incoming, mine) ==
  [c \in DOMAIN incoming \cup (DOMAIN current \cap mine) |->
     IF c \notin DOMAIN incoming THEN current[c]
     ELSE [mode |-> incoming[c], messages |-> IF c \in DOMAIN current THEN current[c].messages ELSE <<>>]]

\* A page just opened: what an earlier one left in the browser is listed, the index is asked
\* for, and the conversation shown last is shown again once it has come.
Opened(chats, active) ==
  [chats |-> chats, active |-> Void, skip |-> {}, mine |-> {}, loads |-> {},
   index |-> [at |-> "asked", list |-> Void, active |-> active], stayed |-> FALSE]

Hydrated == tab.index.at = "done"
UnderWay(e) == sent[e].at \in {"create", "created", "nadim", "store", "answer"}
Generating == \E e \in Events : sent[e].here /\ UnderWay(e)

NotSent == [at |-> "unused", chat |-> Void, here |-> FALSE, first |-> FALSE, reply |-> Void,
            mode |-> "AI", deleted |-> FALSE, storing |-> FALSE, stored |-> FALSE, gaveUp |-> FALSE]

-----------------------------------------------------------------------------
(* Opening, selecting, loading *)

\* The index is what the store holds when it is read.
IndexRead ==
  /\ tab.index.at = "asked"
  /\ tab' = [tab EXCEPT !.index.at = "read", !.index.list = [c \in {d \in Chats : Known(d)} |-> server[c].mode]]
  /\ UNCHANGED <<server, sent>>

IndexArrives ==
  /\ tab.index.at = "read"
  /\ LET list == tab.index.list
         page == [tab EXCEPT !.chats = MergedIndex(@, list, tab.mine), !.index = [at |-> "done", list |-> Void, active |-> Void]]
     IN tab' = IF tab.index.active \in DOMAIN list THEN Activate(page, tab.index.active) ELSE page
  /\ UNCHANGED <<server, sent>>

IndexFails ==
  /\ ~Hydrated
  /\ tab' = [tab EXCEPT !.index = [at |-> "done", list |-> Void, active |-> Void]]
  /\ UNCHANGED <<server, sent>>

SelectChat(c) ==
  /\ c \in Listed
  /\ tab' = Activate(tab, c)
  /\ UNCHANGED <<server, sent>>

NewChat ==
  /\ tab' = Activate(tab, Void)
  /\ UNCHANGED <<server, sent>>

\* conversations.service.messages: an unknown conversation is an error.
LoadRead(l) ==
  /\ l \in tab.loads /\ l.items = Void /\ Known(tab.active)
  /\ tab' = [tab EXCEPT !.loads = (@ \ {l}) \cup {[l EXCEPT !.items = server[tab.active].messages]}]
  /\ UNCHANGED <<server, sent>>

\* The list is replaced, whatever the page has added since the store was read.
LoadArrives(l) ==
  /\ l \in tab.loads /\ l.items # Void
  /\ tab' = [tab EXCEPT !.loads = @ \ {l},
                        !.chats = IF tab.active \in Listed
                                  THEN [@ EXCEPT ![tab.active].messages = l.items] ELSE @]
  /\ UNCHANGED <<server, sent>>

LoadFails(l) ==
  /\ l \in tab.loads
  /\ tab' = [tab EXCEPT !.loads = @ \ {l}]
  /\ UNCHANGED <<server, sent>>

\* Every three seconds while a person answers.
Poll ==
  /\ tab.active \in Listed /\ Shown(tab.active).mode = "HUMAN" /\ Cardinality(tab.loads) < MaxLoads
  /\ tab' = [tab EXCEPT !.loads = @ \cup {[poll |-> TRUE, items |-> Void]}, !.stayed = FALSE]
  /\ UNCHANGED <<server, sent>>

-----------------------------------------------------------------------------
(* A turn *)

Send(e) ==
  /\ ~Generating /\ sent[e].at = "unused"
  /\ sent' = [sent EXCEPT ![e] = [@ EXCEPT !.at = IF tab.active = Void THEN "create" ELSE "nadim",
                                          !.chat = tab.active, !.here = TRUE, !.first = tab.active = Void]]
  /\ tab' = [tab EXCEPT !.chats = WithMessage(@, tab.active, ShownQuestion(e))]
  /\ UNCHANGED server

\* The first message of a new chat creates the conversation ...
CreateStored(e, c) ==
  /\ sent[e].at = "create" /\ server[c].is = "unused"
  /\ server' = [server EXCEPT ![c].is = "known"]
  /\ sent' = [sent EXCEPT ![e].at = "created", ![e].chat = c]
  /\ UNCHANGED tab

\* ... which is then shown, and its history is not asked for this time.
CreateArrives(e) ==
  LET c == sent[e].chat
      page == [tab EXCEPT !.mine = @ \cup {c}, !.skip = @ \cup {c},
                          !.chats = [d \in {c} \cup Listed |->
                                       IF d = c THEN [mode |-> "AI", messages |-> <<ShownQuestion(e)>>]
                                       ELSE tab.chats[d]]]
  IN
  /\ sent[e].at = "created" /\ sent[e].here
  /\ tab' = [Activate(page, c) EXCEPT !.stayed = tab.active # c]
  /\ sent' = [sent EXCEPT ![e].at = "nadim"]
  /\ UNCHANGED server

\* Nadim answers: a message to a conversation a person keeps is stored without a reply; a
\* confirmed deletion deletes the web conversations too.
NadimAnswers(e, mode, deleted) ==
  LET c == sent[e].chat
      suppressed == mode = "HUMAN" /\ server[c].mode = "HUMAN"
  IN
  /\ sent[e].at = "nadim"
  /\ sent' = [sent EXCEPT ![e].at = IF deleted THEN "answer" ELSE "store", ![e].mode = mode, ![e].deleted = deleted,
                          ![e].reply = IF suppressed \/ deleted THEN Void ELSE StoredAnswer(e), ![e].storing = ~deleted]
  /\ server' = IF ~Known(c) THEN server
               ELSE IF deleted THEN [server EXCEPT ![c] = Deleted]
               ELSE [server EXCEPT ![c].mode = mode]
  /\ UNCHANGED tab

\* WebChatPersistenceService.persist: question and answer in one transaction.
PersistTurn(e) ==
  LET c == sent[e].chat IN
  /\ sent[e].storing
  /\ sent' = [sent EXCEPT ![e].storing = FALSE, ![e].stored = Known(c)]
  /\ server' = IF Known(c)
               THEN [server EXCEPT ![c].messages =
                       @ \o <<StoredQuestion(e)>> \o (IF sent[e].reply = Void THEN <<>> ELSE <<StoredAnswer(e)>>)]
               ELSE server
  /\ UNCHANGED tab

AdapterReturns(e) ==
  /\ sent[e].at = "store" /\ sent[e].stored
  /\ sent' = [sent EXCEPT ![e].at = "answer"]
  /\ UNCHANGED <<server, tab>>

\* An error, or 30 seconds without an answer from a store that may yet store the turn.
AdapterGivesUp(e, dead) ==
  /\ sent[e].at = "store"
  /\ sent' = [sent EXCEPT ![e].at = "answer", ![e].gaveUp = TRUE,
                          ![e].storing = @ /\ ~dead,
                          ![e].reply = IF @ = Void THEN Void ELSE MadeUp(e)]
  /\ UNCHANGED <<server, tab>>

TurnArrives(e) ==
  LET c == sent[e].chat
      told == [tab EXCEPT !.chats = IF sent[e].reply = Void THEN @ ELSE WithMessage(@, c, sent[e].reply)]
      gone == Activate([tab EXCEPT !.chats = Without(@, c)], Void)
  IN
  /\ sent[e].at = "answer"
  /\ sent' = [sent EXCEPT ![e].at = "done", ![e].mode = "AI", ![e].deleted = FALSE]
  /\ tab' = IF ~sent[e].here THEN tab
            ELSE IF sent[e].deleted THEN gone
            ELSE WithMode(told, c, sent[e].mode)
  /\ UNCHANGED server

\* The request for a conversation, or Nadim, fails or refuses.
TurnFails(e) ==
  /\ sent[e].at \in {"create", "nadim"}
  /\ sent' = [sent EXCEPT ![e].at = "over"]
  /\ UNCHANGED <<server, tab>>

\* The page's connection breaks; what its request started goes on.
Disconnected(e) ==
  /\ sent[e].here /\ UnderWay(e)
  /\ sent' = [sent EXCEPT ![e].here = FALSE]
  /\ UNCHANGED <<server, tab>>

-----------------------------------------------------------------------------
\* The customer deletes a conversation of the list.
RemoveChat(c) ==
  /\ c \in Listed /\ Known(c)
  /\ server' = [server EXCEPT ![c] = Deleted]
  /\ tab' = LET page == [tab EXCEPT !.chats = Without(@, c)]
            IN IF tab.active = c THEN Activate(page, Void) ELSE page
  /\ UNCHANGED sent

-----------------------------------------------------------------------------
\* One conversation may exist, be listed in the browser and be the one shown last.
WebInit ==
  /\ sent = [e \in Events |-> NotSent]
  /\ \E known \in SUBSET Chats :
       /\ Cardinality(known) <= 1
       /\ server = [c \in Chats |-> [is |-> IF c \in known THEN "known" ELSE "unused", messages |-> <<>>, mode |-> "AI"]]
       /\ \E listed \in SUBSET known, active \in known \cup {Void} :
            tab = Opened([c \in listed |-> [mode |-> "AI", messages |-> <<>>]], active)

WebNext ==
  \/ IndexRead \/ IndexArrives \/ IndexFails \/ NewChat \/ Poll
  \/ \E c \in Chats : SelectChat(c) \/ RemoveChat(c)
  \/ \E l \in tab.loads : LoadRead(l) \/ LoadArrives(l) \/ LoadFails(l)
  \/ \E e \in Events :
       \/ Send(e) \/ CreateArrives(e) \/ PersistTurn(e) \/ AdapterReturns(e)
       \/ TurnFails(e) \/ TurnArrives(e) \/ Disconnected(e)
       \/ \E c \in Chats : CreateStored(e, c)
       \/ \E mode \in {"AI", "HUMAN"}, deleted \in BOOLEAN : NadimAnswers(e, mode, deleted)
       \/ \E dead \in BOOLEAN : AdapterGivesUp(e, dead)

WebSpec == WebInit /\ [][WebNext]_webVars
-----------------------------------------------------------------------------
(* Properties *)

Says(list, kinds, e) == {i \in DOMAIN list : list[i].what \in kinds /\ list[i].of = e}
QuestionKinds == {"asked", "question"}
AnswerKinds == {"answer", "made up"}

\* No conversation shows a question or an answer twice, or one of another conversation,
\* however answers, histories and polls overtake each other.  The code gives way where the
\* adapter makes up an answer that the store takes after all.
ShownOnce ==
  \A c \in Listed, e \in Events :
    LET list == Shown(c).messages IN
    /\ Says(list, QuestionKinds \cup AnswerKinds, e) # {} => sent[e].chat = c
    /\ Cardinality(Says(list, QuestionKinds, e)) <= 1
    /\ Cardinality(Says(list, AnswerKinds, e)) <= 1 \/ (sent[e].gaveUp /\ sent[e].stored)

\* The conversation a first message created keeps showing that message and its answer while
\* the customer stays on it (chat-state.ts, "skips the stale bootstrap history request").
\* The code gives way where polls begin before the turn is stored, and where the index names
\* the conversation, and the customer picks it, before the page knows it has created it.
FirstTurnStands ==
  \A e \in Events :
    LET c == sent[e].chat IN
    sent[e].first /\ sent[e].here /\ c = tab.active /\ c \in Listed /\ tab.stayed
    => /\ Says(Shown(c).messages, QuestionKinds, e) # {}
       /\ sent[e].at = "done" /\ sent[e].reply # Void => Says(Shown(c).messages, AnswerKinds, e) # {}

ScreenStands == ShownOnce /\ FirstTurnStands
=============================================================================
