----------------------------- MODULE LegacyChat ------------------------------
(***************************************************************************)
(* The first generation of the chat: ChatService.prepare plans a message   *)
(* (customer-turn-planner.ts), looks up or searches units, hands viewing   *)
(* and contact requests to LeadHandoffService, and saves the state of the  *)
(* conversation.  Contacts are assessed by CustomerTrustService; admins    *)
(* review its alerts and close leads (lead-crm.service.ts).                *)
(*                                                                         *)
(* No claim or lock orders the turns of a conversation: a turn computes on *)
(* the state it read first and overwrites the row last, and the lead and   *)
(* the alert it writes are the ones it found several statements earlier.   *)
(*                                                                         *)
(* Abstraction: one conversation; a message is a kind with the unit or the *)
(* phone it names; the cards shown, wording, languages, knowledge,         *)
(* distances and criteria of searches are left out (a search finds any     *)
(* units).                                                                 *)
(***************************************************************************)
EXTENDS Naturals, FiniteSets

CONSTANTS Homes,          \* units the customer may name or be shown
          BothWays,       \* the units sold for cash and by instalments
          Numbers,        \* phone numbers
          Turns,          \* turns that may overlap
          WebLeads, Alerts, Absent,
          MaxMessages     \* bound: messages of the conversation

VARIABLES talk,        \* conversationState.searchContext, and what it presents
          suggested,   \* conversationState.suggestedUnitIds
          webLead,     \* the leads of the conversation, or Absent
          alert,       \* its trust alerts, or Absent
          step,        \* where each turn is
          messages

chatVars == <<talk, suggested, webLead, alert, step, messages>>

Verdicts == {"ADMIN_CONFIRMED_REAL", "ADMIN_CONFIRMED_FAKE"}
HandoffStages == {"PAYMENT", "IDENTITY", "CONFIRMATION"}

WebLeadRows == [phone : Numbers, unit : Homes \cup {Absent}, channel : BOOLEAN, pays : BOOLEAN,
                trust : Verdicts \cup {"CONTACT_VALID", "NEEDS_VERIFICATION"}, open : BOOLEAN]
AlertRows == [phone : Numbers \cup {Absent}, lead : WebLeads \cup {Absent},
              status : Verdicts \cup {"OPEN", "AUTO_RESOLVED", "RESOLVED"}]

ASSUME ChatAssumption ==
  /\ Absent \notin Homes \cup Numbers \cup WebLeads \cup Alerts \cup HandoffStages \cup {"COMPLETE"}
  /\ Absent \notin WebLeadRows \cup AlertRows

\* searchContext: contact, decisions and presentation.  picked is history: the units
\* chosen since the last search.
Talks == [phone : Numbers \cup {Absent}, name : {"sound", "odd", Absent}, keen : BOOLEAN, pays : BOOLEAN,
          channel : BOOLEAN, closed : BOOLEAN, stage : HandoffStages \cup {"COMPLETE", Absent},
          offered : {"CONTACT", "CARDS", "WIDEN", "BROCHURE", Absent}, selected : Homes \cup {Absent},
          candidates : SUBSET Homes, picked : SUBSET Homes]
NewTalk == [phone |-> Absent, name |-> Absent, keen |-> FALSE, pays |-> FALSE, channel |-> FALSE,
            closed |-> FALSE, stage |-> Absent, offered |-> Absent, selected |-> Absent,
            candidates |-> {}, picked |-> {}]

\* What a turn knows: its message, the state it read and the one it works on, the units found
\* and whether by a search; the phone an alert is owed for and the open alert found; the lead
\* found, and its row.
NoStep == [at |-> "idle", msg |-> Absent, prior |-> Absent, state |-> Absent, units |-> {},
           searched |-> FALSE, claims |-> Absent, open |-> Absent, lead |-> Absent, row |-> Absent]

-----------------------------------------------------------------------------
(* Messages and their plan: customer-turn-planner.ts *)

Message(kind, unit, phone, sound) == [kind |-> kind, unit |-> unit, phone |-> phone, sound |-> sound]

\* A contact is sound, or has a name that is implausible; PAY asks for the plans of a unit or
\* chooses cash or instalments.
Sayings ==
  {Message(k, u, Absent, FALSE) : k \in {"VIEW", "SHOW", "PAY"}, u \in Homes \cup {Absent}}
  \cup {Message("CONTACT", Absent, p, sound) : p \in Numbers, sound \in BOOLEAN}
  \cup {Message(k, Absent, Absent, FALSE) :
          k \in {"YES", "CALL_ME", "CHANNEL", "SMS", "OPTIONS", "REFINE", "BROCHURE", "FACTS",
                  "SMALL_TALK", "OFF_TOPIC"}}

\* awaitingConfirmation is offered # Absent: what was offered counts only while awaited.
Intent(m, s) ==
  IF s.offered = "CONTACT" /\ \/ m.kind = "CHANNEL" /\ s.stage = "CONFIRMATION"
                              \/ m.kind \in {"CONTACT", "CHANNEL", "SMS"} /\ s.stage \in HandoffStages
  THEN "CONTACT_REQUEST"
  ELSE CASE m.kind = "VIEW" -> "VIEWING_REQUEST"
         [] m.kind = "CALL_ME" -> "CONTACT_REQUEST"
         [] m.kind = "PAY" -> "PAYMENT_PLAN"
         [] m.kind = "SHOW" -> "PROPERTY_DETAILS"
         [] m.kind = "BROCHURE" -> "BROCHURE_REQUEST"
         [] m.kind = "YES" /\ s.offered = "BROCHURE" -> "BROCHURE_REQUEST"
         [] m.kind = "FACTS" -> "PROJECT_DETAILS"
         [] m.kind = "SMALL_TALK" -> "SMALL_TALK"
         [] m.kind = "OFF_TOPIC" -> "OUT_OF_DOMAIN"
         [] OTHER -> "SEARCH"

EmitsCards(m, s) == \/ m.kind \in {"VIEW", "SHOW", "OPTIONS"}
                    \/ m.kind = "YES" /\ s.offered = "CARDS"

\* applyDeterministicTurnSemantics, and the contact that extraction finds.
Gathered(m, s) ==
  [s EXCEPT !.pays = @ \/ (m.kind = "PAY" /\ m.unit = Absent),
            !.channel = @ \/ (m.kind = "CHANNEL" /\ s.stage = "CONFIRMATION"),
            !.keen = @ \/ Intent(m, s) \in {"VIEWING_REQUEST", "CONTACT_REQUEST"},
            !.closed = @ \/ Intent(m, s) = "OUT_OF_DOMAIN",
            !.phone = IF m.phone # Absent THEN m.phone ELSE @,
            !.name = IF m.phone # Absent THEN (IF m.sound THEN "sound" ELSE "odd") ELSE @]

-----------------------------------------------------------------------------
(* Units: chat.service.ts prepare *)

Result(units, state) == [units |-> units, searched |-> FALSE, state |-> state]

Select(s, u) == [s EXCEPT !.selected = u, !.picked = @ \cup {u}]

\* A unit named by its code.  A code without a unit finds the units whose codes begin so.
ExactUnit(m, s) ==
  {Result({m.unit}, [Select(s, m.unit) EXCEPT !.offered = Absent])}
  \cup {Result(c, IF c = {} THEN s ELSE
           [s EXCEPT !.selected = Absent, !.candidates = c, !.picked = {}, !.offered = Absent]) :
         c \in SUBSET (Homes \ {m.unit})}

\* "This unit": the selected one, else one that was found or suggested.
Contextual(s) ==
  IF s.selected # Absent THEN {s.selected} ELSE s.candidates \cup suggested

ContextUnit(s) ==
  IF Contextual(s) = {} THEN {Result({}, s)}
  ELSE {Result({u}, [Select(s, u) EXCEPT !.offered = Absent]) : u \in Contextual(s)}

\* The unit of a payment question is selected when there is only one.
PaymentPlan(m, s) ==
  LET units == IF m.unit # Absent THEN {m.unit} ELSE Contextual(s) IN
  {Result(units, IF Cardinality(units) = 1 THEN Select(s, CHOOSE u \in units : TRUE) ELSE s)}

\* presentationAfterPropertySearch, as it would be if a selection survived every search.
SearchedKeepingSelection(s, found, cards) ==
  [s EXCEPT !.candidates = found, !.picked = {},
            !.offered = IF found = {} THEN "WIDEN" ELSE IF ~cards THEN "CARDS" ELSE Absent]

Searched(s, found, cards) ==
  [s EXCEPT !.candidates = found, !.picked = {},
            !.selected = IF @ \in found THEN @ ELSE Absent,
            !.offered = IF found = {} THEN "WIDEN" ELSE IF ~cards THEN "CARDS" ELSE Absent]

SearchUnits(m, s) ==
  {[units |-> found, searched |-> TRUE, state |-> Searched(s, found, EmitsCards(m, s))] :
   found \in SUBSET Homes}

Plain(s) == {Result({}, s)}

\* Facts of projects, developers, places, comparisons and investments are read and answered:
\* what was selected, found and offered stays.
ProjectFacts(s) == Plain(s)

\* Every way prepare may go on from the state it read.
LookUps(m, s) ==
  LET intent == Intent(m, s)  next == Gathered(m, s) IN
  CASE intent \in {"OUT_OF_DOMAIN", "SMALL_TALK", "CONTACT_REQUEST"} -> Plain(next)
    [] intent \in {"VIEWING_REQUEST", "PROPERTY_DETAILS"} /\ m.unit # Absent -> ExactUnit(m, next)
    [] intent = "PROPERTY_DETAILS" /\ m.unit = Absent -> ContextUnit(next)
    [] intent = "PROJECT_DETAILS" -> ProjectFacts(next)
    [] intent = "PAYMENT_PLAN" -> PaymentPlan(m, next)
    [] intent = "BROCHURE_REQUEST" ->
         Plain(next) \cup (IF m.kind = "YES" THEN {}
                           ELSE UNION {Plain([next EXCEPT !.offered = o]) : o \in {"BROCHURE", Absent}})
    [] OTHER -> SearchUnits(m, next)

-----------------------------------------------------------------------------
(* Trust: customer-trust.service.ts *)

\* What admins said of this phone; of several verdicts the last one, left open here.
Feedback(p) ==
  LET said == {alert[n].status : n \in {n \in Alerts : alert[n] # Absent /\ alert[n].phone = p}} \cap Verdicts
  IN IF said = {} THEN {Absent} ELSE said

\* Whether the contact of the state suffices for a lead, and whether it is suspicious.
Assessment(s) ==
  {[valid |-> s.phone # Absent /\ s.name = "sound" /\ f # "ADMIN_CONFIRMED_FAKE",
    alarming |-> f # "ADMIN_CONFIRMED_REAL" \/ s.phone = Absent] : f \in Feedback(s.phone)}

OpenAlerts == {n \in Alerts : alert[n] # Absent /\ alert[n].status = "OPEN"}
AnOpenAlert == IF OpenAlerts = {} THEN {Absent} ELSE OpenAlerts

-----------------------------------------------------------------------------
(* Hand-off: lead-handoff.service.ts handleLeadCapture *)

OpenWebLeads == {l \in WebLeads : webLead[l] # Absent /\ webLead[l].open}

Ask(s, stage) == [s EXCEPT !.stage = stage, !.offered = "CONTACT"]

\* What a stored lead adds to the state of the turn.
Recalled(s, l) ==
  IF l = Absent THEN s
  ELSE [s EXCEPT !.phone = IF @ = Absent THEN webLead[l].phone ELSE @, !.name = IF @ = Absent THEN "sound" ELSE @,
                 !.channel = @ \/ webLead[l].channel, !.pays = @ \/ webLead[l].pays]

\* adminLockedTrust, and what is left of it if only one of the verdicts locks.
LockedReal(row) == row # Absent /\ row.trust = "ADMIN_CONFIRMED_REAL"
Locked(row) == row # Absent /\ row.trust \in Verdicts

\* The outcomes of handleLeadCapture before it writes: answer (nothing is written), alert,
\* or lead, for the state s the lookups left, the prior state p and the open lead l.
Capture(m, p, s, l) ==
  LET intent == Intent(m, p)
      leadTurn == intent \in {"VIEWING_REQUEST", "CONTACT_REQUEST"}
      unit == IF s.selected # Absent THEN s.selected ELSE p.selected
      asked == [s EXCEPT !.pays = @ \/ (unit # Absent /\ unit \notin BothWays)]
      past == IF asked.pays /\ p.stage = "PAYMENT" THEN Ask(asked, "IDENTITY") ELSE asked
      identity == p.stage = "IDENTITY"
      contact == m.phone # Absent
      assessed == /\ l = Absent \/ contact
                  /\ identity \/ (leadTurn /\ (unit # Absent \/ intent = "CONTACT_REQUEST"))
      answer(state) == {[NoStep EXCEPT !.at = "finish", !.state = state]}
      goOn == IF l = Absent /\ past.keen /\ ~(past.phone # Absent /\ past.name # Absent)
                 /\ (unit # Absent \/ intent = "CONTACT_REQUEST")
              THEN answer(Ask(past, "IDENTITY"))
              ELSE IF past.phone # Absent /\ past.name # Absent /\ (l # Absent \/ past.keen)
              THEN {[NoStep EXCEPT !.at = "lead", !.state = past, !.lead = l,
                                   !.row = IF l = Absent THEN Absent ELSE webLead[l]]}
              ELSE answer(past)
  IN
  IF ~leadTurn /\ p.stage \notin HandoffStages THEN answer(s)
  ELSE IF p.stage = "CONFIRMATION" /\ m.kind = "SMS" /\ ~s.channel THEN answer(s)
  ELSE IF intent = "VIEWING_REQUEST" /\ unit = Absent /\ m.unit = Absent
  THEN answer([s EXCEPT !.offered = IF p.candidates # {} THEN "CARDS" ELSE Absent])
  ELSE IF unit \in BothWays /\ ~s.pays THEN answer(Ask(s, "PAYMENT"))
  ELSE IF asked.stage = "PAYMENT" /\ ~asked.pays THEN answer(asked)
  ELSE IF assessed
  THEN UNION {IF (identity \/ contact) /\ ~a.valid
              THEN LET back == Ask([past EXCEPT !.phone = IF l = Absent THEN @ ELSE webLead[l].phone,
                                                !.name = IF l # Absent THEN "sound" ELSE IF @ = "odd" THEN Absent ELSE @],
                             "IDENTITY")
                   IN IF a.alarming
                      THEN {[NoStep EXCEPT !.at = "alert", !.state = back, !.lead = l,
                                           !.claims = past.phone, !.open = n] : n \in AnOpenAlert}
                      ELSE answer(back)
              ELSE goOn : a \in Assessment(past)}
  ELSE goOn

-----------------------------------------------------------------------------
(* Turns *)

MoveTo(t, record) == step' = [step EXCEPT ![t] = record]

\* A message outside a hand-off that claims a name or phone is assessed on its own.
PassiveContact(m, s) == m.kind = "CONTACT" /\ s.stage \notin HandoffStages

\* Turns are interchangeable: any free one will do.
Prepare(t, m) ==
  /\ step[t] = NoStep /\ t = CHOOSE free \in Turns : step[free] = NoStep
  /\ messages < MaxMessages /\ ~talk.closed
  /\ messages' = messages + 1
  /\ \E r \in LookUps(m, talk) :
       LET turn == [NoStep EXCEPT !.at = "capture", !.msg = m, !.prior = talk, !.state = r.state,
                                  !.units = r.units, !.searched = r.searched]
       IN IF PassiveContact(m, talk)
          THEN \E a \in Assessment(Gathered(m, talk)), n \in AnOpenAlert :
                 MoveTo(t, IF a.valid \/ ~a.alarming THEN turn
                           ELSE [turn EXCEPT !.claims = m.phone, !.open = n])
          ELSE MoveTo(t, turn)
  /\ UNCHANGED <<talk, suggested, webLead, alert>>

\* recordAlert: the open alert found before is updated, whatever it is now.
RecordAlert(found, lead, phone) ==
  IF found # Absent THEN alert' = [alert EXCEPT ![found].phone = phone, ![found].lead = lead]
  ELSE \/ \E n \in Alerts : /\ alert[n] = Absent
                            /\ alert' = [alert EXCEPT ![n] = [phone |-> phone, lead |-> lead, status |-> "OPEN"]]
       \/ (\A n \in Alerts : alert[n] # Absent) /\ UNCHANGED alert   \* no more alerts in the model

PassiveAlert(t) ==
  /\ step[t].at = "capture" /\ step[t].claims # Absent
  /\ RecordAlert(step[t].open, Absent, step[t].claims)
  /\ MoveTo(t, [step[t] EXCEPT !.claims = Absent, !.open = Absent])
  /\ UNCHANGED <<talk, suggested, webLead, messages>>

HandleLeadCapture(t) ==
  LET turn == step[t] IN
  /\ turn.at = "capture" /\ turn.claims = Absent
  /\ \E l \in IF OpenWebLeads = {} THEN {Absent} ELSE OpenWebLeads :
       LET handled == Intent(turn.msg, turn.prior) \in {"VIEWING_REQUEST", "CONTACT_REQUEST"}
                      \/ turn.prior.stage \in HandoffStages
           s == IF handled THEN Recalled(turn.state, l) ELSE turn.state
       IN \E outcome \in Capture(turn.msg, turn.prior, s, l) :
            MoveTo(t, [outcome EXCEPT !.units = turn.units, !.searched = turn.searched])
  /\ UNCHANGED <<talk, suggested, webLead, alert, messages>>

IdentityAlert(t) ==
  LET turn == step[t] IN
  /\ turn.at = "alert"
  /\ RecordAlert(turn.open, turn.lead, turn.claims)
  /\ MoveTo(t, [turn EXCEPT !.at = "finish", !.claims = Absent, !.open = Absent, !.lead = Absent])
  /\ UNCHANGED <<talk, suggested, webLead, messages>>

\* The trust written is decided on the lead as it was read.
WriteLead(t) ==
  LET turn == step[t]  s == turn.state
      row == [phone |-> s.phone, unit |-> s.selected, channel |-> s.channel, pays |-> s.pays,
              trust |-> IF Locked(turn.row) THEN turn.row.trust ELSE "CONTACT_VALID", open |-> TRUE]
      next == [s EXCEPT !.stage = IF s.channel THEN "COMPLETE" ELSE "CONFIRMATION",
                        !.offered = IF s.channel THEN Absent ELSE "CONTACT"]
  IN
  /\ turn.at = "lead"
  /\ \E l \in IF turn.lead # Absent THEN {turn.lead} ELSE {l \in WebLeads : webLead[l] = Absent} :
       /\ webLead' = [webLead EXCEPT ![l] = IF turn.lead = Absent THEN row ELSE [row EXCEPT !.open = webLead[l].open]]
       /\ MoveTo(t, [turn EXCEPT !.at = "resolve", !.lead = l, !.row = Absent, !.state = next])
  /\ UNCHANGED <<talk, suggested, alert, messages>>

\* resolveOpenAlerts, and the state for the first time.
ResolveOpenAlerts(t) ==
  LET turn == step[t] IN
  /\ turn.at = "resolve"
  /\ alert' = [n \in Alerts |-> IF n \in OpenAlerts
                                THEN [alert[n] EXCEPT !.status = "AUTO_RESOLVED", !.lead = turn.lead]
                                ELSE alert[n]]
  /\ talk' = turn.state
  /\ MoveTo(t, [turn EXCEPT !.at = "finish", !.lead = Absent])
  /\ UNCHANGED <<suggested, webLead, messages>>

\* finishPreparation: the whole row is overwritten.
FinishPreparation(t) ==
  LET turn == step[t] IN
  /\ turn.at = "finish"
  /\ talk' = turn.state
  /\ suggested' = IF turn.units # {} \/ turn.searched THEN turn.units ELSE suggested
  /\ MoveTo(t, NoStep)
  /\ UNCHANGED <<webLead, alert, messages>>

\* A statement fails: what was written stays, the state is not saved.
TurnThrows(t) ==
  /\ step[t] # NoStep
  /\ MoveTo(t, NoStep)
  /\ UNCHANGED <<talk, suggested, webLead, alert, messages>>

-----------------------------------------------------------------------------
(* Admins: lead-crm.service.ts *)

\* reviewTrustAlert looks at neither the status of the alert nor that of its lead.
ReviewTrustAlert(n, verdict) ==
  /\ alert[n] # Absent /\ alert[n].status # verdict
  /\ alert' = [alert EXCEPT ![n].status = verdict]
  /\ webLead' = IF alert[n].lead = Absent THEN webLead
                ELSE [webLead EXCEPT ![alert[n].lead].trust =
                        IF verdict \in Verdicts THEN verdict ELSE "NEEDS_VERIFICATION"]
  /\ UNCHANGED <<talk, suggested, step, messages>>

\* update to WON or LOST.
CloseLead(l) ==
  /\ l \in OpenWebLeads
  /\ webLead' = [webLead EXCEPT ![l].open = FALSE]
  /\ UNCHANGED <<talk, suggested, alert, step, messages>>

\* A conversation that begins, or one in which the customer has asked for a call and given
\* a sound contact: the lead is stored and awaits the channel.
ChatInit ==
  /\ suggested = {} /\ messages = 0
  /\ alert = [n \in Alerts |-> Absent]
  /\ step = [t \in Turns |-> NoStep]
  /\ \/ /\ talk = NewTalk
        /\ webLead = [l \in WebLeads |-> Absent]
     \/ \E p \in Numbers, l \in WebLeads :
          /\ talk = [NewTalk EXCEPT !.phone = p, !.name = "sound", !.keen = TRUE,
                                 !.stage = "CONFIRMATION", !.offered = "CONTACT"]
          /\ webLead = [w \in WebLeads |-> IF w # l THEN Absent ELSE
               [phone |-> p, unit |-> Absent, channel |-> FALSE, pays |-> FALSE,
                trust |-> "CONTACT_VALID", open |-> TRUE]]

ChatNext ==
  \/ \E t \in Turns, m \in Sayings : Prepare(t, m)
  \/ \E t \in Turns : \/ PassiveAlert(t) \/ HandleLeadCapture(t) \/ IdentityAlert(t) \/ WriteLead(t)
                      \/ ResolveOpenAlerts(t) \/ FinishPreparation(t) \/ TurnThrows(t)
  \/ \E n \in Alerts, v \in Verdicts \cup {"RESOLVED"} : ReviewTrustAlert(n, v)
  \/ \E l \in WebLeads : CloseLead(l)

ChatSpec == ChatInit /\ [][ChatNext]_chatVars
-----------------------------------------------------------------------------
(* Properties *)

\* Rows refer to rows: an alert to a lead that exists, and a conversation past the contact
\* questions to a lead that was stored, whichever turn failed or overwrote the other.
ChatTyped ==
  /\ talk \in Talks /\ suggested \subseteq Homes
  /\ webLead \in [WebLeads -> WebLeadRows \cup {Absent}]
  /\ alert \in [Alerts -> AlertRows \cup {Absent}]
  /\ \A n \in Alerts : alert[n] # Absent /\ alert[n].lead # Absent => webLead[alert[n].lead] # Absent
  /\ talk.stage \in {"CONFIRMATION", "COMPLETE"} => \E l \in WebLeads : webLead[l] # Absent

\* The unit a viewing is arranged for is one of the last search, or was chosen by the
\* customer after it: a new search drops an older selection, also when it runs in the
\* middle of a hand-off or overlaps another turn (presentationAfterPropertySearch).
SelectedIsCurrent ==
  talk.selected # Absent => talk.selected \in talk.candidates \cup talk.picked

\* What an admin decided about a lead stands: only another review changes it, or a turn
\* that had read the lead before the decision (LeadHandoffService, adminLockedTrust).
VerdictStands ==
  [][\A l \in WebLeads :
       webLead[l] # Absent /\ webLead[l].trust \in Verdicts /\ webLead'[l].trust # webLead[l].trust
         => \/ \E n \in Alerts, v \in Verdicts \cup {"RESOLVED"} : ReviewTrustAlert(n, v)
            \/ \E t \in Turns : /\ step[t].at = "lead" /\ step'[t].at = "resolve"
                               /\ step[t].lead = l /\ step[t].row.trust # webLead[l].trust]_chatVars
=============================================================================
