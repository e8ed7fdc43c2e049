--------------------------- MODULE Services_proofs ---------------------------
(***************************************************************************)
(* Of the services whose models are small, one section each:               *)
(*                                                                         *)
(* FxRates, for any number of callers and any times: no answer is older    *)
(* than Stale.  A quote is never younger than the call that stored it      *)
(* claims, so what is served from the cache, and what stands in for a      *)
(* failed fetch, was given at most Stale before the question.              *)
(*                                                                         *)
(* LegacyChat, for any number of turns, units, leads and alerts: what is   *)
(* selected is current in every state a turn works on, rows refer to rows, *)
(* and verdicts stand against turns that read them.                        *)
(*                                                                         *)
(* FollowUpTimes, for every zone and moment, and SearchConstraints, for    *)
(* all constraints and words: the function has the property, and the       *)
(* invariant says that the state is its value.                             *)
(*                                                                         *)
(* NadimReply, for all actions a turn may propose: what succeeded was      *)
(* done, so no reply claims what was not.                                  *)
(*                                                                         *)
(* WebChat, for any number of conversations, turns and requests in flight: *)
(* what is shown, stored or on its way of a turn is of its conversation    *)
(* and there once, and nothing is loaded over a first turn that is shown.  *)
(*                                                                         *)
(* AutomationLeads, for any number of keys, callers, customers, leads and  *)
(* identities: a key is applied at most once, a success that is replayed   *)
(* is what was committed, and it went to the customer the request names.   *)
(* The claim makes one caller the owner of a key until its row is decided; *)
(* what that caller read of the identities stays true until it commits,    *)
(* because identities are never reassigned and the unique indexes refuse a *)
(* second row.                                                             *)
(***************************************************************************)
EXTENDS FxRates, LegacyChat, FollowUpTimes, SearchConstraints, NadimReply, WebChat,
        AutomationLeads, FiniteSetTheorems, TLAPS

-----------------------------------------------------------------------------
(* FxRates *)

Times == 0..MaxTime
StoredRates == [made : Times, fetchedAt : Times]
RateCalls == [at : {"idle", "fetching", "answered", "unavailable"}, now : Times,
          read : StoredRates \cup {NoQuote}, quote : Times \cup {NoQuote}]

FxShape == /\ time \in Times
           /\ quoted \in StoredRates \cup {NoQuote}
           /\ asks \in [Callers -> RateCalls]

\* A quote was given after the call that stored it began.
FetchedFirst(q) == q # NoQuote => q.fetchedAt <= q.made

\* What a call has read and received so far, and what it has answered.
CallSound(cl) ==
  /\ cl.now <= time
  /\ FetchedFirst(cl.read)
  /\ cl.at = "fetching" /\ cl.quote # NoQuote => cl.now <= cl.quote
  /\ cl.at = "answered" => cl.quote \in Times /\ cl.now - Stale <= cl.quote

FxInv == FxShape /\ FetchedFirst(quoted) /\ \A c \in Callers : CallSound(asks[c])

LEMMA FxInvInit == FxInit => FxInv
  BY FxAssumption DEF FxInit, FxInv, FxShape, Times, RateCalls, Idle, FetchedFirst, CallSound

\* A step that changes one call, keeps the time and leaves that call sound.
LEMMA OneCall ==
  ASSUME NEW c \in Callers, NEW cl \in RateCalls, FxInv, CallSound(cl),
         asks' = [asks EXCEPT ![c] = cl], time' = time,
         quoted' \in StoredRates \cup {NoQuote}, FetchedFirst(quoted')
  PROVE  FxInv'
  BY DEF FxInv, FxShape, CallSound, FetchedFirst

LEMMA GetRateInv ==
  ASSUME NEW c \in Callers, FxInv, GetRate(c)
  PROVE  FxInv'
<1> USE FxAssumption
<1>1. CASE Fresh(quoted, time)
  <2> DEFINE cl == [at |-> "answered", now |-> time, read |-> quoted, quote |-> quoted.made]
  <2>1. quoted \in StoredRates /\ time - quoted.fetchedAt <= Ttl /\ quoted.fetchedAt <= quoted.made
    BY <1>1 DEF Fresh, FxInv, FxShape, FetchedFirst
  <2>2. cl \in RateCalls
    BY <2>1 DEF RateCalls, StoredRates, FxInv, FxShape
  <2>3. CallSound(cl)
    BY <2>1 DEF CallSound, FetchedFirst, StoredRates, FxInv, FxShape, Times
  <2>. QED  BY <1>1, <2>2, <2>3, OneCall DEF GetRate, FxInv, FxShape
<1>2. CASE ~Fresh(quoted, time)
  <2> DEFINE cl == [at |-> "fetching", now |-> time, read |-> quoted, quote |-> NoQuote]
  <2>1. cl \in RateCalls
    BY DEF RateCalls, FxInv, FxShape
  <2>2. CallSound(cl)
    BY DEF CallSound, FxInv, FxShape, Times
  <2>. QED  BY <1>2, <2>1, <2>2, OneCall DEF GetRate, FxInv, FxShape
<1>. QED  BY <1>1, <1>2

LEMMA QuoteInv ==
  ASSUME NEW c \in Callers, FxInv, Quote(c)
  PROVE  FxInv'
<1> DEFINE cl == [asks[c] EXCEPT !.quote = time]
<1>1. cl \in RateCalls
  BY DEF RateCalls, FxInv, FxShape
<1>2. CallSound(cl)
  BY DEF Quote, CallSound, RateCalls, FxInv, FxShape
<1>3. asks' = [asks EXCEPT ![c] = cl]
  BY DEF Quote
<1>. QED  BY <1>1, <1>2, <1>3, OneCall DEF Quote, FxInv, FxShape

LEMMA ArriveInv ==
  ASSUME NEW c \in Callers, FxInv, Arrive(c)
  PROVE  FxInv'
<1> DEFINE cl == [asks[c] EXCEPT !.at = "answered"]
<1> USE FxAssumption
<1>1. asks[c] \in RateCalls /\ asks[c].quote \in Times /\ asks[c].now <= asks[c].quote
  BY DEF Arrive, RateCalls, FxInv, FxShape, CallSound
<1>2. cl \in RateCalls /\ CallSound(cl)
  BY <1>1 DEF RateCalls, CallSound, FxInv, Times
<1>3. quoted' \in StoredRates /\ FetchedFirst(quoted')
  BY <1>1 DEF Arrive, Stored, StoredRates, RateCalls, FetchedFirst
<1>4. asks' = [asks EXCEPT ![c] = cl]
  BY DEF Arrive
<1>. QED  BY <1>2, <1>3, <1>4, OneCall DEF Arrive

LEMMA FailInv ==
  ASSUME NEW c \in Callers, FxInv, Fail(c)
  PROVE  FxInv'
<1> USE FxAssumption
<1>1. asks[c] \in RateCalls /\ CallSound(asks[c])
  BY DEF FxInv, FxShape
<1>2. CASE Usable(asks[c].read, asks[c].now)
  <2> DEFINE cl == [asks[c] EXCEPT !.at = "answered", !.quote = asks[c].read.made]
  <2>1. /\ asks[c].read \in StoredRates
        /\ asks[c].now - asks[c].read.fetchedAt <= Stale
        /\ asks[c].read.fetchedAt <= asks[c].read.made
    BY <1>1, <1>2 DEF Usable, RateCalls, CallSound, FetchedFirst
  <2>2. /\ cl \in RateCalls
        /\ cl.at = "answered" /\ cl.now = asks[c].now /\ cl.read = asks[c].read
        /\ cl.quote = asks[c].read.made /\ cl.quote \in Times
    BY <1>1, <2>1 DEF RateCalls, StoredRates
  <2>3. asks[c].now - Stale <= asks[c].read.made
    BY <1>1, <2>1 DEF RateCalls, StoredRates, Times
  <2>4. CallSound(cl)
    BY <1>1, <2>2, <2>3 DEF CallSound
  <2>. QED  BY <1>2, <2>2, <2>4, OneCall DEF Fail, FxInv, FxShape
<1>3. CASE ~Usable(asks[c].read, asks[c].now)
  <2> DEFINE cl == [asks[c] EXCEPT !.at = "unavailable", !.quote = NoQuote]
  <2>1. cl \in RateCalls /\ CallSound(cl)
    BY <1>1 DEF RateCalls, CallSound
  <2>. QED  BY <1>3, <2>1, OneCall DEF Fail, FxInv, FxShape
<1>. QED  BY <1>2, <1>3

LEMMA TickInv ==
  ASSUME FxInv, Tick
  PROVE  FxInv'
<1>1. time' \in Times /\ time <= time'
  BY FxAssumption DEF Tick, FxInv, FxShape, Times
<1>2. ASSUME NEW c \in Callers PROVE CallSound(asks[c])'
  BY <1>1 DEF Tick, FxInv, FxShape, CallSound, RateCalls, Times
<1>. QED  BY <1>1, <1>2 DEF Tick, FxInv, FxShape

LEMMA FxInvStep == FxInv /\ [FxNext]_fxVars => FxInv'
<1> SUFFICES ASSUME FxInv, [FxNext]_fxVars PROVE FxInv'
  OBVIOUS
<1>1. CASE UNCHANGED fxVars
  BY <1>1 DEF fxVars, FxInv, FxShape, CallSound
<1>2. CASE Tick
  BY <1>2, TickInv
<1>3. ASSUME NEW c \in Callers, GetRate(c) \/ Quote(c) \/ Arrive(c) \/ Fail(c) PROVE FxInv'
  BY <1>3, GetRateInv, QuoteInv, ArriveInv, FailInv
<1>. QED  BY <1>1, <1>2, <1>3 DEF FxNext

\* The invariant that the age of a quote is counted from before its fetch.
THEOREM FxInvHolds == FxSpec => []FxInv
  BY FxInvInit, FxInvStep, PTL DEF FxSpec

\* The cache and the calls keep their shapes, and time only passes.
THEOREM FxTypeHolds == FxSpec => []FxTyped
<1>1. FxInv => FxTyped
  BY DEF FxInv, FxShape, FxTyped, RateCalls, StoredRates, CallSound, Times
<1>. QED  BY <1>1, FxInvHolds, PTL

\* getRate never answers with a quote given more than Stale before the question, however its
\* fetches overlap, fail or come late.
THEOREM RatesStayCurrent == FxSpec => []RatesAreCurrent
<1>1. FxInv => RatesAreCurrent
  BY FxAssumption DEF FxInv, FxShape, RatesAreCurrent, CallSound, RateCalls, Times
<1>. QED  BY <1>1, FxInvHolds, PTL

-----------------------------------------------------------------------------
(* LegacyChat *)

ChatSteps == [at : {"idle", "capture", "finish", "alert", "lead", "resolve"}, msg : Sayings \cup {Absent},
          prior : Talks \cup {Absent}, state : Talks \cup {Absent}, units : SUBSET Homes,
          searched : BOOLEAN, claims : Numbers \cup {Absent}, open : Alerts \cup {Absent},
          lead : WebLeads \cup {Absent}, row : WebLeadRows \cup {Absent}]

ChatShape ==
  /\ talk \in Talks /\ suggested \in SUBSET Homes
  /\ webLead \in [WebLeads -> WebLeadRows \cup {Absent}]
  /\ alert \in [Alerts -> AlertRows \cup {Absent}]
  /\ step \in [Turns -> ChatSteps]

\* A state of the conversation: its selection is current, and a stage past the contact
\* questions has a lead among those given.
Chosen(s) == s.selected # Absent => s.selected \in s.candidates \cup s.picked
TalkSound(s, leads) ==
  Chosen(s) /\ (s.stage \in {"CONFIRMATION", "COMPLETE"} => \E l \in WebLeads : leads[l] # Absent)

\* What a turn holds refers to rows that are there, and is enough for what it writes next.
ChatTurnSound(j, leads, alerts) ==
  /\ j.at # "idle" => j.state \in Talks /\ TalkSound(j.state, leads)
  /\ j.at = "capture" => j.msg \in Sayings /\ j.prior \in Talks /\ TalkSound(j.prior, leads)
  /\ j.open # Absent => alerts[j.open] # Absent
  /\ j.lead # Absent => leads[j.lead] # Absent
  /\ j.at = "lead" => j.state.phone # Absent /\ (j.lead # Absent => j.row # Absent)
  /\ j.at = "resolve" => j.lead # Absent

AlertsRefer(leads, alerts) ==
  \A n \in Alerts : alerts[n] # Absent /\ alerts[n].lead # Absent => leads[alerts[n].lead] # Absent

ChatInv == /\ ChatShape
           /\ TalkSound(talk, webLead)
           /\ AlertsRefer(webLead, alert)
           /\ \A t \in Turns : ChatTurnSound(step[t], webLead, alert)

\* Rows are never deleted.
RowsKept == /\ \A l \in WebLeads : webLead[l] # Absent => webLead'[l] # Absent
            /\ \A n \in Alerts : alert[n] # Absent => alert'[n] # Absent

LEMMA SayingTyped ==
  ASSUME NEW m \in Sayings
  PROVE  /\ m.unit \in Homes \cup {Absent} /\ m.phone \in Numbers \cup {Absent}
         /\ m.kind = "CONTACT" => m.phone \in Numbers
<1> DEFINE ofUnits == {Message(k, u, Absent, FALSE) : k \in {"VIEW", "SHOW", "PAY"}, u \in Homes \cup {Absent}}
           contacts == {Message("CONTACT", Absent, p, sound) : p \in Numbers, sound \in BOOLEAN}
           others == {Message(k, Absent, Absent, FALSE) :
                        k \in {"YES", "CALL_ME", "CHANNEL", "SMS", "OPTIONS", "REFINE", "BROCHURE", "FACTS",
                                "SMALL_TALK", "OFF_TOPIC"}}
<1>1. CASE m \in ofUnits
  <2>1. PICK k \in {"VIEW", "SHOW", "PAY"}, u \in Homes \cup {Absent} :
          m = [kind |-> k, unit |-> u, phone |-> Absent, sound |-> FALSE]
    BY <1>1 DEF Message
  <2>. QED  BY <2>1
<1>2. CASE m \in contacts
  <2>1. PICK p \in Numbers, sound \in BOOLEAN :
          m = [kind |-> "CONTACT", unit |-> Absent, phone |-> p, sound |-> sound]
    BY <1>2 DEF Message
  <2>. QED  BY <2>1
<1>3. CASE m \in others
  <2>1. PICK k \in {"YES", "CALL_ME", "CHANNEL", "SMS", "OPTIONS", "REFINE", "BROCHURE", "FACTS",
                      "SMALL_TALK", "OFF_TOPIC"} :
          m = [kind |-> k, unit |-> Absent, phone |-> Absent, sound |-> FALSE]
    BY <1>3 DEF Message
  <2>. QED  BY <2>1
<1>4. Sayings = ofUnits \cup contacts \cup others
  BY DEF Sayings
<1> HIDE DEF ofUnits, contacts, others
<1>. QED  BY <1>1, <1>2, <1>3, <1>4

LEMMA ChatInvInit == ChatInit => ChatInv
<1> SUFFICES ASSUME ChatInit PROVE ChatInv
  OBVIOUS
<1> USE ChatAssumption
<1>1. NoStep \in ChatSteps
  BY DEF NoStep, ChatSteps
<1>2. NewTalk \in Talks
  BY DEF NewTalk, Talks
<1>3. step \in [Turns -> ChatSteps] /\ alert \in [Alerts -> AlertRows \cup {Absent}] /\ suggested \in SUBSET Homes
  BY <1>1 DEF ChatInit
<1>4. AlertsRefer(webLead, alert)
  BY DEF ChatInit, AlertsRefer
<1>5. \A t \in Turns : ChatTurnSound(step[t], webLead, alert)
  BY DEF ChatInit, ChatTurnSound, NoStep
<1>6. CASE talk = NewTalk /\ webLead = [l \in WebLeads |-> Absent]
  <2>1. TalkSound(talk, webLead)
    BY <1>6 DEF TalkSound, Chosen, NewTalk, HandoffStages
  <2>2. webLead \in [WebLeads -> WebLeadRows \cup {Absent}]
    BY <1>6
  <2>. QED  BY <1>2, <1>3, <1>4, <1>5, <1>6, <2>1, <2>2 DEF ChatInv, ChatShape
<1>7. CASE \E p \in Numbers, l \in WebLeads :
          /\ talk = [NewTalk EXCEPT !.phone = p, !.name = "sound", !.keen = TRUE,
                                 !.stage = "CONFIRMATION", !.offered = "CONTACT"]
          /\ webLead = [w \in WebLeads |-> IF w # l THEN Absent ELSE
               [phone |-> p, unit |-> Absent, channel |-> FALSE, pays |-> FALSE,
                trust |-> "CONTACT_VALID", open |-> TRUE]]
  <2>1. PICK p \in Numbers, l \in WebLeads :
          /\ talk = [NewTalk EXCEPT !.phone = p, !.name = "sound", !.keen = TRUE,
                                 !.stage = "CONFIRMATION", !.offered = "CONTACT"]
          /\ webLead = [w \in WebLeads |-> IF w # l THEN Absent ELSE
               [phone |-> p, unit |-> Absent, channel |-> FALSE, pays |-> FALSE,
                trust |-> "CONTACT_VALID", open |-> TRUE]]
    BY <1>7
  <2>2. talk \in Talks /\ Chosen(talk)
    BY <2>1 DEF NewTalk, Talks, Chosen, HandoffStages
  <2>3. webLead \in [WebLeads -> WebLeadRows \cup {Absent}] /\ webLead[l] # Absent
    <3>1. [phone |-> p, unit |-> Absent, channel |-> FALSE, pays |-> FALSE,
           trust |-> "CONTACT_VALID", open |-> TRUE] \in WebLeadRows
      BY DEF WebLeadRows
    <3>. QED  BY <3>1, <2>1
  <2>. QED  BY <2>2, <2>3, <1>3, <1>4, <1>5 DEF ChatInv, ChatShape, TalkSound
<1>. QED  BY <1>6, <1>7 DEF ChatInit

LEMMA OneStep ==
  ASSUME ChatInv, NEW t \in Turns, NEW j \in ChatSteps, step' = [step EXCEPT ![t] = j],
         ChatTurnSound(j, webLead', alert'), RowsKept,
         webLead' \in [WebLeads -> WebLeadRows \cup {Absent}],
         alert' \in [Alerts -> AlertRows \cup {Absent}],
         AlertsRefer(webLead', alert'),
         talk' \in Talks, TalkSound(talk', webLead'), suggested' \in SUBSET Homes
  PROVE  ChatInv'
<1>1. ChatShape'
  BY DEF ChatInv, ChatShape
<1>2. ASSUME NEW u \in Turns PROVE ChatTurnSound(step[u], webLead, alert)'
  <2>1. CASE u = t
    BY <2>1 DEF ChatInv, ChatShape
  <2>2. CASE u # t
    <3>1. step'[u] = step[u] /\ step[u] \in ChatSteps /\ ChatTurnSound(step[u], webLead, alert)
      BY <2>2 DEF ChatInv, ChatShape
    <3>. QED  BY <3>1 DEF ChatTurnSound, TalkSound, RowsKept, ChatSteps
  <2>. QED  BY <2>1, <2>2
<1>. QED  BY <1>1, <1>2 DEF ChatInv

LEMMA OthersStep ==
  ASSUME ChatInv, UNCHANGED <<talk, suggested, step>>, RowsKept,
         webLead' \in [WebLeads -> WebLeadRows \cup {Absent}],
         alert' \in [Alerts -> AlertRows \cup {Absent}],
         AlertsRefer(webLead', alert')
  PROVE  ChatInv'
<1>1. ChatShape'
  BY DEF ChatInv, ChatShape
<1>2. ASSUME NEW u \in Turns PROVE ChatTurnSound(step[u], webLead, alert)'
  <2>1. step[u] \in ChatSteps /\ ChatTurnSound(step[u], webLead, alert)
    BY DEF ChatInv, ChatShape
  <2>. QED  BY <2>1 DEF ChatTurnSound, TalkSound, RowsKept, ChatSteps
<1>3. TalkSound(talk, webLead)'
  BY DEF ChatInv, TalkSound, RowsKept
<1>. QED  BY <1>1, <1>2, <1>3 DEF ChatInv

-----------------------------------------------------------------------------
\* Every way prepare may go on from a sound state leaves one.
Looked == [units : SUBSET Homes, searched : BOOLEAN, state : Talks]
SoundResults == {r \in Looked : TalkSound(r.state, webLead)}
SoundTalks == {s \in Talks : TalkSound(s, webLead)}

\* What leaves selection, candidates and stage alone keeps a state sound.
LEMMA ToldSound ==
  ASSUME NEW s \in SoundTalks, NEW next \in Talks, next.selected = s.selected,
         next.candidates = s.candidates, next.picked = s.picked, next.stage = s.stage
  PROVE  next \in SoundTalks
  BY DEF SoundTalks, TalkSound, Chosen

LEMMA GatheredSound ==
  ASSUME NEW m \in Sayings, NEW s \in SoundTalks
  PROVE  Gathered(m, s) \in SoundTalks
<1> DEFINE pays == s.pays \/ (m.kind = "PAY" /\ m.unit = Absent)
           channel == s.channel \/ (m.kind = "CHANNEL" /\ s.stage = "CONFIRMATION")
           keen == s.keen \/ Intent(m, s) \in {"VIEWING_REQUEST", "CONTACT_REQUEST"}
           closed == s.closed \/ Intent(m, s) = "OUT_OF_DOMAIN"
           phone == IF m.phone # Absent THEN m.phone ELSE s.phone
           name == IF m.phone # Absent THEN (IF m.sound THEN "sound" ELSE "odd") ELSE s.name
<1>1. s \in Talks
  BY DEF SoundTalks
<1>2. pays \in BOOLEAN /\ channel \in BOOLEAN /\ keen \in BOOLEAN /\ closed \in BOOLEAN
  OBVIOUS
<1>3. phone \in Numbers \cup {Absent}
  BY <1>1, SayingTyped DEF Talks
<1>4. name \in {"sound", "odd", Absent}
  BY <1>1 DEF Talks
<1>5. Gathered(m, s) = [s EXCEPT !.pays = pays, !.channel = channel, !.keen = keen, !.closed = closed,
                                 !.phone = phone, !.name = name]
  BY <1>1 DEF Gathered
<1> HIDE DEF pays, channel, keen, closed, phone, name
<1>6. Gathered(m, s) \in Talks
  BY <1>1, <1>2, <1>3, <1>4, <1>5 DEF Talks
<1>7. /\ Gathered(m, s).selected = s.selected /\ Gathered(m, s).candidates = s.candidates
      /\ Gathered(m, s).picked = s.picked /\ Gathered(m, s).stage = s.stage
  BY <1>1, <1>5 DEF Talks
<1>. QED  BY <1>6, <1>7, ToldSound

LEMMA SelectSound ==
  ASSUME NEW s \in SoundTalks, NEW u \in Homes
  PROVE  Select(s, u) \in SoundTalks
<1>1. Select(s, u) \in Talks
  BY DEF Select, Talks, SoundTalks
<1>. QED  BY <1>1 DEF SoundTalks, Select, TalkSound, Chosen, Talks

LEMMA OfferedSound ==
  ASSUME NEW s \in SoundTalks, NEW o \in {"CONTACT", "CARDS", "WIDEN", "BROCHURE", Absent}
  PROVE  [s EXCEPT !.offered = o] \in SoundTalks
<1>1. [s EXCEPT !.offered = o] \in Talks
  BY DEF Talks, SoundTalks
<1>. QED  BY <1>1 DEF SoundTalks, TalkSound, Chosen, Talks

LEMMA ResultSound ==
  ASSUME NEW s \in SoundTalks, NEW units \in SUBSET Homes
  PROVE  Result(units, s) \in SoundResults
  BY DEF Result, SoundResults, Looked, SoundTalks

LEMMA PlainSound ==
  ASSUME NEW s \in SoundTalks
  PROVE  Plain(s) \subseteq SoundResults
  BY ResultSound DEF Plain

LEMMA ExactUnitSound ==
  ASSUME NEW m \in Sayings, NEW s \in SoundTalks, m.unit \in Homes
  PROVE  ExactUnit(m, s) \subseteq SoundResults
<1>1. Result({m.unit}, [Select(s, m.unit) EXCEPT !.offered = Absent]) \in SoundResults
  BY SelectSound, OfferedSound, ResultSound
<1>2. ASSUME NEW c \in SUBSET (Homes \ {m.unit})
      PROVE  Result(c, IF c = {} THEN s ELSE
               [s EXCEPT !.selected = Absent, !.candidates = c, !.picked = {}, !.offered = Absent]) \in SoundResults
  <2> DEFINE next == [s EXCEPT !.selected = Absent, !.candidates = c, !.picked = {}, !.offered = Absent]
  <2>1. next \in Talks
    BY DEF Talks, SoundTalks
  <2>2. next \in SoundTalks
    BY <2>1 DEF SoundTalks, TalkSound, Chosen, Talks
  <2>. QED  BY <2>2, ResultSound
<1>. QED  BY <1>1, <1>2 DEF ExactUnit

LEMMA ContextualTyped ==
  ASSUME NEW s \in SoundTalks, ChatShape
  PROVE  Contextual(s) \in SUBSET Homes
  BY DEF Contextual, SoundTalks, Talks, ChatShape

LEMMA ContextUnitSound ==
  ASSUME NEW s \in SoundTalks, ChatShape
  PROVE  ContextUnit(s) \subseteq SoundResults
<1>1. ASSUME NEW u \in Contextual(s)
      PROVE  Result({u}, [Select(s, u) EXCEPT !.offered = Absent]) \in SoundResults
  BY ContextualTyped, SelectSound, OfferedSound, ResultSound
<1>2. Result({}, s) \in SoundResults
  BY ResultSound
<1>. QED  BY <1>1, <1>2 DEF ContextUnit

LEMMA PaymentPlanSound ==
  ASSUME NEW m \in Sayings, NEW s \in SoundTalks, ChatShape
  PROVE  PaymentPlan(m, s) \subseteq SoundResults
<1> DEFINE units == IF m.unit # Absent THEN {m.unit} ELSE Contextual(s)
           only == CHOOSE u \in units : TRUE
<1>1. units \in SUBSET Homes
  BY SayingTyped, ContextualTyped
<1>2. CASE Cardinality(units) = 1
  <2>1. units # {}
    BY <1>2, FS_EmptySet
  <2>2. only \in Homes
    BY <1>1, <2>1
  <2>3. Result(units, Select(s, only)) \in SoundResults
    BY <1>1, <2>2, SelectSound, ResultSound
  <2>. QED  BY <1>2, <2>3 DEF PaymentPlan
<1>3. CASE Cardinality(units) # 1
  <2>1. Result(units, s) \in SoundResults
    BY <1>1, ResultSound
  <2>. QED  BY <1>3, <2>1 DEF PaymentPlan
<1>. QED  BY <1>2, <1>3

LEMMA SearchUnitsSound ==
  ASSUME NEW m \in Sayings, NEW s \in SoundTalks
  PROVE  SearchUnits(m, s) \subseteq SoundResults
<1> SUFFICES ASSUME NEW hit \in SUBSET Homes
             PROVE  [units |-> hit, searched |-> TRUE,
                     state |-> Searched(s, hit, EmitsCards(m, s))] \in SoundResults
  BY DEF SearchUnits
<1>1. Searched(s, hit, EmitsCards(m, s)) \in Talks
  BY DEF Searched, Talks, SoundTalks
<1>2. TalkSound(Searched(s, hit, EmitsCards(m, s)), webLead)
  BY DEF Searched, SoundTalks, TalkSound, Chosen, Talks
<1>. QED  BY <1>1, <1>2 DEF SoundResults, Looked

LEMMA LookUpsSound ==
  ASSUME NEW m \in Sayings, NEW s \in SoundTalks, ChatShape
  PROVE  LookUps(m, s) \subseteq SoundResults
<1> DEFINE next == Gathered(m, s)
<1>1. next \in SoundTalks
  BY GatheredSound
<1> HIDE DEF next
<1>2. Plain(next) \subseteq SoundResults /\ ProjectFacts(next) \subseteq SoundResults
  BY <1>1, PlainSound DEF ProjectFacts
<1>3. m.unit # Absent => ExactUnit(m, next) \subseteq SoundResults
  BY <1>1, SayingTyped, ExactUnitSound
<1>4. ContextUnit(next) \subseteq SoundResults
  BY <1>1, ContextUnitSound
<1>5. PaymentPlan(m, next) \subseteq SoundResults
  BY <1>1, PaymentPlanSound
<1>6. SearchUnits(m, next) \subseteq SoundResults
  BY <1>1, SearchUnitsSound
<1>7. ASSUME NEW o \in {"BROCHURE", Absent} PROVE Plain([next EXCEPT !.offered = o]) \subseteq SoundResults
  BY <1>1, OfferedSound, PlainSound
<1>8. Plain(next) \cup (IF m.kind = "YES" THEN {}
         ELSE UNION {Plain([next EXCEPT !.offered = o]) : o \in {"BROCHURE", Absent}}) \subseteq SoundResults
  BY <1>2, <1>7
<1>. QED  BY <1>2, <1>3, <1>4, <1>5, <1>6, <1>8 DEF LookUps, next
-----------------------------------------------------------------------------
\* What handleLeadCapture decides on sound states can be carried out.
CaptureOutcomes == {o \in ChatSteps : o.at \in {"finish", "alert", "lead"} /\ ChatTurnSound(o, webLead, alert)}

LEMMA NoStepTyped == NoStep \in ChatSteps /\ \A leads, alerts : ChatTurnSound(NoStep, leads, alerts)
  BY DEF NoStep, ChatSteps, ChatTurnSound

LEMMA AskSound ==
  ASSUME NEW s \in SoundTalks, NEW stage \in {"PAYMENT", "IDENTITY"}
  PROVE  Ask(s, stage) \in SoundTalks
<1>1. Ask(s, stage) \in Talks
  BY DEF Ask, Talks, SoundTalks, HandoffStages
<1>. QED  BY <1>1 DEF Ask, SoundTalks, TalkSound, Chosen, Talks

LEMMA RecalledSound ==
  ASSUME NEW s \in SoundTalks, NEW l \in WebLeads \cup {Absent}, l # Absent => webLead[l] # Absent, ChatShape
  PROVE  Recalled(s, l) \in SoundTalks
<1>1. CASE l = Absent
  BY <1>1 DEF Recalled
<1>2. CASE l # Absent
  <2>1. s \in Talks /\ webLead[l] \in WebLeadRows
    BY <1>2 DEF ChatShape, SoundTalks
  <2> DEFINE phone == IF s.phone = Absent THEN webLead[l].phone ELSE s.phone
             name == IF s.name = Absent THEN "sound" ELSE s.name
             channel == s.channel \/ webLead[l].channel
             pays == s.pays \/ webLead[l].pays
  <2>a. Recalled(s, l) = [s EXCEPT !.phone = phone, !.name = name, !.channel = channel, !.pays = pays]
    BY <1>2, <2>1 DEF Recalled, Talks
  <2>b. phone \in Numbers \cup {Absent} /\ name \in {"sound", "odd", Absent}
    BY <2>1 DEF Talks, WebLeadRows
  <2>c. channel \in BOOLEAN /\ pays \in BOOLEAN
    OBVIOUS
  <2> HIDE DEF phone, name, channel, pays
  <2>2. Recalled(s, l) \in Talks
    BY <2>1, <2>a, <2>b, <2>c DEF Talks
  <2>3. /\ Recalled(s, l).selected = s.selected /\ Recalled(s, l).candidates = s.candidates
        /\ Recalled(s, l).picked = s.picked /\ Recalled(s, l).stage = s.stage
    BY <1>2, <2>1 DEF Recalled, Talks
  <2>. QED  BY <2>2, <2>3, ToldSound
<1>. QED  BY <1>1, <1>2

LEMMA FinishOutcome ==
  ASSUME NEW s \in SoundTalks
  PROVE  [NoStep EXCEPT !.at = "finish", !.state = s] \in CaptureOutcomes
<1> USE ChatAssumption
<1>1. [NoStep EXCEPT !.at = "finish", !.state = s] \in ChatSteps
  BY DEF NoStep, ChatSteps, SoundTalks
<1>. QED  BY <1>1 DEF CaptureOutcomes, ChatTurnSound, NoStep, SoundTalks

LEMMA LeadOutcome ==
  ASSUME NEW s \in SoundTalks, s.phone # Absent, NEW l \in WebLeads \cup {Absent},
         l # Absent => webLead[l] # Absent, ChatShape
  PROVE  [NoStep EXCEPT !.at = "lead", !.state = s, !.lead = l,
                        !.row = IF l = Absent THEN Absent ELSE webLead[l]] \in CaptureOutcomes
<1> DEFINE row == IF l = Absent THEN Absent ELSE webLead[l]
           next == [NoStep EXCEPT !.at = "lead", !.state = s, !.lead = l, !.row = row]
<1>1. row \in WebLeadRows \cup {Absent} /\ (l # Absent => row # Absent)
  BY DEF ChatShape
<1> HIDE DEF row
<1>2. next \in ChatSteps
  BY <1>1 DEF NoStep, ChatSteps, SoundTalks
<1>3. ChatTurnSound(next, webLead, alert)
  BY <1>1 DEF ChatTurnSound, NoStep, SoundTalks
<1>4. next.at = "lead"
  BY DEF NoStep
<1>. QED  BY <1>2, <1>3, <1>4 DEF CaptureOutcomes, row

LEMMA AlertOutcome ==
  ASSUME NEW s \in SoundTalks, NEW l \in WebLeads \cup {Absent}, l # Absent => webLead[l] # Absent,
         NEW phone \in Numbers \cup {Absent}, NEW n \in AnOpenAlert
  PROVE  [NoStep EXCEPT !.at = "alert", !.state = s, !.lead = l, !.claims = phone, !.open = n] \in CaptureOutcomes
<1> DEFINE next == [NoStep EXCEPT !.at = "alert", !.state = s, !.lead = l, !.claims = phone, !.open = n]
<1>1. n \in Alerts \cup {Absent} /\ (n # Absent => alert[n] # Absent)
  BY DEF AnOpenAlert, OpenAlerts
<1>2. next \in ChatSteps
  BY <1>1 DEF NoStep, ChatSteps, SoundTalks
<1>3. ChatTurnSound(next, webLead, alert)
  BY <1>1 DEF ChatTurnSound, NoStep, SoundTalks
<1>4. next.at = "alert"
  BY DEF NoStep
<1>. QED  BY <1>2, <1>3, <1>4 DEF CaptureOutcomes

LEMMA CaptureSound ==
  ASSUME NEW m \in Sayings, NEW p \in SoundTalks, NEW s \in SoundTalks,
         NEW l \in WebLeads \cup {Absent}, l # Absent => webLead[l] # Absent, ChatShape
  PROVE  Capture(m, p, s, l) \subseteq CaptureOutcomes
<1> DEFINE intent == Intent(m, p)
           leadTurn == intent \in {"VIEWING_REQUEST", "CONTACT_REQUEST"}
           unit == IF s.selected # Absent THEN s.selected ELSE p.selected
           asked == [s EXCEPT !.pays = @ \/ (unit # Absent /\ unit \notin BothWays)]
           past == IF asked.pays /\ p.stage = "PAYMENT" THEN Ask(asked, "IDENTITY") ELSE asked
           identified == p.stage = "IDENTITY"
           contact == m.phone # Absent
           assessed == /\ l = Absent \/ contact
                       /\ identified \/ (leadTurn /\ (unit # Absent \/ intent = "CONTACT_REQUEST"))
           reply(state) == {[NoStep EXCEPT !.at = "finish", !.state = state]}
           taken == {[NoStep EXCEPT !.at = "lead", !.state = past, !.lead = l,
                                   !.row = IF l = Absent THEN Absent ELSE webLead[l]]}
           goOn == IF l = Absent /\ past.keen /\ ~(past.phone # Absent /\ past.name # Absent)
                      /\ (unit # Absent \/ intent = "CONTACT_REQUEST")
                   THEN reply(Ask(past, "IDENTITY"))
                   ELSE IF past.phone # Absent /\ past.name # Absent /\ (l # Absent \/ past.keen)
                   THEN taken ELSE reply(past)
           back == Ask([past EXCEPT !.phone = IF l = Absent THEN @ ELSE webLead[l].phone,
                                    !.name = IF l # Absent THEN "sound" ELSE IF @ = "odd" THEN Absent ELSE @],
                       "IDENTITY")
           alerts == {[NoStep EXCEPT !.at = "alert", !.state = back, !.lead = l,
                                     !.claims = past.phone, !.open = n] : n \in AnOpenAlert}
<1>1. asked \in SoundTalks
  <2>1. s \in Talks
    BY DEF SoundTalks
  <2>2. asked \in Talks
    BY <2>1 DEF Talks
  <2>3. /\ asked.selected = s.selected /\ asked.candidates = s.candidates
        /\ asked.picked = s.picked /\ asked.stage = s.stage
    BY <2>1 DEF Talks
  <2>. QED  BY <2>2, <2>3, ToldSound
<1> HIDE DEF asked
<1>2. past \in SoundTalks
  BY <1>1, AskSound
<1> HIDE DEF past
<1>3. \A state \in SoundTalks : reply(state) \subseteq CaptureOutcomes
  BY FinishOutcome
<1>4. past.phone # Absent => taken \subseteq CaptureOutcomes
  BY <1>2, LeadOutcome
<1> HIDE DEF taken, reply
<1>5. Ask(past, "IDENTITY") \in SoundTalks /\ Ask(s, "PAYMENT") \in SoundTalks
  BY <1>2, AskSound
<1>6. goOn \subseteq CaptureOutcomes
  BY <1>2, <1>3, <1>4, <1>5
<1>7. back \in SoundTalks
  <2> DEFINE told == [past EXCEPT !.phone = IF l = Absent THEN @ ELSE webLead[l].phone,
                                  !.name = IF l # Absent THEN "sound" ELSE IF @ = "odd" THEN Absent ELSE @]
  <2>1. past \in Talks /\ (l # Absent => webLead[l].phone \in Numbers)
    BY <1>2 DEF SoundTalks, ChatShape, WebLeadRows
  <2>2. told \in Talks
    BY <2>1 DEF Talks
  <2>3. /\ told.selected = past.selected /\ told.candidates = past.candidates
        /\ told.picked = past.picked /\ told.stage = past.stage
    BY <2>1 DEF Talks
  <2> HIDE DEF told
  <2>4. told \in SoundTalks
    BY <1>2, <2>2, <2>3, ToldSound
  <2>5. Ask(told, "IDENTITY") \in SoundTalks
    BY <2>4, AskSound
  <2>. QED  BY <2>5 DEF told
<1> HIDE DEF back
<1>8. alerts \subseteq CaptureOutcomes
  <2>1. past.phone \in Numbers \cup {Absent}
    BY <1>2 DEF SoundTalks, Talks
  <2>2. ASSUME NEW n \in AnOpenAlert
        PROVE  [NoStep EXCEPT !.at = "alert", !.state = back, !.lead = l,
                              !.claims = past.phone, !.open = n] \in CaptureOutcomes
    BY <1>7, <2>1, AlertOutcome
  <2>. QED  BY <2>2
<1>9. [s EXCEPT !.offered = IF p.candidates # {} THEN "CARDS" ELSE Absent] \in SoundTalks
  BY OfferedSound
<1> HIDE DEF goOn, alerts
<1>10. UNION {IF (identified \/ contact) /\ ~a.valid
               THEN IF a.alarming THEN alerts ELSE reply(back)
               ELSE goOn : a \in Assessment(past)} \subseteq CaptureOutcomes
  BY <1>3, <1>6, <1>7, <1>8
<1>. QED  BY <1>1, <1>2, <1>3, <1>5, <1>6, <1>9, <1>10
     DEF Capture, asked, past, reply, taken, goOn, back, alerts
-----------------------------------------------------------------------------
\* The steps of a turn.

LEMMA AtWork ==
  ASSUME ChatInv, NEW t \in Turns
  PROVE  /\ step[t] \in ChatSteps /\ ChatTurnSound(step[t], webLead, alert)
         /\ step[t].at # "idle" => step[t].state \in SoundTalks
         /\ talk \in SoundTalks
  BY DEF ChatInv, ChatShape, ChatTurnSound, SoundTalks

LEMMA PrepareInv ==
  ASSUME NEW t \in Turns, NEW m \in Sayings, ChatInv, Prepare(t, m)
  PROVE  ChatInv'
<1> USE ChatAssumption
<1>1. PICK r \in LookUps(m, talk) :
        LET turn == [NoStep EXCEPT !.at = "capture", !.msg = m, !.prior = talk, !.state = r.state,
                                   !.units = r.units, !.searched = r.searched]
        IN IF PassiveContact(m, talk)
           THEN \E a \in Assessment(Gathered(m, talk)), n \in AnOpenAlert :
                  MoveTo(t, IF a.valid \/ ~a.alarming THEN turn
                            ELSE [turn EXCEPT !.claims = m.phone, !.open = n])
           ELSE MoveTo(t, turn)
  BY DEF Prepare
<1> DEFINE turn == [NoStep EXCEPT !.at = "capture", !.msg = m, !.prior = talk, !.state = r.state,
                                  !.units = r.units, !.searched = r.searched]
           claiming(n) == [turn EXCEPT !.claims = m.phone, !.open = n]
<1>2. r \in SoundResults /\ talk \in SoundTalks /\ talk \in Talks
  BY <1>1, AtWork, LookUpsSound DEF ChatInv, ChatShape
<1>3. turn \in ChatSteps
  BY <1>2 DEF NoStep, ChatSteps, SoundResults, Looked
<1>4. ChatTurnSound(turn, webLead, alert)
  BY <1>2 DEF ChatTurnSound, NoStep, SoundResults, SoundTalks, Looked
<1>5. ASSUME NEW n \in AnOpenAlert
      PROVE  claiming(n) \in ChatSteps /\ ChatTurnSound(claiming(n), webLead, alert)
  <2>1. n \in Alerts \cup {Absent} /\ (n # Absent => alert[n] # Absent)
    BY DEF AnOpenAlert, OpenAlerts
  <2>2. claiming(n) \in ChatSteps
    BY <1>3, <2>1, SayingTyped DEF ChatSteps
  <2>3. ChatTurnSound(claiming(n), webLead, alert)
    BY <1>3, <1>4, <2>1 DEF ChatTurnSound, ChatSteps
  <2>. QED  BY <2>2, <2>3
<1> HIDE DEF turn, claiming
<1>6. PICK j \in ChatSteps : ChatTurnSound(j, webLead, alert) /\ step' = [step EXCEPT ![t] = j]
  BY <1>1, <1>3, <1>4, <1>5 DEF MoveTo, turn, claiming
<1>7. UNCHANGED <<talk, suggested, webLead, alert>>
  BY DEF Prepare
<1>. QED  BY <1>6, <1>7, OneStep DEF ChatInv, ChatShape, RowsKept

LEMMA RecordAlertSound ==
  ASSUME ChatInv, NEW hit \in Alerts \cup {Absent}, hit # Absent => alert[hit] # Absent,
         NEW about \in WebLeads \cup {Absent}, about # Absent => webLead[about] # Absent,
         NEW phone \in Numbers \cup {Absent}, RecordAlert(hit, about, phone), webLead' = webLead
  PROVE  alert' \in [Alerts -> AlertRows \cup {Absent}] /\ RowsKept /\ AlertsRefer(webLead', alert')
<1> USE ChatAssumption
<1>1. alert \in [Alerts -> AlertRows \cup {Absent}] /\ AlertsRefer(webLead, alert)
  BY DEF ChatInv, ChatShape
<1>2. CASE hit # Absent
  <2> DEFINE row == [alert[hit] EXCEPT !.phone = phone, !.lead = about]
  <2>1. alert[hit] \in AlertRows
    BY <1>1, <1>2
  <2>2. row \in AlertRows /\ row.lead = about
    BY <2>1 DEF AlertRows
  <2>3. alert' = [alert EXCEPT ![hit] = row]
    BY <1>1, <1>2, <2>1 DEF RecordAlert, AlertRows
  <2> HIDE DEF row
  <2>. QED  BY <1>1, <1>2, <2>2, <2>3 DEF AlertsRefer, RowsKept
<1>3. CASE hit = Absent /\ \E n \in Alerts : alert[n] = Absent
         /\ alert' = [alert EXCEPT ![n] = [phone |-> phone, lead |-> about, status |-> "OPEN"]]
  <2>1. PICK n \in Alerts : /\ alert[n] = Absent
          /\ alert' = [alert EXCEPT ![n] = [phone |-> phone, lead |-> about, status |-> "OPEN"]]
    BY <1>3
  <2>2. [phone |-> phone, lead |-> about, status |-> "OPEN"] \in AlertRows
    BY DEF AlertRows
  <2>. QED  BY <1>1, <2>1, <2>2 DEF AlertsRefer, RowsKept
<1>4. CASE UNCHANGED alert
  BY <1>1, <1>4 DEF RowsKept
<1>. QED  BY <1>2, <1>3, <1>4 DEF RecordAlert

LEMMA PassiveAlertInv ==
  ASSUME NEW t \in Turns, ChatInv, PassiveAlert(t)
  PROVE  ChatInv'
<1> USE ChatAssumption
<1> DEFINE next == [step[t] EXCEPT !.claims = Absent, !.open = Absent]
<1>1. step[t] \in ChatSteps /\ ChatTurnSound(step[t], webLead, alert) /\ step[t].at = "capture"
  BY AtWork DEF PassiveAlert
<1>2. next \in ChatSteps /\ next.lead = step[t].lead
  BY <1>1 DEF ChatSteps
<1>3. UNCHANGED <<talk, suggested, webLead>> /\ step' = [step EXCEPT ![t] = next]
  BY DEF PassiveAlert, MoveTo
<1>4. alert' \in [Alerts -> AlertRows \cup {Absent}] /\ RowsKept /\ AlertsRefer(webLead', alert')
  BY <1>1, <1>3, RecordAlertSound DEF PassiveAlert, ChatTurnSound, ChatSteps
<1>5. ChatTurnSound(next, webLead', alert')
  BY <1>1, <1>3 DEF ChatTurnSound, ChatSteps
<1> HIDE DEF next
<1>. QED  BY <1>2, <1>3, <1>4, <1>5, OneStep DEF ChatInv, ChatShape

LEMMA HandleLeadCaptureInv ==
  ASSUME NEW t \in Turns, ChatInv, HandleLeadCapture(t)
  PROVE  ChatInv'
<1> USE ChatAssumption
<1> DEFINE turn == step[t]
           handled == \/ Intent(turn.msg, turn.prior) \in {"VIEWING_REQUEST", "CONTACT_REQUEST"}
                      \/ turn.prior.stage \in HandoffStages
           s(l) == IF handled THEN Recalled(turn.state, l) ELSE turn.state
<1>1. PICK l \in IF OpenWebLeads = {} THEN {Absent} ELSE OpenWebLeads :
        \E outcome \in Capture(turn.msg, turn.prior, s(l), l) :
          MoveTo(t, [outcome EXCEPT !.units = turn.units, !.searched = turn.searched])
  BY DEF HandleLeadCapture
<1>2. l \in WebLeads \cup {Absent} /\ (l # Absent => webLead[l] # Absent)
  BY <1>1 DEF OpenWebLeads
<1>3. /\ turn \in ChatSteps /\ turn.state \in SoundTalks
      /\ turn.msg \in Sayings /\ turn.prior \in SoundTalks
  BY AtWork DEF HandleLeadCapture, ChatTurnSound, SoundTalks
<1>4. s(l) \in SoundTalks
  BY <1>2, <1>3, RecalledSound DEF ChatInv
<1> HIDE DEF s
<1>5. Capture(turn.msg, turn.prior, s(l), l) \subseteq CaptureOutcomes
  BY <1>2, <1>3, <1>4, CaptureSound DEF ChatInv
<1>6. PICK o \in CaptureOutcomes : MoveTo(t, [o EXCEPT !.units = turn.units, !.searched = turn.searched])
  BY <1>1, <1>5
<1> DEFINE next == [o EXCEPT !.units = turn.units, !.searched = turn.searched]
<1>7. next \in ChatSteps
  BY <1>3 DEF ChatSteps, CaptureOutcomes
<1>8. ChatTurnSound(next, webLead, alert)
  BY <1>3 DEF ChatTurnSound, ChatSteps, CaptureOutcomes
<1>9. step' = [step EXCEPT ![t] = next] /\ UNCHANGED <<talk, suggested, webLead, alert>>
  BY <1>6 DEF HandleLeadCapture, MoveTo
<1> HIDE DEF next
<1>. QED  BY <1>7, <1>8, <1>9, OneStep DEF ChatInv, ChatShape, RowsKept

LEMMA IdentityAlertInv ==
  ASSUME NEW t \in Turns, ChatInv, IdentityAlert(t)
  PROVE  ChatInv'
<1> USE ChatAssumption
<1> DEFINE next == [step[t] EXCEPT !.at = "finish", !.claims = Absent, !.open = Absent, !.lead = Absent]
<1>1. step[t] \in ChatSteps /\ ChatTurnSound(step[t], webLead, alert) /\ step[t].at = "alert"
  BY AtWork DEF IdentityAlert
<1>2. next \in ChatSteps
  BY <1>1 DEF ChatSteps
<1>3. UNCHANGED <<talk, suggested, webLead>> /\ step' = [step EXCEPT ![t] = next]
  BY DEF IdentityAlert, MoveTo
<1>4. alert' \in [Alerts -> AlertRows \cup {Absent}] /\ RowsKept /\ AlertsRefer(webLead', alert')
  BY <1>1, <1>3, RecordAlertSound DEF IdentityAlert, ChatTurnSound, ChatSteps
<1>5. ChatTurnSound(next, webLead', alert')
  BY <1>1, <1>3 DEF ChatTurnSound, ChatSteps
<1> HIDE DEF next
<1>. QED  BY <1>2, <1>3, <1>4, <1>5, OneStep DEF ChatInv, ChatShape

LEMMA WriteLeadInv ==
  ASSUME NEW t \in Turns, ChatInv, WriteLead(t)
  PROVE  ChatInv'
<1> USE ChatAssumption
<1> DEFINE turn == step[t]
           s == turn.state
           new == [phone |-> s.phone, unit |-> s.selected, channel |-> s.channel, pays |-> s.pays,
                   trust |-> IF Locked(turn.row) THEN turn.row.trust ELSE "CONTACT_VALID", open |-> TRUE]
           told == [s EXCEPT !.stage = IF s.channel THEN "COMPLETE" ELSE "CONFIRMATION",
                             !.offered = IF s.channel THEN Absent ELSE "CONTACT"]
<1>1. PICK l \in IF turn.lead # Absent THEN {turn.lead} ELSE {w \in WebLeads : webLead[w] = Absent} :
       /\ webLead' = [webLead EXCEPT ![l] = IF turn.lead = Absent THEN new ELSE [new EXCEPT !.open = webLead[l].open]]
       /\ MoveTo(t, [turn EXCEPT !.at = "resolve", !.lead = l, !.row = Absent, !.state = told])
  BY DEF WriteLead
<1>2. /\ turn \in ChatSteps /\ ChatTurnSound(turn, webLead, alert) /\ turn.at = "lead" /\ s \in Talks /\ Chosen(s)
      /\ s.phone \in Numbers
  BY AtWork DEF WriteLead, ChatTurnSound, TalkSound, Talks
<1>3. l \in WebLeads /\ (turn.lead # Absent => webLead[l] \in WebLeadRows)
  BY <1>1, <1>2 DEF ChatSteps, ChatInv, ChatShape, ChatTurnSound
<1> DEFINE trust == IF Locked(turn.row) THEN turn.row.trust ELSE "CONTACT_VALID"
           row == IF turn.lead = Absent THEN new ELSE [new EXCEPT !.open = webLead[l].open]
<1>4. trust \in Verdicts \cup {"CONTACT_VALID", "NEEDS_VERIFICATION"}
  BY DEF Locked
<1> HIDE DEF trust
<1>5. new \in WebLeadRows
  BY <1>2, <1>4 DEF WebLeadRows, Talks, trust
<1> HIDE DEF new
<1>6. row \in WebLeadRows
  BY <1>3, <1>5 DEF WebLeadRows
<1>7. webLead' = [webLead EXCEPT ![l] = row] /\ UNCHANGED <<talk, suggested, alert>>
  BY <1>1 DEF WriteLead
<1> HIDE DEF row
<1>8. webLead' \in [WebLeads -> WebLeadRows \cup {Absent}] /\ RowsKept /\ webLead'[l] # Absent
  BY <1>3, <1>6, <1>7 DEF ChatInv, ChatShape, RowsKept
<1>9. AlertsRefer(webLead', alert') /\ TalkSound(talk', webLead')
  <2>1. \A n \in Alerts : alert[n] # Absent /\ alert[n].lead # Absent => alert[n].lead \in WebLeads
    BY DEF ChatInv, ChatShape, AlertRows
  <2>2. AlertsRefer(webLead', alert')
    BY <1>7, <1>8, <2>1 DEF ChatInv, AlertsRefer, RowsKept
  <2>3. TalkSound(talk', webLead')
    BY <1>7, <1>8 DEF ChatInv, TalkSound, RowsKept
  <2>. QED  BY <2>2, <2>3
<1>10. told \in Talks /\ told.selected = s.selected /\ told.candidates = s.candidates /\ told.picked = s.picked
  BY <1>2 DEF Talks, HandoffStages
<1>11. TalkSound(told, webLead')
  BY <1>2, <1>3, <1>8, <1>10 DEF TalkSound, Chosen
<1> DEFINE next == [turn EXCEPT !.at = "resolve", !.lead = l, !.row = Absent, !.state = told]
<1> HIDE DEF told
<1>12. next \in ChatSteps
  BY <1>2, <1>3, <1>10 DEF ChatSteps
<1>13. ChatTurnSound(next, webLead', alert')
  BY <1>2, <1>3, <1>7, <1>8, <1>10, <1>11 DEF ChatTurnSound, ChatSteps
<1>14. step' = [step EXCEPT ![t] = next]
  BY <1>1 DEF MoveTo
<1> HIDE DEF next
<1>. QED  BY <1>7, <1>8, <1>9, <1>12, <1>13, <1>14, OneStep DEF ChatInv, ChatShape

LEMMA ResolveOpenAlertsInv ==
  ASSUME NEW t \in Turns, ChatInv, ResolveOpenAlerts(t)
  PROVE  ChatInv'
<1> USE ChatAssumption
<1> DEFINE turn == step[t]
           next == [turn EXCEPT !.at = "finish", !.lead = Absent]
<1>1. /\ turn \in ChatSteps /\ ChatTurnSound(turn, webLead, alert) /\ turn.at = "resolve" /\ turn.state \in SoundTalks
      /\ turn.lead \in WebLeads /\ webLead[turn.lead] # Absent
  BY AtWork DEF ResolveOpenAlerts, ChatTurnSound, ChatSteps
<1>2. next \in ChatSteps
  BY <1>1 DEF ChatSteps
<1>3. /\ step' = [step EXCEPT ![t] = next] /\ UNCHANGED <<suggested, webLead>> /\ talk' = turn.state
      /\ alert' = [n \in Alerts |-> IF n \in OpenAlerts
                                    THEN [alert[n] EXCEPT !.status = "AUTO_RESOLVED", !.lead = turn.lead]
                                    ELSE alert[n]]
  BY DEF ResolveOpenAlerts, MoveTo
<1>4. ASSUME NEW n \in Alerts
      PROVE  /\ alert'[n] \in AlertRows \cup {Absent} /\ (alert[n] # Absent => alert'[n] # Absent)
             /\ alert'[n] # Absent /\ alert'[n].lead # Absent => webLead[alert'[n].lead] # Absent
  <2>1. CASE n \in OpenAlerts
    <3>1. alert[n] \in AlertRows
      BY <2>1 DEF OpenAlerts, ChatInv, ChatShape
    <3>2. alert'[n] = [alert[n] EXCEPT !.status = "AUTO_RESOLVED", !.lead = turn.lead]
      BY <1>3, <2>1
    <3>. QED  BY <1>1, <3>1, <3>2 DEF AlertRows
  <2>2. CASE n \notin OpenAlerts
    BY <1>3, <2>2 DEF ChatInv, ChatShape, AlertsRefer
  <2>. QED  BY <2>1, <2>2
<1>5. alert' \in [Alerts -> AlertRows \cup {Absent}] /\ RowsKept /\ AlertsRefer(webLead', alert')
  BY <1>3, <1>4 DEF RowsKept, AlertsRefer
<1>6. ChatTurnSound(next, webLead', alert')
  BY <1>1, <1>3, <1>5 DEF ChatTurnSound, ChatSteps, RowsKept
<1> HIDE DEF next
<1>. QED  BY <1>1, <1>2, <1>3, <1>5, <1>6, OneStep DEF ChatInv, ChatShape, SoundTalks

LEMMA FinishPreparationInv ==
  ASSUME NEW t \in Turns, ChatInv, FinishPreparation(t)
  PROVE  ChatInv'
<1>1. step[t] \in ChatSteps /\ step[t].state \in SoundTalks
  BY AtWork DEF FinishPreparation
<1>2. step' = [step EXCEPT ![t] = NoStep] /\ UNCHANGED <<webLead, alert>> /\ talk' = step[t].state
  BY DEF FinishPreparation, MoveTo
<1>3. suggested' \in SUBSET Homes
  BY <1>1 DEF FinishPreparation, ChatInv, ChatShape, ChatSteps
<1>. QED  BY <1>1, <1>2, <1>3, NoStepTyped, OneStep DEF ChatInv, ChatShape, RowsKept, SoundTalks

LEMMA TurnThrowsInv ==
  ASSUME NEW t \in Turns, ChatInv, TurnThrows(t)
  PROVE  ChatInv'
<1>1. step' = [step EXCEPT ![t] = NoStep] /\ UNCHANGED <<talk, suggested, webLead, alert>>
  BY DEF TurnThrows, MoveTo
<1>. QED  BY <1>1, NoStepTyped, OneStep DEF ChatInv, ChatShape, RowsKept

LEMMA ReviewTrustAlertInv ==
  ASSUME NEW n \in Alerts, NEW verdict \in Verdicts \cup {"RESOLVED"}, ChatInv, ReviewTrustAlert(n, verdict)
  PROVE  ChatInv'
<1> USE ChatAssumption
<1>1. alert[n] \in AlertRows
  BY DEF ReviewTrustAlert, ChatInv, ChatShape
<1>2. [alert[n] EXCEPT !.status = verdict] \in AlertRows /\ [alert[n] EXCEPT !.status = verdict].lead = alert[n].lead
  BY <1>1 DEF AlertRows
<1>3. alert' = [alert EXCEPT ![n] = [alert[n] EXCEPT !.status = verdict]]
  BY <1>1 DEF ReviewTrustAlert, ChatInv, ChatShape
<1>4. /\ alert' \in [Alerts -> AlertRows \cup {Absent}]
      /\ \A a \in Alerts : alert[a] # Absent => alert'[a] # Absent
      /\ \A a \in Alerts : alert'[a] # Absent => alert[a] # Absent /\ alert'[a].lead = alert[a].lead
  BY <1>1, <1>2, <1>3 DEF ChatInv, ChatShape
<1>5. /\ webLead' \in [WebLeads -> WebLeadRows \cup {Absent}]
      /\ \A l \in WebLeads : webLead[l] # Absent => webLead'[l] # Absent
  <2>1. CASE alert[n].lead = Absent
    BY <2>1 DEF ReviewTrustAlert, ChatInv, ChatShape
  <2>2. CASE alert[n].lead # Absent
    <3> DEFINE l == alert[n].lead
               trust == IF verdict \in Verdicts THEN verdict ELSE "NEEDS_VERIFICATION"
    <3>1. l \in WebLeads /\ webLead[l] \in WebLeadRows
      BY <1>1, <2>2 DEF ReviewTrustAlert, ChatInv, ChatShape, AlertsRefer, AlertRows
    <3>2. [webLead[l] EXCEPT !.trust = trust] \in WebLeadRows
      BY <3>1 DEF WebLeadRows
    <3>3. webLead' = [webLead EXCEPT ![l] = [webLead[l] EXCEPT !.trust = trust]]
      BY <2>2, <3>1 DEF ReviewTrustAlert, ChatInv, ChatShape
    <3>. QED  BY <3>1, <3>2, <3>3 DEF ChatInv, ChatShape
  <2>. QED  BY <2>1, <2>2
<1>6. AlertsRefer(webLead', alert')
  <2>1. \A a \in Alerts : alert[a] # Absent /\ alert[a].lead # Absent => alert[a].lead \in WebLeads
    BY DEF ChatInv, ChatShape, AlertRows
  <2>. QED  BY <1>4, <1>5, <2>1 DEF ChatInv, AlertsRefer
<1>7. UNCHANGED <<talk, suggested, step>>
  BY DEF ReviewTrustAlert
<1>. QED  BY <1>4, <1>5, <1>6, <1>7, OthersStep DEF RowsKept

LEMMA CloseLeadInv ==
  ASSUME NEW l \in WebLeads, ChatInv, CloseLead(l)
  PROVE  ChatInv'
<1> USE ChatAssumption
<1>1. webLead[l] \in WebLeadRows
  BY DEF CloseLead, OpenWebLeads, ChatInv, ChatShape
<1>2. [webLead[l] EXCEPT !.open = FALSE] \in WebLeadRows
  BY <1>1 DEF WebLeadRows
<1>3. webLead' = [webLead EXCEPT ![l] = [webLead[l] EXCEPT !.open = FALSE]]
  BY <1>1 DEF CloseLead, ChatInv, ChatShape
<1>4. webLead' \in [WebLeads -> WebLeadRows \cup {Absent}] /\ RowsKept
  BY <1>2, <1>3 DEF CloseLead, ChatInv, ChatShape, RowsKept
<1>5. UNCHANGED <<talk, suggested, alert, step>>
  BY DEF CloseLead
<1>6. AlertsRefer(webLead', alert')
  <2>1. \A a \in Alerts : alert[a] # Absent /\ alert[a].lead # Absent => alert[a].lead \in WebLeads
    BY DEF ChatInv, ChatShape, AlertRows
  <2>. QED  BY <1>4, <1>5, <2>1 DEF ChatInv, AlertsRefer, RowsKept
<1>. QED  BY <1>4, <1>5, <1>6, OthersStep DEF ChatInv, ChatShape

LEMMA ChatInvStep == ChatInv /\ [ChatNext]_chatVars => ChatInv'
<1> SUFFICES ASSUME ChatInv, [ChatNext]_chatVars PROVE ChatInv'
  OBVIOUS
<1>1. CASE UNCHANGED chatVars
  BY <1>1 DEF chatVars, ChatInv, ChatShape, TalkSound, AlertsRefer, ChatTurnSound
<1>2. ASSUME NEW t \in Turns, NEW m \in Sayings, Prepare(t, m) PROVE ChatInv'
  BY <1>2, PrepareInv
<1>3. ASSUME NEW t \in Turns, PassiveAlert(t) PROVE ChatInv'
  BY <1>3, PassiveAlertInv
<1>4. ASSUME NEW t \in Turns, HandleLeadCapture(t) PROVE ChatInv'
  BY <1>4, HandleLeadCaptureInv
<1>5. ASSUME NEW t \in Turns, IdentityAlert(t) PROVE ChatInv'
  BY <1>5, IdentityAlertInv
<1>6. ASSUME NEW t \in Turns, WriteLead(t) PROVE ChatInv'
  BY <1>6, WriteLeadInv
<1>7. ASSUME NEW t \in Turns, ResolveOpenAlerts(t) PROVE ChatInv'
  BY <1>7, ResolveOpenAlertsInv
<1>8. ASSUME NEW t \in Turns, FinishPreparation(t) PROVE ChatInv'
  BY <1>8, FinishPreparationInv
<1>9. ASSUME NEW t \in Turns, TurnThrows(t) PROVE ChatInv'
  BY <1>9, TurnThrowsInv
<1>10. ASSUME NEW n \in Alerts, NEW v \in Verdicts \cup {"RESOLVED"}, ReviewTrustAlert(n, v) PROVE ChatInv'
  BY <1>10, ReviewTrustAlertInv
<1>11. ASSUME NEW l \in WebLeads, CloseLead(l) PROVE ChatInv'
  BY <1>11, CloseLeadInv
<1>. QED  BY <1>1, <1>2, <1>3, <1>4, <1>5, <1>6, <1>7, <1>8, <1>9, <1>10, <1>11 DEF ChatNext

\* The inductive invariant: what the conversation's row, and the state every turn works on,
\* select is current, and whatever a turn or an alert refers to is there (chat.service.ts
\* prepare and finishPreparation, lead-handoff.service.ts handleLeadCapture).
THEOREM ChatInvariant == ChatSpec => []ChatInv
<1>. QED  BY ChatInvInit, ChatInvStep, PTL DEF ChatSpec

\* The rows of the first chat are rows, and refer to rows that exist, however turns overlap
\* and fail (schema of ConversationState, Lead, CustomerTrustAlert).
THEOREM ChatRowsRefer == ChatSpec => []ChatTyped
<1>1. ChatInv => ChatTyped
  BY DEF ChatInv, ChatShape, ChatTyped, TalkSound, AlertsRefer
<1>. QED  BY <1>1, ChatInvariant, PTL

\* The unit a viewing is arranged for is one of the last search or was chosen since
\* (customer-turn-planner.ts presentationAfterPropertySearch), with any number of turns that
\* overlap, throw, or hand a customer off in between.
THEOREM SelectionStaysCurrent == ChatSpec => []SelectedIsCurrent
<1>1. ChatInv => SelectedIsCurrent
  BY DEF ChatInv, TalkSound, Chosen, SelectedIsCurrent
<1>. QED  BY <1>1, ChatInvariant, PTL

\* What an admin decided about a lead stands against every turn that read the lead
\* afterwards (lead-handoff.service.ts adminLockedTrust).
THEOREM VerdictsStand == ChatSpec => VerdictStands
<1> DEFINE Stands(l) ==
       webLead[l] # Absent /\ webLead[l].trust \in Verdicts /\ webLead'[l].trust # webLead[l].trust
         => \/ \E n \in Alerts, v \in Verdicts \cup {"RESOLVED"} : ReviewTrustAlert(n, v)
            \/ \E t \in Turns : /\ step[t].at = "lead" /\ step'[t].at = "resolve"
                               /\ step[t].lead = l /\ step[t].row.trust # webLead[l].trust
<1>1. ChatInv /\ [ChatNext]_chatVars => [\A l \in WebLeads : Stands(l)]_chatVars
  <2> SUFFICES ASSUME ChatInv, ChatNext, NEW l \in WebLeads, webLead[l] # Absent,
                      webLead[l].trust \in Verdicts, webLead'[l].trust # webLead[l].trust
               PROVE  \/ \E n \in Alerts, v \in Verdicts \cup {"RESOLVED"} : ReviewTrustAlert(n, v)
                      \/ \E t \in Turns : /\ step[t].at = "lead" /\ step'[t].at = "resolve"
                                         /\ step[t].lead = l /\ step[t].row.trust # webLead[l].trust
    OBVIOUS
  <2>1. webLead[l] \in WebLeadRows
    BY DEF ChatInv, ChatShape
  <2>2. ASSUME NEW t \in Turns, WriteLead(t)
        PROVE  \E u \in Turns : /\ step[u].at = "lead" /\ step'[u].at = "resolve"
                               /\ step[u].lead = l /\ step[u].row.trust # webLead[l].trust
    <3> DEFINE turn == step[t]
               s == turn.state
               trust == IF Locked(turn.row) THEN turn.row.trust ELSE "CONTACT_VALID"
               new == [phone |-> s.phone, unit |-> s.selected, channel |-> s.channel, pays |-> s.pays,
                       trust |-> trust, open |-> TRUE]
               told == [s EXCEPT !.stage = IF s.channel THEN "COMPLETE" ELSE "CONFIRMATION",
                                 !.offered = IF s.channel THEN Absent ELSE "CONTACT"]
    <3>1. PICK w \in IF turn.lead # Absent THEN {turn.lead} ELSE {x \in WebLeads : webLead[x] = Absent} :
           /\ webLead' = [webLead EXCEPT ![w] = IF turn.lead = Absent THEN new ELSE [new EXCEPT !.open = webLead[w].open]]
           /\ MoveTo(t, [turn EXCEPT !.at = "resolve", !.lead = w, !.row = Absent, !.state = told])
      BY <2>2 DEF WriteLead
    <3>2. turn \in ChatSteps /\ ChatTurnSound(turn, webLead, alert) /\ turn.at = "lead"
      BY <2>2, AtWork DEF WriteLead
    <3> HIDE DEF trust, told
    <3>3. w = l /\ turn.lead = l
      BY <3>1 DEF ChatInv, ChatShape
    <3>4. webLead'[l].trust = trust
      <4>1. l # Absent /\ turn.lead # Absent
        BY <3>3, ChatAssumption
      <4>2. [new EXCEPT !.open = webLead[w].open].trust = trust
        OBVIOUS
      <4>. QED  BY <3>1, <3>3, <4>1, <4>2 DEF ChatInv, ChatShape
    <3>5. turn.row # Absent
      BY <3>2, <3>3, ChatAssumption DEF ChatTurnSound
    <3>6. turn.row.trust # webLead[l].trust
      BY <3>4, <3>5 DEF trust, Locked
    <3>7. step'[t].at = "resolve"
      BY <3>1, <3>2 DEF MoveTo, ChatInv, ChatShape, ChatSteps
    <3>. QED  BY <3>2, <3>3, <3>6, <3>7
  <2>3. ASSUME NEW k \in WebLeads, CloseLead(k) PROVE webLead'[l].trust = webLead[l].trust
    BY <2>1, <2>3 DEF CloseLead, ChatInv, ChatShape, WebLeadRows
  <2>4. ASSUME UNCHANGED webLead PROVE FALSE
    BY <2>4
  <2>. QED  BY <2>2, <2>3, <2>4 DEF ChatNext, Prepare, PassiveAlert, HandleLeadCapture, IdentityAlert,
               ResolveOpenAlerts, FinishPreparation, TurnThrows
<1>2. ChatSpec => [][\A l \in WebLeads : Stands(l)]_chatVars
  BY <1>1, ChatInvariant, PTL DEF ChatSpec
<1>. QED  BY <1>2 DEF VerdictStands

-----------------------------------------------------------------------------
(* FollowUpTimes *)

Reminders == [zone : Zones, now : Nows, says : Relative \cup ForTomorrow, due : Int \cup {Unsaid}]
TimesInv ==
  /\ reminder \in Reminders
  /\ reminder.due # Unsaid => /\ Valid(reminder.says)
                              /\ reminder.due = ResolveFollowUpDueAt(reminder.zone, reminder.says, reminder.now)

LEMMA LocalTimeTyped ==
  ASSUME NEW says \in ForTomorrow
  PROVE  LocalTime(says) \in 0..23 \cup {Unsaid}
<1>1. says.clock \in Nat \/ says.clock = Unsaid
  BY TimesAssumption DEF ForTomorrow
<1>2. CASE says.clock = Unsaid
  BY <1>2 DEF LocalTime
<1>3. CASE says.clock \in Nat
  <2>1. Hour(says.clock, says.period) \in Nat
    BY <1>3 DEF Hour
  <2>. QED  BY <2>1 DEF LocalTime, Day
<1>. QED  BY <1>1, <1>2, <1>3

\* Three corrections find a local time that exists, and miss one that is skipped by the skip.
LEMMA LocalToUtcFinds ==
  ASSUME NEW zone \in Zones, NEW target \in Int
  PROVE  /\ LocalToUtc(zone, target) \in Int
         /\ LocalExists(zone, target) => Local(zone, LocalToUtc(zone, target)) = target
         /\ ~LocalExists(zone, target) =>
              Local(zone, LocalToUtc(zone, target)) \in {target - Skip(zone), target + Skip(zone)}
<1>1. zone.before \in Int /\ zone.after \in Int /\ zone.change \in Int
  BY TimesAssumption
<1>2. \A g \in Int : Better(zone, target, g) = target - Offset(zone, g)
  BY <1>1 DEF Better, Local, Offset
<1>3. \A g \in Int : Offset(zone, g) \in {zone.before, zone.after}
                   /\ Offset(zone, g) = (IF g < zone.change THEN zone.before ELSE zone.after)
  BY DEF Offset
<1> DEFINE g1 == Better(zone, target, target)
           g2 == Better(zone, target, g1)
           g3 == Better(zone, target, g2)
<1>4. g1 \in {target - zone.before, target - zone.after}
  BY <1>2, <1>3
<1>5. g1 \in Int
  BY <1>1, <1>4
<1> HIDE DEF g1
<1>6. g2 = target - (IF g1 < zone.change THEN zone.before ELSE zone.after) /\ g2 \in Int
  BY <1>1, <1>2, <1>3, <1>5
<1> HIDE DEF g2
<1>7. g3 = target - (IF g2 < zone.change THEN zone.before ELSE zone.after) /\ g3 \in Int
  BY <1>1, <1>2, <1>3, <1>6
<1> HIDE DEF g3
<1>8. Local(zone, g3) = g3 + (IF g3 < zone.change THEN zone.before ELSE zone.after)
  BY DEF Local, Offset
<1>9. LocalExists(zone, target) => Local(zone, g3) = target
  BY <1>1, <1>4, <1>6, <1>7, <1>8 DEF LocalExists
<1>10. ~LocalExists(zone, target) => Local(zone, g3) \in {target - Skip(zone), target + Skip(zone)}
  BY <1>1, <1>4, <1>6, <1>7, <1>8 DEF LocalExists, Skip
<1>11. LocalToUtc(zone, target) = g3
  BY DEF LocalToUtc, g1, g2, g3
<1>. QED  BY <1>7, <1>9, <1>10, <1>11

LEMMA AskedForFuture ==
  ASSUME NEW r \in Reminders, r.says \in ForTomorrow
  PROVE  /\ AskedFor(r) \in Int /\ AskedFor(r) > Local(r.zone, r.now)
         /\ ResolveFollowUpDueAt(r.zone, r.says, r.now) = LocalToUtc(r.zone, AskedFor(r))
<1>1. r.zone \in Zones /\ r.zone \in [before : Int, after : Int, change : Int] /\ r.now \in Int
  BY TimesAssumption DEF Reminders
<1> DEFINE here == Local(r.zone, r.now)
<1>2. here \in Int
  BY <1>1 DEF Local, Offset
<1>3. LocalTime(r.says) \in 0..23 \cup {Unsaid}
  BY LocalTimeTyped
<1> HIDE DEF here
<1>4. /\ here % 24 \in 0..23 /\ here \div 24 \in Int
      /\ (here + 24) \div 24 = (here \div 24) + 1
      /\ here = 24 * (here \div 24) + (here % 24)
  <2>1. here % 24 \in 0..23 /\ here \div 24 \in Int
    BY <1>2
  <2>2. (here + 24) \div 24 = (here \div 24) + 1
    BY <1>2
  <2>3. here = 24 * (here \div 24) + (here % 24)
    BY <1>2, Z3
  <2>. QED  BY <2>1, <2>2, <2>3
<1>5. AskedFor(r) = (here \div 24 + 1) * 24 + IF LocalTime(r.says) = Unsaid THEN here % 24 ELSE LocalTime(r.says)
  BY DEF AskedFor, DateOf, ClockOf, Day, here
<1>6. AskedFor(r) \in Int /\ AskedFor(r) > here
  BY <1>2, <1>3, <1>4, <1>5
<1>7. r.says.kind = "TOMORROW"
  BY DEF ForTomorrow
<1>8. AskedFor(r) = IF LocalTime(r.says) = Unsaid THEN here + 24 ELSE ((here + 24) \div 24) * 24 + LocalTime(r.says)
  BY <1>2, <1>3, <1>4, <1>5
<1>9. ResolveFollowUpDueAt(r.zone, r.says, r.now) = LocalToUtc(r.zone,
         IF LocalTime(r.says) = Unsaid THEN here + 24 ELSE ((here + 24) \div 24) * 24 + LocalTime(r.says))
  BY <1>7 DEF ResolveFollowUpDueAt, Tomorrow, DateOf, Day, here
<1>. QED  BY <1>6, <1>8, <1>9 DEF here

\* A local time after another is a later moment, unless the clock skips it.
LEMMA LaterIsLater ==
  ASSUME NEW zone \in Zones, NEW now \in Int, NEW due \in Int, Local(zone, due) > Local(zone, now)
  PROVE  due > now
<1>1. zone.before \in Int /\ zone.after \in Int /\ zone.change \in Int /\ zone.before <= zone.after + 1
  BY TimesAssumption
<1>. QED  BY <1>1 DEF Local, Offset

LEMMA RelativeIsLater ==
  ASSUME NEW r \in Reminders, r.says \in Relative, Valid(r.says)
  PROVE  ResolveFollowUpDueAt(r.zone, r.says, r.now) \in Int /\ ResolveFollowUpDueAt(r.zone, r.says, r.now) >= r.now
<1>1. r.now \in Int /\ r.says.amount \in {1, 2} /\ r.says.unit \in DOMAIN UnitHours /\ r.says.kind = "RELATIVE"
  <2>1. r.now \in Int
    BY TimesAssumption DEF Reminders
  <2>2. r.says.kind = "RELATIVE" /\ r.says.amount \in {0, 1, 2}
    BY DEF Relative
  <2>3. r.says.amount > 0 /\ r.says.unit \in DOMAIN UnitHours
    BY <2>2 DEF Valid
  <2>. QED  BY <2>1, <2>2, <2>3
<1>2. UnitHours[r.says.unit] \in Nat
  BY <1>1 DEF UnitHours, Day
<1>3. ResolveFollowUpDueAt(r.zone, r.says, r.now) = r.now + r.says.amount * UnitHours[r.says.unit]
  BY <1>1 DEF ResolveFollowUpDueAt
<1>. QED  BY <1>1, <1>2, <1>3

LEMMA ResolvedTyped ==
  ASSUME NEW r \in Reminders, Valid(r.says)
  PROVE  ResolveFollowUpDueAt(r.zone, r.says, r.now) \in Int
<1>1. CASE r.says \in Relative
  BY <1>1, RelativeIsLater
<1>2. CASE r.says \in ForTomorrow
  BY <1>2, AskedForFuture, LocalToUtcFinds DEF Reminders
<1>. QED  BY <1>1, <1>2 DEF Reminders

LEMMA TimesInvInit == TimesInit => TimesInv
  BY DEF TimesInit, TimesInv, Reminders

LEMMA TimesInvStep == TimesInv /\ [TimesNext]_reminder => TimesInv'
<1> SUFFICES ASSUME TimesInv, [TimesNext]_reminder PROVE TimesInv'
  OBVIOUS
<1>1. CASE UNCHANGED reminder
  BY <1>1 DEF TimesInv
<1>2. CASE Schedule
  <2> DEFINE due == ResolveFollowUpDueAt(reminder.zone, reminder.says, reminder.now)
  <2>1. due \in Int /\ reminder \in Reminders /\ Valid(reminder.says) /\ reminder' = [reminder EXCEPT !.due = due]
    BY <1>2, ResolvedTyped DEF Schedule, TimesInv
  <2> HIDE DEF due
  <2>2. /\ reminder' \in Reminders /\ reminder'.due = due /\ reminder'.zone = reminder.zone
        /\ reminder'.says = reminder.says /\ reminder'.now = reminder.now
    BY <2>1 DEF Reminders
  <2>. QED  BY <2>1, <2>2 DEF TimesInv, due
<1>. QED  BY <1>1, <1>2 DEF TimesNext

\* What a message asks for comes to a moment, or to none.
THEOREM RemindersTyped == TimesSpec => []TimesTyped
<1>1. TimesInv => TimesTyped
  BY DEF TimesInv, TimesTyped, Reminders
<1>. QED  BY <1>1, TimesInvInit, TimesInvStep, PTL DEF TimesSpec

\* A reminder comes at the local time the customer means, in every zone whose clock is turned
\* back by no more than an hour, at every moment (nadim-v2/product/follow-up-time.ts
\* resolveFollowUpDueAt and its three corrections of a guess).
THEOREM RemindersComeWhenAsked == TimesSpec => []DueAsAsked
<1>1. TimesInv => DueAsAsked
  <2> SUFFICES ASSUME TimesInv, reminder.due # Unsaid PROVE DueAsAsked
    BY DEF DueAsAsked
  <2> DEFINE r == reminder
             zone == r.zone
  <2>1. /\ r \in Reminders /\ zone \in Zones /\ r.now \in Int /\ Valid(r.says)
        /\ r.due = ResolveFollowUpDueAt(zone, r.says, r.now)
    BY TimesAssumption DEF TimesInv, Reminders
  <2>2. CASE r.says \in Relative
    <3>1. r.says.kind = "RELATIVE" /\ r.due >= r.now
      BY <2>1, <2>2, RelativeIsLater DEF Relative
    <3>. QED  BY <3>1 DEF DueAsAsked
  <2>3. CASE r.says \in ForTomorrow
    <3>1. r.says.kind = "TOMORROW"
      BY <2>3 DEF ForTomorrow
    <3>2. /\ AskedFor(r) \in Int /\ AskedFor(r) > Local(zone, r.now) /\ r.due = LocalToUtc(zone, AskedFor(r))
      BY <2>1, <2>3, AskedForFuture
    <3>3. LocalExists(zone, AskedFor(r)) => Local(zone, r.due) = AskedFor(r) /\ r.due > r.now
      BY <2>1, <3>2, LocalToUtcFinds, LaterIsLater
    <3>4. ~LocalExists(zone, AskedFor(r)) =>
             Local(zone, r.due) \in {AskedFor(r) - Skip(zone), AskedFor(r) + Skip(zone)}
      BY <2>1, <3>2, LocalToUtcFinds
    <3>. QED  BY <3>1, <3>3, <3>4 DEF DueAsAsked
  <2>. QED  BY <2>1, <2>2, <2>3 DEF Reminders
<1>. QED  BY <1>1, TimesInvInit, TimesInvStep, PTL DEF TimesSpec

-----------------------------------------------------------------------------
(* SearchConstraints *)

Values == {"previous", "extracted", "said", Unset}
WordChanges == [previous : [Constraints -> {"previous", Unset}], extracted : Extractions, words : Words,
            op : ModelOps, says : SUBSET Constraints, widens : BOOLEAN,
            next : {Unset} \cup [Constraints -> Values]]

\* What a turn ends with is what it comes to, and a confirmation says nothing else.
ConstraintsInv ==
  /\ change \in WordChanges
  /\ change.widens => change.words = Silent
  /\ change.next # Unset => change.next = Turned(change)

LEMMA NormalizedTyped ==
  ASSUME NEW t \in WordChanges
  PROVE  Normalized(t) \in [Constraints -> Values]
<1> DEFINE merged == [c \in Constraints |-> IF c \in t.extracted THEN "extracted" ELSE t.previous[c]]
<1>1. merged \in [Constraints -> Values] /\ t.previous \in [Constraints -> Values]
  BY DEF WordChanges, Values
<1> HIDE DEF merged
<1>2. ProposedBy(merged, t.previous, t.op) \in [Constraints -> Values]
  BY <1>1 DEF ProposedBy, Restore, Clear, Values
<1>. QED  BY <1>1, <1>2 DEF Normalized, Restore, Clear, Values, merged

LEMMA TurnedTyped ==
  ASSUME NEW t \in WordChanges
  PROVE  Turned(t) \in [Constraints -> Values]
  BY NormalizedTyped DEF Turned, Clear, Values

LEMMA ConstraintsInvInit == ConstraintsInit => ConstraintsInv
  BY DEF ConstraintsInit, ConstraintsInv, WordChanges, Values

LEMMA ConstraintsInvStep == ConstraintsInv /\ [ConstraintsNext]_change => ConstraintsInv'
<1> SUFFICES ASSUME ConstraintsInv, [ConstraintsNext]_change PROVE ConstraintsInv'
  OBVIOUS
<1>1. CASE UNCHANGED change
  BY <1>1 DEF ConstraintsInv
<1>2. CASE UnderstandWords
  <2>1. change \in WordChanges /\ Turned(change) \in [Constraints -> Values]
        /\ change' = [change EXCEPT !.next = Turned(change)]
    BY <1>2, TurnedTyped DEF UnderstandWords, ConstraintsInv
  <2>2. /\ change' \in WordChanges /\ change'.next = Turned(change) /\ change'.words = change.words
        /\ change'.widens = change.widens /\ change'.previous = change.previous
        /\ change'.extracted = change.extracted /\ change'.op = change.op /\ change'.says = change.says
    BY <2>1 DEF WordChanges
  <2>3. Turned(change') = Turned(change)
    BY <2>2 DEF Turned, Normalized
  <2>. QED  BY <2>2, <2>3 DEF ConstraintsInv
<1>. QED  BY <1>1, <1>2 DEF ConstraintsNext

\* What a turn makes of one constraint.
LEMMA TurnedAt ==
  ASSUME NEW t \in WordChanges, NEW c \in Constraints
  PROVE  /\ Turned(t)[c] = IF c \in t.says \ NamesCleared(t.words) THEN "said"
                           ELSE IF t.widens /\ c \in Scope THEN Unset ELSE Normalized(t)[c]
         /\ Normalized(t)[c] = IF c \in Cleared(t.words) THEN Unset
                               ELSE IF c \in Preserved(t.words) THEN t.previous[c]
                               ELSE ProposedBy([d \in Constraints |-> IF d \in t.extracted THEN "extracted"
                                                                      ELSE t.previous[d]], t.previous, t.op)[c]
<1>1. Normalized(t)[c] = IF c \in Cleared(t.words) THEN Unset
                         ELSE IF c \in Preserved(t.words) THEN t.previous[c]
                         ELSE ProposedBy([d \in Constraints |-> IF d \in t.extracted THEN "extracted"
                                                                ELSE t.previous[d]], t.previous, t.op)[c]
  BY DEF Normalized, Clear, Restore
<1>2. Turned(t)[c] = IF c \in t.says \ NamesCleared(t.words) THEN "said"
                     ELSE IF t.widens /\ c \in Scope THEN Unset ELSE Normalized(t)[c]
  BY DEF Turned, Clear
<1>. QED  BY <1>1, <1>2

\* After a turn every constraint has a value from before, from the model or the words, or none.
THEOREM ConstraintsKeepForm == ConstraintsSpec => []ConstraintsTyped
<1>1. ConstraintsInv => ConstraintsTyped
  BY DEF ConstraintsInv, ConstraintsTyped, WordChanges, Values
<1>. QED  BY <1>1, ConstraintsInvInit, ConstraintsInvStep, PTL DEF ConstraintsSpec

\* What is kept stays, what is dropped goes, and a budget goes only when it or the whole
\* search is dropped, for all constraints, words and proposals of a model
\* (providers/constraint-lifecycle.ts, real-estate-semantics.ts applyConstraintOperations).
THEOREM CustomersWordsDecide == ConstraintsSpec => []WordsDecide
<1>1. ConstraintsInv => WordsDecide
  <2> SUFFICES ASSUME ConstraintsInv, change.next # Unset PROVE WordsDecide
    BY DEF WordsDecide
  <2> DEFINE t == change
             w == t.words
             next == t.next
  <2>1. t \in WordChanges /\ w \in Words /\ (t.widens => w = Silent) /\ next = Turned(t)
    BY DEF ConstraintsInv, WordChanges
  <2>2. w.targets \in SUBSET Constraints
    BY <2>1 DEF Words
  <2>3. ASSUME w.keep, ~w.reset, w.widen = "no", NEW c \in w.targets \ t.says
        PROVE  next[c] = t.previous[c]
    <3>1. c \in Constraints /\ c \in Preserved(w) /\ ~t.widens
      BY <2>1, <2>2, <2>3 DEF Preserved, Silent
    <3>2. ResetBy(w) = {} /\ Removed(w) = {} /\ Broadened(w) = {}
      BY <2>3 DEF ResetBy, Removed, Broadened
    <3>3. c \notin Cleared(w)
      BY <3>2 DEF Cleared, Clears
    <3>. QED  BY <2>1, <2>3, <3>1, <3>3, TurnedAt
  <2>4. ASSUME w.remove, ~w.keep, NEW c \in w.targets
        PROVE  next[c] = Unset
    <3>1. c \in Removed(w) /\ c \in Constraints
      BY <2>2, <2>4 DEF Removed
    <3>2. c \in NamesCleared(w) /\ c \in Cleared(w)
      BY <3>1 DEF NamesCleared, Cleared
    <3>. QED  BY <2>1, <3>1, <3>2, TurnedAt
  <2>5. ASSUME "BUDGET" \in Constraints, t.previous["BUDGET"] # Unset, next["BUDGET"] = Unset,
               "BUDGET" \notin NamesCleared(w), "SEARCH" \notin ResetBy(w)
        PROVE  t.op # Unset /\ (t.op.constraint = "BUDGET" \/ t.op = [operation |-> "RESET", constraint |-> "SEARCH"])
    <3> DEFINE merged == [d \in Constraints |-> IF d \in t.extracted THEN "extracted" ELSE t.previous[d]]
    <3>1. "BUDGET" \notin Scope /\ "BUDGET" \notin Cleared(w)
      BY <2>5 DEF Cleared, NamesCleared, Clears, Scope
    <3>2. ProposedBy(merged, t.previous, t.op)["BUDGET"] = Unset
      BY <2>1, <2>5, <3>1, TurnedAt, ConstraintsAssumption
    <3>3. merged["BUDGET"] # Unset
      BY <2>5, ConstraintsAssumption
    <3> HIDE DEF merged
    <3>4. t.op # Unset /\ t.op \in [operation : STRING, constraint : STRING]
      BY <2>1, <3>2, <3>3, ConstraintsAssumption DEF ProposedBy, WordChanges
    <3>5. t.op.operation # "PRESERVE" /\ "BUDGET" \in Clears(t.op.operation, {t.op.constraint})
      BY <2>5, <3>2, <3>3, <3>4 DEF ProposedBy, Restore, Clear
    <3>6. t.op.constraint # "BUDGET" => t.op.operation = "RESET" /\ t.op.constraint = "SEARCH"
      BY <3>1, <3>5 DEF Clears
    <3>. QED  BY <3>4, <3>6
  <2>. QED  BY <2>3, <2>4, <2>5 DEF WordsDecide
<1>. QED  BY <1>1, ConstraintsInvInit, ConstraintsInvStep, PTL DEF ConstraintsSpec

-----------------------------------------------------------------------------
(* NadimReply *)

Doable == LeadActions \cup ProductActions \cup Controls
Doings == [type : Offered \cup Controls, status : Statuses]

ReplyShape ==
  /\ ask \in Asks
  /\ found \in [ReplyTools -> (UNION {Outcomes(t) : t \in ReplyTools}) \cup {Nil}]
  /\ \A t \in ReplyTools : found[t] \in Outcomes(t) \cup {Nil}
  /\ proposals \in Seq(Offered)
  /\ executed \in Seq(Doings)
  /\ done \subseteq Doable
  /\ at \in {"control", "propose", "act", "compose", "answered"}

\* Only the tool of the question is consulted.
ConsultedForQuestion == \A t \in ReplyTools : found[t] # Nil => ask.intent \in Questions /\ t = ToolOf[ask.intent]

\* What succeeded was done, and nothing is done any more when the answer is there.
ReplyInv ==
  /\ ReplyShape /\ ConsultedForQuestion
  /\ Succeeded \subseteq done
  /\ answer # Nil => at = "answered"
  /\ NothingClaimedUndone

LEMMA ReplyInvInit == ReplyInit => ReplyInv
<1> SUFFICES ASSUME ReplyInit PROVE ReplyInv
  OBVIOUS
<1>1. Succeeded = {}
  BY DEF ReplyInit, Succeeded, Results
<1>2. ReplyShape
  <2>1. \A t \in ReplyTools : found[t] = Nil
    BY DEF ReplyInit
  <2>2. proposals \in Seq(Offered) /\ executed \in Seq(Doings)
    BY DEF ReplyInit
  <2>3. found \in [ReplyTools -> (UNION {Outcomes(t) : t \in ReplyTools}) \cup {Nil}]
    <3> HIDE DEF ReplyTools
    <3>. QED  BY DEF ReplyInit
  <2>. QED  BY <2>1, <2>2, <2>3 DEF ReplyInit, ReplyShape
<1>3. ConsultedForQuestion
  BY DEF ReplyInit, ConsultedForQuestion
<1>. QED  BY <1>1, <1>2, <1>3 DEF ReplyInit, ReplyInv, NothingClaimedUndone

\* The results of one more action.
LEMMA OneMoreResult ==
  ASSUME executed \in Seq(Doings), NEW a \in Doings, executed' = Append(executed, a)
  PROVE  executed' \in Seq(Doings) /\ Results' = Results \cup {a}
<1>1. /\ executed' \in Seq(Doings) /\ DOMAIN executed' = 1..(Len(executed) + 1)
      /\ DOMAIN executed = 1..Len(executed) /\ Len(executed) \in Nat
      /\ \A n \in 1..Len(executed) : executed'[n] = executed[n]
      /\ executed'[Len(executed) + 1] = a
  OBVIOUS
<1>2. \A n \in DOMAIN executed' : n \in DOMAIN executed \/ n = Len(executed) + 1
  BY <1>1
<1>. QED  BY <1>1, <1>2 DEF Results

\* What succeeds is done.
LEMMA SuccessIsDone ==
  ASSUME executed \in Seq(Doings), NEW a \in Doings, executed' = Append(executed, a),
         Succeeded \subseteq done, done \subseteq done', a.status = "SUCCEEDED" => a.type \in done'
  PROVE  executed' \in Seq(Doings) /\ Succeeded' \subseteq done'
<1>1. executed' \in Seq(Doings) /\ Results' = Results \cup {a}
  BY OneMoreResult
<1>2. ASSUME NEW b \in Results', b.status = "SUCCEEDED" PROVE b.type \in done'
  BY <1>1, <1>2 DEF Succeeded
<1>. QED  BY <1>1, <1>2 DEF Succeeded

\* What a template says of a result holds if what succeeded was done.
LEMMA ToldIsTrue ==
  ASSUME Succeeded \subseteq done, done \subseteq Doable, NEW a \in Results, NEW c \in Told(a)
  PROVE  True(c) \/ (c = "REQUEST_CALLBACK" /\ "REVOKE_SHARE_LINK" \in Succeeded)
<1>1. a.status = "SUCCEEDED" /\ a.type \in Succeeded /\ a.type \in done /\ a.type \in Doable
  BY DEF Told, Succeeded
<1>2. CASE c = a.type
  <2>1. a.type \notin {"booked", "told staff", "saved", "results", "no match", "comparison", "closer", "media", "plans",
                      "price", "location", "the search", "nothing set", "an assistant", "sending", "a human"}
    BY <1>1 DEF Doable, LeadActions, ProductActions, Controls
  <2>2. CASE a.type = "REQUEST_CALLBACK"
    BY <1>1, <1>2, <2>2 DEF True, LeadActions
  <2>3. CASE a.type # "REQUEST_CALLBACK"
    BY <1>1, <1>2, <2>1, <2>3 DEF True
  <2>. QED  BY <2>2, <2>3
<1>3. CASE c # a.type
  <2>1. c = "REQUEST_CALLBACK" /\ a.type \in {"CREATE_LEAD", "REVOKE_SHARE_LINK"}
    BY <1>1, <1>3 DEF Told, Doable, LeadActions, ProductActions, Controls, Links
  <2>. QED  BY <1>1, <2>1 DEF True, LeadActions
<1>. QED  BY <1>2, <1>3

\* Every sentence of the template of an intent holds.
LEMMA DeterministicIsTrue ==
  ASSUME Succeeded \subseteq done, done \subseteq Doable, NEW c \in Deterministic
  PROVE  True(c) \/ (c = "REQUEST_CALLBACK" /\ "REVOKE_SHARE_LINK" \in Succeeded)
<1>1. ASSUME NEW a \in Results, c \in Told(a)
      PROVE  True(c) \/ (c = "REQUEST_CALLBACK" /\ "REVOKE_SHARE_LINK" \in Succeeded)
  BY <1>1, ToldIsTrue
<1>2. CASE c \in SearchTold \cup ComparisonTold \cup MediaTold \cup PlansTold \cup PriceTold \cup LocationTold
             \cup SearchSoFar \cup {"an assistant"}
  BY <1>2 DEF SearchTold, ComparisonTold, MediaTold, PlansTold, PriceTold, LocationTold, SearchSoFar, True
<1>3. \/ \E a \in Results : c \in Told(a)
      \/ c \in SearchTold \cup ComparisonTold \cup MediaTold \cup PlansTold \cup PriceTold \cup LocationTold
             \cup SearchSoFar \cup {"an assistant"}
  BY DEF Deterministic
<1>. QED  BY <1>1, <1>2, <1>3

\* The sentences over cards hold, but for photos that are not there.
LEMMA StructuredIsTrue ==
  ASSUME ReplyShape, Succeeded \subseteq done, NEW c \in Structured
  PROVE  \/ True(c)
         \/ c = "media" /\ found["GET_MEDIA"] \in {"empty", "unlinked"}
         \/ c = "REQUEST_CALLBACK" /\ "REVOKE_SHARE_LINK" \in Succeeded
<1>1. CASE \E a \in Results : c \in Told(a)
  BY <1>1, ToldIsTrue DEF ReplyShape
<1>2. CASE Ok("GET_MEDIA") /\ c = "media"
  <2>1. "GET_MEDIA" \in ReplyTools
    BY DEF ReplyTools, Questions, ToolOf
  <2>2. found["GET_MEDIA"] \in {"failed", "empty", "found", "unlinked", Nil}
    BY <2>1 DEF ReplyShape, Outcomes
  <2>. QED  BY <1>2, <2>2 DEF Ok, True, Full
<1>3. CASE \/ c = "results" /\ Full("PROPERTY_SEARCH")
           \/ c = "comparison" /\ Full("COMPARE_PROPERTIES")
           \/ c = "plans" /\ Full("GET_PAYMENT_PLAN")
  <2>1. "PROPERTY_SEARCH" \in ReplyTools
    BY DEF ReplyTools, Questions, ToolOf
  <2>2. found["PROPERTY_SEARCH"] \in {"failed", "empty", "found", Nil}
    BY <2>1 DEF ReplyShape, Outcomes
  <2>. QED  BY <1>3, <2>2, ReplyAssumption DEF True, Full
<1>. QED  BY <1>1, <1>2, <1>3 DEF Structured

\* A draft that passes the checks claims no action that was not done.
LEMMA SafeIsTrue ==
  ASSUME Succeeded \subseteq done, NEW draft \in Drafts, Safe(draft), NEW c \in draft
  PROVE  True(c) \/ c \in FactClaims \cup {"reason"}
<1>1. c \in ModelClaims
  <2>1. {"no match", "the search", "nothing set", "an assistant"} \subseteq ModelClaims
    BY DEF ModelClaims, FactClaims
  <2>2. draft = {} \/ \E x \in ModelClaims :
           draft \in {{x, d} : d \in {x, "no match", "the search", "nothing set", "an assistant"}}
    BY DEF Drafts
  <2>. QED  BY <2>1, <2>2
<1>2. CASE c \in {"no match", "closer", "sending", "a human", "an assistant"}
  BY <1>2 DEF Safe, SafeDeliveryAndProximityClaims, SafeInventoryClaims, SafeHumanIdentity, True
<1>3. CASE c \in ActionClaims
  BY <1>3 DEF Safe, SafeActionClaims, ActionClaims, True
<1>. QED  BY <1>1, <1>2, <1>3 DEF ModelClaims

\* A turn that is under way: what it has done, and its answer, when it has one.
LEMMA GoOnInv ==
  ASSUME ReplyInv, ReplyShape', ConsultedForQuestion', Succeeded' \subseteq done', answer' = answer, at # "answered"
  PROVE  ReplyInv'
  BY DEF ReplyInv, NothingClaimedUndone

LEMMA AnsweredInv ==
  ASSUME ReplyInv, NEW from \in {"history", "structured", "fallback", "model"}, NEW says, Answered(from, says),
         \A c \in says :
           \/ True(c)
           \/ from = "model" /\ c \in FactClaims \cup {"reason"}
           \/ from = "structured" /\ c = "media" /\ found["GET_MEDIA"] \in {"empty", "unlinked"}
           \/ from \in {"structured", "fallback"} /\ c = "REQUEST_CALLBACK" /\ "REVOKE_SHARE_LINK" \in Succeeded,
         from = "model" \/ (executed = <<>> /\ ~ask.unclear) =>
           /\ ask.intent = "ASSISTANT_NATURE" => "an assistant" \in says
           /\ ask.intent = "CURRENT_SEARCH_QUERY" => SearchSoFar \subseteq says
  PROVE  ReplyInv'
<1>1. /\ answer'.from = from /\ answer'.says = says /\ at' = "answered"
      /\ UNCHANGED <<ask, found, proposals, executed, done>>
  BY DEF Answered
<1>2. ReplyShape' /\ ConsultedForQuestion'
  BY <1>1 DEF ReplyInv, ReplyShape, ConsultedForQuestion
<1>3. Succeeded' = Succeeded /\ SearchSoFar' = SearchSoFar /\ \A c : True(c)' = True(c)
  BY <1>1 DEF Succeeded, Results, SearchSoFar, True, Full
<1>4. NothingClaimedUndone'
  BY <1>1, <1>3 DEF NothingClaimedUndone
<1>. QED  BY <1>1, <1>2, <1>3, <1>4 DEF ReplyInv

LEMMA ReplyInvStep == ReplyInv /\ [ReplyNext]_replyVars => ReplyInv'
<1> SUFFICES ASSUME ReplyInv, [ReplyNext]_replyVars PROVE ReplyInv'
  OBVIOUS
<1> USE DEF ReplyInv
<1>1. ASSUME NEW c \in Controls, Control(c) PROVE ReplyInv'
  <2>1. PICK status \in {"SUCCEEDED", "NOT_EXECUTED"} :
          /\ executed' = <<[type |-> c, status |-> status]>>
          /\ done' = IF status = "SUCCEEDED" THEN done \cup {c} ELSE done
    BY <1>1 DEF Control
  <2>2. [type |-> c, status |-> status] \in Doings
    BY DEF Doings, Statuses
  <2>3. executed' \in Seq(Doings) /\ Results' = {[type |-> c, status |-> status]}
    BY <2>1, <2>2 DEF Results
  <2>4. Succeeded' \subseteq done'
    BY <2>1, <2>3 DEF Succeeded
  <2>5. done' \subseteq Doable
    BY <2>1 DEF Doable, ReplyShape
  <2>6. ReplyShape'
    BY <1>1, <2>3, <2>5 DEF Control, ReplyShape
  <2>. QED  BY <1>1, <2>4, <2>6, GoOnInv DEF Control, ConsultedForQuestion
<1>2. CASE KeepBrief
  <2>1. Succeeded' = Succeeded
    BY <1>2 DEF KeepBrief, Succeeded, Results
  <2>2. ReplyShape'
    BY <1>2 DEF KeepBrief, ReplyShape, Doable, ProductActions
  <2>. QED  BY <1>2, <2>1, <2>2, GoOnInv DEF KeepBrief, ConsultedForQuestion
<1>3. CASE Consult
  <2>1. Succeeded' = Succeeded
    BY <1>3 DEF Consult, Succeeded, Results
  <2>2. CASE UNCHANGED found
    <3>1. ReplyShape'
      BY <1>3, <2>2 DEF Consult, ReplyShape
    <3>. QED  BY <1>3, <2>1, <2>2, <3>1, GoOnInv DEF Consult, ConsultedForQuestion
  <2>3. CASE /\ ask.intent \in Questions
             /\ \E o \in Outcomes(ToolOf[ask.intent]) : found' = [found EXCEPT ![ToolOf[ask.intent]] = o]
    <3> DEFINE tool == ToolOf[ask.intent]
    <3>1. PICK o \in Outcomes(tool) : found' = [found EXCEPT ![tool] = o]
      BY <2>3
    <3>2. tool \in ReplyTools
      BY <2>3 DEF ReplyTools
    <3> HIDE DEF tool
    <3>3. /\ found' \in [ReplyTools -> (UNION {Outcomes(t) : t \in ReplyTools}) \cup {Nil}]
          /\ \A t \in ReplyTools : found'[t] \in Outcomes(t) \cup {Nil}
      BY <3>1, <3>2 DEF ReplyShape
    <3>4. ReplyShape'
      BY <1>3, <3>3 DEF Consult, ReplyShape
    <3>5. ConsultedForQuestion'
      BY <1>3, <2>3, <3>1, <3>2 DEF Consult, ConsultedForQuestion, ReplyShape, tool
    <3>. QED  BY <1>3, <2>1, <3>4, <3>5, GoOnInv DEF Consult
  <2>. QED  BY <1>3, <2>2, <2>3 DEF Consult
<1>4. ASSUME NEW n \in 0..MaxProposals, NEW ps \in [1..n -> Offered], ProposeActions(ps) PROVE ReplyInv'
  <2>1. ps \in Seq(Offered)
    BY ReplyAssumption
  <2>2. ReplyShape'
    BY <1>4, <2>1 DEF ProposeActions, ReplyShape
  <2>3. Succeeded' = Succeeded
    BY <1>4 DEF ProposeActions, Succeeded, Results
  <2>. QED  BY <1>4, <2>2, <2>3, GoOnInv DEF ProposeActions, ConsultedForQuestion
<1>5. CASE Execute
  <2> DEFINE type == proposals[Len(executed) + 1]
  <2>1. type \in Offered
    BY <1>5 DEF Execute, ReplyShape
  <2>2. PICK o \in Comes(type) :
          /\ executed' = Append(executed, [type |-> type, status |-> o.status])
          /\ done' = IF o.did THEN done \cup {type} ELSE done
    BY <1>5 DEF Execute
  <2> HIDE DEF type
  <2>3. /\ o.status \in Statuses /\ (o.status = "SUCCEEDED" => o.did)
        /\ o.did => type \in LeadActions \cup ProductActions
    BY <2>2 DEF Comes, Statuses
  <2>4. [type |-> type, status |-> o.status] \in Doings
    BY <2>1, <2>3 DEF Doings
  <2>5. executed' \in Seq(Doings) /\ Succeeded' \subseteq done'
    <3>1. done \subseteq done' /\ (o.status = "SUCCEEDED" => type \in done')
      BY <2>2, <2>3
    <3>. QED  BY <2>2, <2>4, <3>1, SuccessIsDone DEF ReplyShape
  <2>6. done' \subseteq Doable
    BY <2>2, <2>3 DEF Doable, ReplyShape
  <2>7. ReplyShape'
    BY <1>5, <2>5, <2>6 DEF Execute, ReplyShape
  <2>. QED  BY <1>5, <2>5, <2>7, GoOnInv DEF Execute, ConsultedForQuestion
<1>6. CASE RequirementHistory
  <2>1. Answered("history", {})
    BY <1>6 DEF RequirementHistory
  <2>2. ask.intent = "REQUIREMENTS"
    BY <1>6 DEF RequirementHistory
  <2>. QED  BY <2>1, <2>2, AnsweredInv
<1>7. CASE Present
  <2>1. Answered("structured", Structured)
    BY <1>7 DEF Present
  <2>2. \A c \in Structured :
          \/ True(c)
          \/ c = "media" /\ found["GET_MEDIA"] \in {"empty", "unlinked"}
          \/ c = "REQUEST_CALLBACK" /\ "REVOKE_SHARE_LINK" \in Succeeded
    <3>1. ReplyShape /\ Succeeded \subseteq done
      OBVIOUS
    <3>. QED  BY <3>1, StructuredIsTrue
  <2>3. executed = <<>> => ask.intent \in Questions
    <3> SUFFICES ASSUME executed = <<>> PROVE ask.intent \in Questions
      OBVIOUS
    <3>1. Succeeded = {}
      BY DEF Succeeded, Results
    <3>2. PICK tool \in {"PROPERTY_SEARCH", "COMPARE_PROPERTIES", "GET_MEDIA", "GET_PAYMENT_PLAN"} : found[tool] # Nil
      BY <1>7, <3>1, ReplyAssumption DEF Present, Presentable, Ok, Full
    <3>3. tool \in ReplyTools
      BY DEF ReplyTools, Questions, ToolOf
    <3>. QED  BY <3>2, <3>3 DEF ConsultedForQuestion
  <2>4. ask.intent \in Questions => ask.intent \notin {"ASSISTANT_NATURE", "CURRENT_SEARCH_QUERY"}
    BY DEF Questions, ToolOf
  <2>. QED  BY <2>1, <2>2, <2>3, <2>4, AnsweredInv
<1>8. CASE FallBack
  <2>1. Answered("fallback", Deterministic)
    BY <1>8 DEF FallBack
  <2>2. \A c \in Deterministic : True(c) \/ (c = "REQUEST_CALLBACK" /\ "REVOKE_SHARE_LINK" \in Succeeded)
    BY DeterministicIsTrue DEF ReplyShape
  <2>3. executed = <<>> /\ ~ask.unclear =>
           /\ ask.intent = "ASSISTANT_NATURE" => "an assistant" \in Deterministic
           /\ ask.intent = "CURRENT_SEARCH_QUERY" => SearchSoFar \subseteq Deterministic
    BY DEF Deterministic
  <2>. QED  BY <2>1, <2>2, <2>3, AnsweredInv
<1>9. ASSUME NEW draft \in Drafts, Compose(draft) PROVE ReplyInv'
  <2>1. Answered("model", draft) /\ Safe(draft)
    BY <1>9 DEF Compose
  <2>2. \A c \in draft : True(c) \/ c \in FactClaims \cup {"reason"}
    BY <2>1, SafeIsTrue
  <2>3. /\ ask.intent = "ASSISTANT_NATURE" => "an assistant" \in draft
        /\ ask.intent = "CURRENT_SEARCH_QUERY" => SearchSoFar \subseteq draft
    BY <2>1 DEF Safe, SafeAssistantSemantics, SafeStateQuery
  <2>. QED  BY <2>1, <2>2, <2>3, AnsweredInv
<1>10. CASE UNCHANGED replyVars
  <2>1. UNCHANGED <<ask, found, proposals, executed, done, answer, at>>
    BY <1>10 DEF replyVars
  <2>2. ReplyShape' /\ ConsultedForQuestion'
    BY <2>1 DEF ReplyShape, ConsultedForQuestion
  <2>3. Succeeded' = Succeeded /\ SearchSoFar' = SearchSoFar /\ \A c : True(c)' = True(c)
    BY <2>1 DEF Succeeded, Results, SearchSoFar, True, Full
  <2>4. NothingClaimedUndone'
    BY <2>1, <2>3 DEF NothingClaimedUndone
  <2>. QED  BY <2>1, <2>2, <2>3, <2>4
<1>. QED  BY <1>1, <1>2, <1>3, <1>4, <1>5, <1>6, <1>7, <1>8, <1>9, <1>10 DEF ReplyNext

\* The turn, its results and what was done are of their kinds.
THEOREM ReplyTypeHolds == ReplySpec => []ReplyTyped
<1>1. ReplyInv => ReplyTyped
  <2> SUFFICES ASSUME ReplyInv PROVE ReplyTyped
    OBVIOUS
  <2>1. \A n \in DOMAIN executed : executed[n] \in Doings
    BY DEF ReplyInv, ReplyShape
  <2>2. \A a \in Results : a.status \in Statuses
    BY <2>1 DEF Results, Doings
  <2>. QED  BY <2>2 DEF ReplyInv, ReplyShape, ReplyTyped, Doable
<1>. QED  BY <1>1, ReplyInvInit, ReplyInvStep, PTL DEF ReplySpec

\* A reply claims nothing that was not done or found, whatever actions are offered, in whatever
\* order they fail, and whoever words it: cards, templates or a model (response-composer.service.ts
\* compose, response-style.service.ts actionResult, action-policy.service.ts execute).
THEOREM ClaimsAreDone == ReplySpec => []NothingClaimedUndone
<1>1. ReplyInv => NothingClaimedUndone
  BY DEF ReplyInv
<1>. QED  BY <1>1, ReplyInvInit, ReplyInvStep, PTL DEF ReplySpec

-----------------------------------------------------------------------------
(* WebChat *)

ChatMessages == [what : {"asked", "question", "answer", "made up"}, of : Events]
Modes == {"AI", "HUMAN"}
Partial(V) == UNION {[S -> V] : S \in SUBSET Chats}
Conversations == [is : {"unused", "known", "deleted"}, messages : Seq(ChatMessages), mode : Modes]
Views == [mode : Modes, messages : Seq(ChatMessages)]
Loads == [poll : BOOLEAN, items : Seq(ChatMessages) \cup {Void}]
Indexes == [at : {"asked", "read", "done"}, active : Chats \cup {Void}, list : Partial(Modes) \cup {Void}]
Pages == [chats : Partial(Views), active : Chats \cup {Void}, skip : SUBSET Chats, mine : SUBSET Chats,
          loads : SUBSET Loads, index : Indexes, stayed : BOOLEAN]
Sendings == [at : {"unused", "create", "created", "nadim", "store", "answer", "done", "over"}, chat : Chats \cup {Void},
             here : BOOLEAN, first : BOOLEAN, reply : ChatMessages \cup {Void}, mode : Modes, deleted : BOOLEAN,
             storing : BOOLEAN, stored : BOOLEAN, gaveUp : BOOLEAN]

\* Where a turn has got to, and what it then has.
TurnSound(e, t) ==
  /\ t.at \in {"unused", "create"} => t.chat = Void
  /\ t.at \in {"created", "nadim", "store", "answer", "done"} => t.chat # Void
  /\ t.at \in {"unused", "create", "created", "nadim", "over"} => ~t.storing /\ ~t.stored
  /\ t.at \in {"create", "created"} => t.first
  /\ t.reply \in {Void, StoredAnswer(e), MadeUp(e)} /\ (t.deleted => t.reply = Void)
  /\ t.reply = MadeUp(e) => t.gaveUp
  /\ t.storing => ~t.stored
  /\ t.at \in {"answer", "done"} /\ t.reply = StoredAnswer(e) => t.stored

\* What is of a conversation's turns in the store, each once.
ItemsSound(list, c, turns) ==
  /\ IsInjective(list)
  /\ \A m \in ChatMessages : Holds(list, m) =>
       m.what \in {"question", "answer"} /\ turns[m.of].chat = c /\ turns[m.of].stored

\* What is shown of them, each once: the store's question replaces the page's.
ViewSound(list, c, turns) ==
  /\ IsInjective(list)
  /\ \A m \in ChatMessages : Holds(list, m) =>
       /\ turns[m.of].chat = c
       /\ m.what \in {"question", "answer"} => turns[m.of].stored
       /\ m.what = "made up" => turns[m.of].gaveUp
       /\ m.what = "question" => ~Holds(list, ShownQuestion(m.of))

\* While the customer stays on a conversation just created, nothing is loaded over its turn.
Keeps(page, e, turns) ==
  /\ turns[e].first /\ turns[e].chat = page.active
  /\ Holds(page.chats[page.active].messages, ShownQuestion(e))
  /\ turns[e].at = "done" /\ turns[e].here /\ turns[e].reply # Void
       => Holds(page.chats[page.active].messages, turns[e].reply)
StaySound(page, turns) ==
  page.stayed => /\ page.active \in DOMAIN page.chats /\ page.active \in page.mine /\ page.loads = {}
                 /\ \E e \in Events : Keeps(page, e, turns)

PageListed(page, turns) ==
  /\ page \in Pages
  /\ page.index.at = "read" => page.index.list \in Partial(Modes)
  /\ \A c \in DOMAIN page.chats : ViewSound(page.chats[c].messages, c, turns)
  /\ \A l \in page.loads : page.active # Void /\ (l.items # Void => ItemsSound(l.items, page.active, turns))
PageSound(page, turns) == PageListed(page, turns) /\ StaySound(page, turns)

StoreSound(store, turns) ==
  /\ store \in [Chats -> Conversations]
  /\ \A c \in Chats : ItemsSound(store[c].messages, c, turns)

\* First messages created their conversations, each its own.
FirstsApart(store, turns) ==
  \A e \in Events : turns[e].first /\ turns[e].chat # Void =>
    /\ store[turns[e].chat].is # "unused"
    /\ \A d \in Events \ {e} : turns[d].first => turns[d].chat # turns[e].chat

WebInv ==
  /\ sent \in [Events -> Sendings] /\ \A e \in Events : TurnSound(e, sent[e])
  /\ StoreSound(server, sent) /\ FirstsApart(server, sent)
  /\ PageSound(tab, sent)

-----------------------------------------------------------------------------
LEMMA MessagesAre ==
  /\ \A e \in Events : {ShownQuestion(e), StoredQuestion(e), StoredAnswer(e), MadeUp(e)} \subseteq ChatMessages
  /\ \A m \in ChatMessages : m.of \in Events
  /\ \A m, n \in ChatMessages : m.what = n.what /\ m.of = n.of => m = n
  /\ \A list \in Seq(ChatMessages) : \A i \in DOMAIN list : list[i] \in ChatMessages
  /\ Void \notin ChatMessages
<1>1. \A list \in Seq(ChatMessages) : \A i \in DOMAIN list : list[i] \in ChatMessages
  OBVIOUS
<1>2. Void \notin ChatMessages
  <2>1. \A m \in ChatMessages : m \in [what : {"asked", "question", "answer", "made up"}, of : Events]
    BY DEF ChatMessages
  <2>. QED  BY <2>1, WebAssumption
<1>3. \A e \in Events : {ShownQuestion(e), StoredQuestion(e), StoredAnswer(e), MadeUp(e)} \subseteq ChatMessages
  BY DEF ChatMessages, ShownQuestion, StoredQuestion, StoredAnswer, MadeUp
<1>4. \A m \in ChatMessages : m.of \in Events
  BY DEF ChatMessages
<1>5. ASSUME NEW m \in ChatMessages, NEW n \in ChatMessages, m.what = n.what, m.of = n.of PROVE m = n
  <2>1. m = [what |-> m.what, of |-> m.of]
    BY DEF ChatMessages
  <2>2. n = [what |-> n.what, of |-> n.of]
    BY DEF ChatMessages
  <2>. QED  BY <1>5, <2>1, <2>2
<1>. QED  BY <1>1, <1>2, <1>3, <1>4, <1>5

LEMMA PartialAre ==
  ASSUME NEW V, NEW f
  PROVE  /\ f \in Partial(V) => DOMAIN f \subseteq Chats /\ f \in [DOMAIN f -> V]
         /\ DOMAIN f \subseteq Chats /\ f \in [DOMAIN f -> V] => f \in Partial(V)
  BY DEF Partial

LEMMA AppendedOnce ==
  ASSUME NEW list \in Seq(ChatMessages), NEW m \in ChatMessages, IsInjective(list)
  PROVE  /\ AppendUnique(list, m) \in Seq(ChatMessages) /\ IsInjective(AppendUnique(list, m))
         /\ \A x : Holds(AppendUnique(list, m), x) <=> Holds(list, x) \/ x = m
<1>1. CASE Holds(list, m)
  BY <1>1 DEF AppendUnique, Holds
<1>2. CASE ~Holds(list, m)
  <2> DEFINE longer == Append(list, m)
  <2>1. /\ longer \in Seq(ChatMessages) /\ DOMAIN longer = 1..Len(list) + 1 /\ DOMAIN list = 1..Len(list)
        /\ Len(list) \in Nat /\ longer[Len(list) + 1] = m /\ \A i \in 1..Len(list) : longer[i] = list[i]
    OBVIOUS
  <2> HIDE DEF longer
  <2>2. AppendUnique(list, m) = longer
    BY <1>2 DEF AppendUnique, longer
  <2>3. \A i \in DOMAIN longer : i \in DOMAIN list \/ i = Len(list) + 1
    BY <2>1
  <2>4. IsInjective(longer)
    BY <1>2, <2>1, <2>3 DEF IsInjective, Holds
  <2>5. \A x : Holds(longer, x) <=> Holds(list, x) \/ x = m
    BY <2>1, <2>3 DEF Holds
  <2>. QED  BY <2>1, <2>2, <2>4, <2>5
<1>. QED  BY <1>1, <1>2

\* Turns keep their conversation, and what is stored and given up stays so.
Grows(turns, later) ==
  \A e \in Events : /\ turns[e].chat # Void => later[e].chat = turns[e].chat
                    /\ turns[e].stored => later[e].stored
                    /\ turns[e].gaveUp => later[e].gaveUp

LEMMA ItemsKept ==
  ASSUME NEW turns, NEW later, Grows(turns, later), NEW c \in Chats, NEW list, ItemsSound(list, c, turns)
  PROVE  ItemsSound(list, c, later)
  BY WebAssumption, MessagesAre DEF Grows, ItemsSound

LEMMA ViewKept ==
  ASSUME NEW turns, NEW later, Grows(turns, later), NEW c \in Chats, NEW list, ViewSound(list, c, turns)
  PROVE  ViewSound(list, c, later)
  BY WebAssumption, MessagesAre DEF Grows, ViewSound

\* What was loaded may be shown.
LEMMA ItemsShown ==
  ASSUME NEW turns, NEW c, NEW list, ItemsSound(list, c, turns)
  PROVE  ViewSound(list, c, turns)
<1>1. ASSUME NEW m \in ChatMessages, Holds(list, m), m.what = "question" PROVE ~Holds(list, ShownQuestion(m.of))
  BY <1>1, MessagesAre DEF ItemsSound, ShownQuestion
<1>. QED  BY <1>1 DEF ItemsSound, ViewSound

LEMMA NothingSound == ASSUME NEW turns, NEW c PROVE ItemsSound(<<>>, c, turns)
  BY DEF ItemsSound, IsInjective, Holds

\* Showing another conversation.
LEMMA ActivateSound ==
  ASSUME NEW turns, NEW page, PageListed(page, turns), NEW c \in Chats \cup {Void}, c = page.active => StaySound(page, turns)
  PROVE  PageSound(Activate(page, c), turns)
<1>1. CASE c = page.active
  BY <1>1 DEF Activate, PageSound
<1>2. CASE c # page.active
  <2> DEFINE next == [page EXCEPT !.active = c, !.skip = @ \ {c}, !.stayed = FALSE,
                           !.loads = IF WantsHistory(page, c) THEN {[poll |-> FALSE, items |-> Void]} ELSE {}]
  <2>1. Activate(page, c) = next
    BY <1>2 DEF Activate
  <2>2. page \in Pages
    BY DEF PageListed
  <2>3. next \in Pages
    <3>1. (IF WantsHistory(page, c) THEN {[poll |-> FALSE, items |-> Void]} ELSE {}) \in SUBSET Loads
      BY DEF Loads
    <3>2. page.skip \ {c} \in SUBSET Chats
      BY <2>2 DEF Pages
    <3>. QED  BY <2>2, <3>1, <3>2 DEF Pages
  <2>4. /\ next.chats = page.chats /\ next.index = page.index /\ ~next.stayed /\ next.active = c
        /\ \A l \in next.loads : c # Void /\ l.items = Void
    BY <2>2 DEF Pages, WantsHistory
  <2> HIDE DEF next
  <2>. QED  BY <2>1, <2>3, <2>4 DEF PageSound, PageListed, StaySound
<1>. QED  BY <1>1, <1>2

\* A conversation leaves the list.
LEMMA WithoutSound ==
  ASSUME NEW turns, NEW page, PageSound(page, turns), NEW c \in Chats
  PROVE  LET next == [page EXCEPT !.chats = Without(@, c)] IN
         /\ PageListed(next, turns) /\ next.active = page.active
         /\ c # page.active => StaySound(next, turns)
<1> DEFINE chats == Without(page.chats, c)
           next == [page EXCEPT !.chats = chats]
<1>1. page \in Pages /\ DOMAIN page.chats \subseteq Chats /\ page.chats \in [DOMAIN page.chats -> Views]
  BY PartialAre DEF PageSound, PageListed, Pages
<1>2. /\ DOMAIN chats = DOMAIN page.chats \ {c} /\ chats \in [DOMAIN chats -> Views]
      /\ \A d \in DOMAIN chats : chats[d] = page.chats[d]
  BY <1>1 DEF Without
<1> HIDE DEF chats
<1>3. chats \in Partial(Views)
  BY <1>1, <1>2, PartialAre
<1>4. /\ next \in Pages /\ next.chats = chats /\ next.active = page.active /\ next.stayed = page.stayed
      /\ next.mine = page.mine /\ next.loads = page.loads /\ next.index = page.index
  BY <1>1, <1>3 DEF Pages
<1>5. next = [page EXCEPT !.chats = Without(@, c)]
  BY DEF chats
<1> HIDE DEF next
<1>6. PageListed(next, turns)
  BY <1>2, <1>4 DEF PageSound, PageListed
<1>7. c # page.active => StaySound(next, turns)
  BY <1>2, <1>4 DEF PageSound, StaySound, Keeps
<1>. QED  BY <1>4, <1>5, <1>6, <1>7

\* The mode of a conversation is known, and polls of the old one end.
LEMMA WithModeSound ==
  ASSUME NEW turns, NEW page, PageSound(page, turns), NEW c \in Chats, NEW mode \in Modes
  PROVE  PageSound(WithMode(page, c, mode), turns)
<1>1. CASE c \notin DOMAIN page.chats
  BY <1>1 DEF WithMode
<1>2. CASE c \in DOMAIN page.chats
  <2> DEFINE loads == IF c = page.active /\ page.chats[c].mode # mode THEN {l \in page.loads : ~l.poll} ELSE page.loads
             row == [page.chats[c] EXCEPT !.mode = mode]
             chats == [page.chats EXCEPT ![c] = row]
             next == [page EXCEPT !.chats = chats, !.loads = loads]
  <2>1. page \in Pages /\ DOMAIN page.chats \subseteq Chats /\ page.chats \in [DOMAIN page.chats -> Views]
    BY PartialAre DEF PageSound, PageListed, Pages
  <2>2. WithMode(page, c, mode) = next
    BY <1>2, <2>1 DEF WithMode, Pages
  <2>3. row \in Views /\ row.messages = page.chats[c].messages
    BY <1>2, <2>1 DEF Views
  <2> HIDE DEF row
  <2>4. /\ chats \in [DOMAIN page.chats -> Views]
        /\ \A d \in DOMAIN page.chats : chats[d].messages = page.chats[d].messages
    BY <1>2, <2>1, <2>3
  <2> HIDE DEF chats
  <2>5. chats \in Partial(Views) /\ DOMAIN chats = DOMAIN page.chats
    BY <2>1, <2>4, PartialAre
  <2>6. loads \subseteq page.loads
    OBVIOUS
  <2> HIDE DEF loads
  <2>7. /\ next \in Pages /\ next.chats = chats /\ next.active = page.active /\ next.stayed = page.stayed
        /\ next.mine = page.mine /\ next.loads = loads /\ next.index = page.index
    BY <2>1, <2>5, <2>6 DEF Pages
  <2> HIDE DEF next
  <2>8. PageListed(next, turns)
    BY <2>4, <2>5, <2>6, <2>7 DEF PageSound, PageListed
  <2>9. StaySound(next, turns)
    BY <2>4, <2>5, <2>6, <2>7 DEF PageSound, StaySound, Keeps
  <2>. QED  BY <2>2, <2>8, <2>9 DEF PageSound
<1>. QED  BY <1>1, <1>2

\* A message that a conversation may show, and a page that shows it besides what it showed.
MayShow(turns, c, m) ==
  /\ c \in Chats \cup {Void} /\ m \in ChatMessages /\ turns[m.of].chat = c
  /\ m.what \in {"question", "answer"} => turns[m.of].stored
  /\ m.what = "made up" => turns[m.of].gaveUp
  /\ m.what # "question" /\ (m.what = "asked" => ~turns[m.of].stored)
ShowsToo(page, next, c, m) ==
  /\ next.active = page.active /\ next.stayed = page.stayed /\ DOMAIN next.chats = DOMAIN page.chats
  /\ \A d \in DOMAIN page.chats : \A x :
       Holds(next.chats[d].messages, x) <=> Holds(page.chats[d].messages, x) \/ (d = c /\ x = m)

\* A message of a turn is shown in its conversation, if the page lists that.
LEMMA WithMessageSound ==
  ASSUME NEW turns, NEW page, PageSound(page, turns), NEW c, NEW m, MayShow(turns, c, m),
         NEW next, next = [page EXCEPT !.chats = WithMessage(@, c, m)]
  PROVE  PageSound(next, turns) /\ ShowsToo(page, next, c, m)
<1>b. /\ c \in Chats \cup {Void} /\ m \in ChatMessages /\ turns[m.of].chat = c
      /\ m.what \in {"question", "answer"} => turns[m.of].stored
      /\ m.what = "made up" => turns[m.of].gaveUp
      /\ m.what # "question" /\ (m.what = "asked" => ~turns[m.of].stored)
  BY DEF MayShow
<1> DEFINE chats == WithMessage(page.chats, c, m)
<1>0. next = [page EXCEPT !.chats = chats]
  OBVIOUS
<1>1. page \in Pages /\ DOMAIN page.chats \subseteq Chats /\ page.chats \in [DOMAIN page.chats -> Views]
  BY PartialAre DEF PageSound, PageListed, Pages
<1>2. \A d \in DOMAIN page.chats : page.chats[d].messages \in Seq(ChatMessages) /\ ViewSound(page.chats[d].messages, d, turns)
  BY <1>1 DEF PageSound, PageListed, Views
<1>3. /\ chats \in [DOMAIN page.chats -> Views]
      /\ \A d \in DOMAIN page.chats : d # c => chats[d] = page.chats[d]
      /\ c \in DOMAIN page.chats => chats[c].messages = AppendUnique(page.chats[c].messages, m)
  <2>1. CASE c \notin DOMAIN page.chats
    BY <1>1, <2>1 DEF WithMessage
  <2>2. CASE c \in DOMAIN page.chats
    <3> DEFINE longer == AppendUnique(page.chats[c].messages, m)
    <3>1. longer \in Seq(ChatMessages)
      BY <1>b, <1>2, <2>2, AppendedOnce DEF ViewSound
    <3>2. chats = [page.chats EXCEPT ![c].messages = longer]
      BY <2>2 DEF WithMessage
    <3> HIDE DEF longer, chats
    <3>3. chats = [page.chats EXCEPT ![c] = [page.chats[c] EXCEPT !.messages = longer]]
      BY <3>2
    <3>4. [page.chats[c] EXCEPT !.messages = longer] \in Views /\ [page.chats[c] EXCEPT !.messages = longer].messages = longer
      BY <1>1, <2>2, <3>1 DEF Views
    <3>5. chats \in [DOMAIN page.chats -> Views] /\ chats[c].messages = longer
      BY <1>1, <2>2, <3>3, <3>4
    <3>6. \A d \in DOMAIN page.chats : d # c => chats[d] = page.chats[d]
      BY <1>1, <3>3
    <3>. QED  BY <3>5, <3>6 DEF longer
  <2>. QED  BY <2>1, <2>2
<1> HIDE DEF chats
<1>4. \A d \in DOMAIN page.chats : \A x :
        Holds(chats[d].messages, x) <=> Holds(page.chats[d].messages, x) \/ (d = c /\ x = m)
  <2>1. CASE c \notin DOMAIN page.chats
    BY <1>3, <2>1
  <2>2. CASE c \in DOMAIN page.chats
    <3> DEFINE list == page.chats[c].messages
    <3>1. list \in Seq(ChatMessages) /\ IsInjective(list)
      BY <1>2, <2>2 DEF ViewSound
    <3>2. /\ IsInjective(AppendUnique(list, m))
          /\ \A x : Holds(AppendUnique(list, m), x) <=> Holds(list, x) \/ x = m
      BY <1>b, <3>1, AppendedOnce
    <3>3. chats[c].messages = AppendUnique(list, m)
      BY <1>3, <2>2
    <3> HIDE DEF list
    <3>4. \A d \in DOMAIN page.chats : d # c => chats[d].messages = page.chats[d].messages /\ IsInjective(page.chats[d].messages)
      BY <1>2, <1>3 DEF ViewSound
    <3>. QED  BY <3>2, <3>3, <3>4 DEF list
  <2>. QED  BY <2>1, <2>2
<1>5. \A d \in DOMAIN page.chats : IsInjective(chats[d].messages)
  <2>1. CASE c \notin DOMAIN page.chats
    BY <1>2, <1>3, <2>1 DEF ViewSound
  <2>2. CASE c \in DOMAIN page.chats
    <3> DEFINE list == page.chats[c].messages
    <3>1. list \in Seq(ChatMessages) /\ IsInjective(list)
      BY <1>2, <2>2 DEF ViewSound
    <3>2. /\ IsInjective(AppendUnique(list, m))
          /\ \A x : Holds(AppendUnique(list, m), x) <=> Holds(list, x) \/ x = m
      BY <1>b, <3>1, AppendedOnce
    <3>3. chats[c].messages = AppendUnique(list, m)
      BY <1>3, <2>2
    <3> HIDE DEF list
    <3>4. \A d \in DOMAIN page.chats : d # c => chats[d].messages = page.chats[d].messages /\ IsInjective(page.chats[d].messages)
      BY <1>2, <1>3 DEF ViewSound
    <3>. QED  BY <3>2, <3>3, <3>4 DEF list
  <2>. QED  BY <2>1, <2>2
<1>6. ASSUME NEW d \in DOMAIN page.chats PROVE ViewSound(chats[d].messages, d, turns)
  <2>1. ASSUME NEW x \in ChatMessages, Holds(chats[d].messages, x)
        PROVE  /\ turns[x.of].chat = d
               /\ x.what \in {"question", "answer"} => turns[x.of].stored
               /\ x.what = "made up" => turns[x.of].gaveUp
               /\ x.what = "question" => ~Holds(chats[d].messages, ShownQuestion(x.of))
    <3>1. CASE x = m /\ d = c
      BY <1>b, <3>1
    <3>2. CASE Holds(page.chats[d].messages, x)
      <4>1. /\ turns[x.of].chat = d
            /\ x.what \in {"question", "answer"} => turns[x.of].stored
            /\ x.what = "made up" => turns[x.of].gaveUp
            /\ x.what = "question" => ~Holds(page.chats[d].messages, ShownQuestion(x.of))
        BY <1>2, <3>2 DEF ViewSound
      <4>2. ASSUME x.what = "question", m = ShownQuestion(x.of) PROVE FALSE
        <5>1. m.what = "asked" /\ m.of = x.of /\ ~turns[m.of].stored
          BY <1>b, <4>2 DEF ShownQuestion
        <5>. QED  BY <4>1, <4>2, <5>1
      <4>. QED  BY <1>4, <4>1, <4>2
    <3>. QED  BY <1>4, <2>1, <3>1, <3>2
  <2>. QED  BY <1>5, <2>1 DEF ViewSound
<1>7. /\ next \in Pages /\ next.chats = chats /\ next.active = page.active /\ next.stayed = page.stayed
      /\ next.mine = page.mine /\ next.loads = page.loads /\ next.index = page.index /\ DOMAIN chats = DOMAIN page.chats
  <2>1. chats \in Partial(Views)
    BY <1>1, <1>3, PartialAre
  <2>. QED  BY <1>0, <1>1, <1>3, <2>1 DEF Pages
<1>8. StaySound(next, turns)
  BY <1>4, <1>7 DEF PageSound, PageListed, StaySound, Keeps
<1>9. PageSound(next, turns)
  BY <1>6, <1>7, <1>8 DEF PageSound, PageListed
<1>. QED  BY <1>4, <1>7, <1>9 DEF ShowsToo

-----------------------------------------------------------------------------
(* Steps of the page alone *)

PageStep == UNCHANGED <<server, sent>> /\ PageSound(tab', sent)

LEMMA PageStepInv == ASSUME WebInv, PageStep PROVE WebInv'
  BY DEF WebInv, PageStep

LEMMA KnownPage ==
  ASSUME WebInv
  PROVE  /\ tab \in Pages /\ PageSound(tab, sent) /\ StoreSound(server, sent) /\ Listed \subseteq Chats
         /\ tab.chats \in [Listed -> Views] /\ \A c \in Listed : c # Void
  BY WebAssumption, PartialAre DEF WebInv, PageSound, PageListed, Pages, Listed

LEMMA ShowInv ==
  ASSUME WebInv, NEW c \in Chats \cup {Void}, tab' = Activate(tab, c), UNCHANGED <<server, sent>>
  PROVE  WebInv'
  BY ActivateSound, PageStepInv DEF WebInv, PageStep, PageSound

LEMMA IndexReadInv == ASSUME WebInv, IndexRead PROVE WebInv'
<1> DEFINE list == [c \in {d \in Chats : Known(d)} |-> server[c].mode]
           index == [tab.index EXCEPT !.at = "read", !.list = list]
<1>1. tab \in Pages /\ PageSound(tab, sent) /\ server \in [Chats -> Conversations]
  BY DEF WebInv, PageSound, PageListed, StoreSound
<1>2. list \in Partial(Modes)
  <2>1. list \in [{d \in Chats : Known(d)} -> Modes]
    BY <1>1 DEF Conversations
  <2>. QED  BY <2>1, PartialAre
<1>3. /\ tab' \in Pages /\ tab'.index.list = list /\ tab'.chats = tab.chats /\ tab'.active = tab.active
      /\ tab'.loads = tab.loads /\ tab'.mine = tab.mine /\ tab'.stayed = tab.stayed /\ UNCHANGED <<server, sent>>
  BY <1>1, <1>2 DEF IndexRead, Pages, Indexes
<1> HIDE DEF list
<1>4. PageSound(tab', sent)
  BY <1>1, <1>2, <1>3 DEF PageSound, PageListed, StaySound, Keeps
<1>. QED  BY <1>3, <1>4, PageStepInv DEF PageStep

LEMMA IndexArrivesInv == ASSUME WebInv, IndexArrives PROVE WebInv'
<1> DEFINE list == tab.index.list
           chats == MergedIndex(tab.chats, list, tab.mine)
           page == [tab EXCEPT !.chats = chats, !.index = [at |-> "done", list |-> Void, active |-> Void]]
<1>1. /\ tab \in Pages /\ PageSound(tab, sent) /\ Listed \subseteq Chats /\ tab.chats \in [Listed -> Views]
      /\ list \in Partial(Modes)
  BY KnownPage DEF IndexArrives, PageSound, PageListed
<1>2. DOMAIN list \subseteq Chats /\ list \in [DOMAIN list -> Modes]
  BY <1>1, PartialAre
<1>3. /\ DOMAIN chats = DOMAIN list \cup (Listed \cap tab.mine)
      /\ \A c \in DOMAIN chats :
           /\ chats[c] \in Views
           /\ c \in Listed => chats[c].messages = tab.chats[c].messages
           /\ c \notin Listed => chats[c].messages = <<>>
  <2>1. DOMAIN chats = DOMAIN list \cup (Listed \cap tab.mine)
    BY DEF MergedIndex, Listed
  <2>2. ASSUME NEW c \in DOMAIN chats, c \notin DOMAIN list
        PROVE chats[c] = tab.chats[c] /\ c \in Listed
    BY <2>1, <2>2 DEF MergedIndex
  <2>3. ASSUME NEW c \in DOMAIN chats, c \in DOMAIN list
        PROVE chats[c] = [mode |-> list[c], messages |-> IF c \in Listed THEN tab.chats[c].messages ELSE <<>>]
    BY <2>1, <2>3 DEF MergedIndex, Listed
  <2> HIDE DEF chats, list
  <2>4. ASSUME NEW c \in DOMAIN chats, c \in DOMAIN list
        PROVE  /\ chats[c] \in Views
               /\ c \in Listed => chats[c].messages = tab.chats[c].messages
               /\ c \notin Listed => chats[c].messages = <<>>
    <3>1. list[c] \in Modes /\ (c \in Listed => tab.chats[c].messages \in Seq(ChatMessages)) /\ <<>> \in Seq(ChatMessages)
      BY <1>1, <1>2, <2>4 DEF Views
    <3>2. CASE c \in Listed
      BY <2>3, <2>4, <3>1, <3>2 DEF Views
    <3>3. CASE c \notin Listed
      <4>1. chats[c] = [mode |-> list[c], messages |-> <<>>]
        BY <2>3, <2>4, <3>3
      <4>2. list[c] \in Modes /\ <<>> \in Seq(ChatMessages)
        BY <3>1
      <4>3. [mode |-> list[c], messages |-> <<>>] \in Views
        BY <4>2 DEF Views
      <4>. QED  BY <3>3, <4>1, <4>3
    <3>. QED  BY <3>2, <3>3
  <2>. QED  BY <1>1, <2>1, <2>2, <2>4
<1>4. \A c \in DOMAIN chats : ViewSound(chats[c].messages, c, sent)
  <2>1. \A c \in Listed : ViewSound(tab.chats[c].messages, c, sent)
    BY <1>1 DEF PageSound, PageListed, Listed
  <2>2. \A c : ViewSound(<<>>, c, sent)
    BY NothingSound, ItemsShown
  <2> HIDE DEF chats, list
  <2>. QED  BY <1>3, <2>1, <2>2
<1>5. chats \in Partial(Views)
  <2>1. DOMAIN chats \subseteq Chats /\ chats \in [DOMAIN chats -> Views]
    <3>1. chats = [c \in DOMAIN chats |-> chats[c]]
      BY DEF MergedIndex
    <3> HIDE DEF chats, list
    <3>2. DOMAIN chats \subseteq Chats
      BY <1>1, <1>2, <1>3
    <3>. QED  BY <1>3, <3>1, <3>2
  <2> HIDE DEF chats
  <2>. QED  BY <2>1, PartialAre
<1> HIDE DEF chats, list
<1>6. /\ page \in Pages /\ page.chats = chats /\ page.active = tab.active /\ page.loads = tab.loads
      /\ page.mine = tab.mine /\ page.stayed = tab.stayed /\ page.index.at = "done"
  BY <1>1, <1>5 DEF Pages, Indexes
<1> HIDE DEF page
<1>7. StaySound(page, sent)
  <2>1. tab.stayed => tab.active \in Listed \cap tab.mine /\ tab.loads = {} /\ \E e \in Events : Keeps(tab, e, sent)
    BY <1>1 DEF PageSound, PageListed, StaySound, Listed
  <2>2. tab.stayed => tab.active \in DOMAIN chats /\ chats[tab.active].messages = tab.chats[tab.active].messages
    BY <1>3, <2>1
  <2>3. tab.stayed => \A e \in Events : Keeps(tab, e, sent) => Keeps(page, e, sent)
    BY <1>6, <2>2 DEF Keeps
  <2>. QED  BY <1>6, <2>1, <2>2, <2>3 DEF StaySound
<1>8. PageSound(page, sent)
  BY <1>1, <1>4, <1>6, <1>7 DEF PageSound, PageListed
<1>9. tab' = (IF tab.index.active \in DOMAIN list THEN Activate(page, tab.index.active) ELSE page) /\ UNCHANGED <<server, sent>>
  BY DEF IndexArrives, page, chats, list
<1>. QED  BY <1>2, <1>8, <1>9, ActivateSound, PageStepInv DEF PageStep, PageSound

LEMMA IndexFailsInv == ASSUME WebInv, IndexFails PROVE WebInv'
<1>1. tab \in Pages /\ PageSound(tab, sent)
  BY KnownPage
<1>2. /\ tab' \in Pages /\ tab'.index.at = "done" /\ tab'.chats = tab.chats /\ tab'.active = tab.active
      /\ tab'.loads = tab.loads /\ tab'.mine = tab.mine /\ tab'.stayed = tab.stayed /\ UNCHANGED <<server, sent>>
  BY <1>1 DEF IndexFails, Pages, Indexes
<1>3. PageSound(tab', sent)
  BY <1>1, <1>2 DEF PageSound, PageListed, StaySound, Keeps
<1>. QED  BY <1>2, <1>3, PageStepInv DEF PageStep

LEMMA PollInv == ASSUME WebInv, Poll PROVE WebInv'
<1>1. tab \in Pages /\ PageSound(tab, sent) /\ tab.active # Void
  BY KnownPage DEF Poll
<1>2. [poll |-> TRUE, items |-> Void] \in Loads
  BY DEF Loads
<1>3. /\ tab' \in Pages /\ tab'.index = tab.index /\ tab'.chats = tab.chats /\ tab'.active = tab.active
      /\ tab'.loads = tab.loads \cup {[poll |-> TRUE, items |-> Void]} /\ ~tab'.stayed /\ UNCHANGED <<server, sent>>
  BY <1>1, <1>2 DEF Poll, Pages
<1>4. PageSound(tab', sent)
  BY <1>1, <1>3 DEF PageSound, PageListed, StaySound
<1>. QED  BY <1>3, <1>4, PageStepInv DEF PageStep

LEMMA LoadReadInv == ASSUME WebInv, NEW l \in tab.loads, LoadRead(l) PROVE WebInv'
<1>1. tab \in Pages /\ PageSound(tab, sent) /\ StoreSound(server, sent) /\ tab.active \in Chats /\ ~tab.stayed
  BY KnownPage DEF PageSound, PageListed, StaySound, Pages
<1> DEFINE new == [l EXCEPT !.items = server[tab.active].messages]
<1>2. l \in Loads /\ server[tab.active].messages \in Seq(ChatMessages)
  BY <1>1 DEF Pages, StoreSound, Conversations
<1>3. new \in Loads /\ new.items = server[tab.active].messages
  BY <1>2 DEF Loads
<1> HIDE DEF new
<1>4. /\ tab' \in Pages /\ tab'.index = tab.index /\ tab'.chats = tab.chats /\ tab'.active = tab.active
      /\ tab'.loads = (tab.loads \ {l}) \cup {new} /\ ~tab'.stayed /\ UNCHANGED <<server, sent>>
  BY <1>1, <1>3 DEF LoadRead, Pages, new
<1>5. ItemsSound(new.items, tab.active, sent)
  BY <1>1, <1>3 DEF StoreSound
<1>6. PageSound(tab', sent)
  BY <1>1, <1>4, <1>5, WebAssumption DEF PageSound, PageListed, StaySound
<1>. QED  BY <1>4, <1>6, PageStepInv DEF PageStep

LEMMA LoadFailsInv == ASSUME WebInv, NEW l \in tab.loads, LoadFails(l) PROVE WebInv'
<1>1. tab \in Pages /\ PageSound(tab, sent)
  BY KnownPage
<1>2. /\ tab' \in Pages /\ tab'.index = tab.index /\ tab'.chats = tab.chats /\ tab'.active = tab.active
      /\ tab'.loads = tab.loads \ {l} /\ tab'.mine = tab.mine /\ tab'.stayed = tab.stayed /\ UNCHANGED <<server, sent>>
  BY <1>1 DEF LoadFails, Pages
<1>3. PageSound(tab', sent)
  BY <1>1, <1>2 DEF PageSound, PageListed, StaySound, Keeps
<1>. QED  BY <1>2, <1>3, PageStepInv DEF PageStep

LEMMA LoadArrivesInv == ASSUME WebInv, NEW l \in tab.loads, LoadArrives(l) PROVE WebInv'
<1> DEFINE c == tab.active
           chats == IF c \in Listed THEN [tab.chats EXCEPT ![c].messages = l.items] ELSE tab.chats
<1>1. /\ tab \in Pages /\ PageSound(tab, sent) /\ Listed \subseteq Chats /\ tab.chats \in [Listed -> Views]
      /\ ItemsSound(l.items, c, sent) /\ ~tab.stayed /\ l \in Loads /\ l.items # Void
  BY KnownPage DEF PageSound, PageListed, StaySound, Pages, LoadArrives
<1>2. l.items \in Seq(ChatMessages)
  BY <1>1 DEF Loads
<1>3. /\ chats \in [Listed -> Views]
      /\ \A d \in Listed : chats[d].messages = IF d = c THEN l.items ELSE tab.chats[d].messages
  <2>1. CASE c \in Listed
    <3>1. [tab.chats[c] EXCEPT !.messages = l.items] \in Views
      BY <1>1, <1>2, <2>1 DEF Views
    <3>2. chats = [tab.chats EXCEPT ![c] = [tab.chats[c] EXCEPT !.messages = l.items]]
      BY <2>1
    <3> HIDE DEF chats
    <3>3. [tab.chats[c] EXCEPT !.messages = l.items].messages = l.items
      BY <1>1, <2>1 DEF Views
    <3>. QED  BY <1>1, <2>1, <3>1, <3>2, <3>3
  <2>2. CASE c \notin Listed
    BY <1>1, <2>2
  <2>. QED  BY <2>1, <2>2
<1> HIDE DEF chats
<1>4. chats \in Partial(Views) /\ DOMAIN chats = Listed
  BY <1>1, <1>3, PartialAre
<1>5. /\ tab' \in Pages /\ tab'.index = tab.index /\ tab'.chats = chats /\ tab'.active = tab.active
      /\ tab'.loads = tab.loads \ {l} /\ ~tab'.stayed /\ UNCHANGED <<server, sent>>
  BY <1>1, <1>4 DEF LoadArrives, Pages, chats
<1>6. \A d \in Listed : ViewSound(chats[d].messages, d, sent)
  BY <1>1, <1>3, ItemsShown DEF PageSound, PageListed, Listed
<1>7. PageSound(tab', sent)
  BY <1>1, <1>4, <1>5, <1>6 DEF PageSound, PageListed, StaySound
<1>. QED  BY <1>5, <1>7, PageStepInv DEF PageStep

-----------------------------------------------------------------------------
(* Steps of a turn *)

LEMMA OneTurn ==
  ASSUME WebInv, NEW e \in Events, NEW t \in Sendings, TurnSound(e, t), sent' = [sent EXCEPT ![e] = t],
         sent[e].chat # Void => t.chat = sent[e].chat, sent[e].stored => t.stored, sent[e].gaveUp => t.gaveUp
  PROVE  /\ sent' \in [Events -> Sendings] /\ \A d \in Events : TurnSound(d, sent'[d])
         /\ sent'[e] = t /\ \A d \in Events \ {e} : sent'[d] = sent[d]
         /\ Grows(sent, sent')
<1>1. sent \in [Events -> Sendings] /\ \A d \in Events : TurnSound(d, sent[d])
  BY DEF WebInv
<1>2. sent'[e] = t /\ \A d \in Events \ {e} : sent'[d] = sent[d]
  BY <1>1
<1>3. Grows(sent, sent')
  BY <1>2 DEF Grows
<1>4. sent' \in [Events -> Sendings]
  BY <1>1
<1>. QED  BY <1>1, <1>2, <1>3, <1>4

LEMMA PageGrown ==
  ASSUME NEW page, NEW turns, NEW later, PageSound(page, turns), Grows(turns, later),
         page.stayed => \E e \in Events : Keeps(page, e, later)
  PROVE  PageSound(page, later)
<1>1. page \in Pages /\ DOMAIN page.chats \subseteq Chats /\ page.active \in Chats \cup {Void}
  BY PartialAre DEF PageSound, PageListed, Pages
<1>2. \A c \in DOMAIN page.chats : ViewSound(page.chats[c].messages, c, later)
  BY <1>1, ViewKept DEF PageSound, PageListed
<1>3. \A l \in page.loads : page.active # Void /\ (l.items # Void => ItemsSound(l.items, page.active, later))
  BY <1>1, ItemsKept DEF PageSound, PageListed
<1>. QED  BY <1>2, <1>3 DEF PageSound, PageListed, StaySound

LEMMA StoreGrown ==
  ASSUME NEW turns, NEW later, StoreSound(server, turns), Grows(turns, later)
  PROVE  StoreSound(server, later)
  BY ItemsKept DEF StoreSound

\* A step that leaves the page alone keeps what it shows.
LEMMA OffPage ==
  ASSUME WebInv, NEW e \in Events, Grows(sent, sent'), \A d \in Events \ {e} : sent'[d] = sent[d],
         sent'[e].first = sent[e].first, sent'[e].chat = sent[e].chat \/ sent[e].chat = Void,
         sent'[e].at = "done" => sent[e].at = "done" /\ sent'[e].reply = sent[e].reply,
         sent'[e].here => sent[e].here
  PROVE  PageSound(tab, sent')
<1>1. PageSound(tab, sent) /\ (tab.stayed => tab.active \in Chats /\ \E d \in Events : Keeps(tab, d, sent))
  BY KnownPage DEF PageSound, StaySound, Listed
<1>2. \A d \in Events : tab.active \in Chats /\ Keeps(tab, d, sent) => Keeps(tab, d, sent')
  BY WebAssumption DEF Keeps
<1>. QED  BY <1>1, <1>2, PageGrown

\* Firsts stay apart where conversations stay in use and turns keep theirs.
LEMMA FirstsKept ==
  ASSUME WebInv, \A d \in Events : sent'[d].first = sent[d].first /\ sent'[d].chat = sent[d].chat,
         \A c \in Chats : server[c].is # "unused" => server'[c].is # "unused"
  PROVE  FirstsApart(server', sent')
<1>1. \A d \in Events : sent[d].chat \in Chats \cup {Void}
  BY DEF WebInv, Sendings
<1>. QED  BY <1>1 DEF WebInv, FirstsApart

\* A conversation's row is replaced by one that is in use.
LEMMA RowSound ==
  ASSUME NEW turns, NEW c \in Chats, NEW row \in Conversations, StoreSound(server, turns),
         ItemsSound(row.messages, c, turns), row.is # "unused" \/ row.is = server[c].is,
         server' = [server EXCEPT ![c] = row]
  PROVE  /\ StoreSound(server', turns)
         /\ \A d \in Chats : server[d].is # "unused" => server'[d].is # "unused"
  BY DEF StoreSound

LEMMA DeletedRow == Deleted \in Conversations /\ Deleted.is # "unused" /\ \A turns, c : ItemsSound(Deleted.messages, c, turns)
  BY NothingSound DEF Deleted, Conversations, Modes

LEMMA SendInv == ASSUME WebInv, NEW e \in Events, Send(e) PROVE WebInv'
<1> DEFINE t == [sent[e] EXCEPT !.at = IF tab.active = Void THEN "create" ELSE "nadim",
                                !.chat = tab.active, !.here = TRUE, !.first = tab.active = Void]
<1>1. /\ tab \in Pages /\ PageSound(tab, sent) /\ tab.active \in Chats \cup {Void}
      /\ sent[e] \in Sendings /\ TurnSound(e, sent[e]) /\ sent[e].at = "unused"
  BY KnownPage DEF Send, WebInv, Pages
<1>2. /\ t \in Sendings /\ t.chat = tab.active /\ t.at = (IF tab.active = Void THEN "create" ELSE "nadim")
      /\ t.first = (tab.active = Void) /\ t.stored = sent[e].stored /\ t.storing = sent[e].storing
      /\ t.reply = sent[e].reply /\ t.gaveUp = sent[e].gaveUp /\ t.deleted = sent[e].deleted
  BY <1>1 DEF Sendings
<1>3. sent' = [sent EXCEPT ![e] = t] /\ server' = server /\ tab' = [tab EXCEPT !.chats = WithMessage(@, tab.active, ShownQuestion(e))]
  BY DEF Send
<1> HIDE DEF t
<1>4. TurnSound(e, t) /\ sent[e].chat = Void /\ ~t.stored
  BY <1>1, <1>2 DEF TurnSound
<1>5. /\ sent' \in [Events -> Sendings] /\ \A d \in Events : TurnSound(d, sent'[d])
      /\ sent'[e] = t /\ (\A d \in Events \ {e} : sent'[d] = sent[d]) /\ Grows(sent, sent')
  BY <1>2, <1>3, <1>4, OneTurn
<1>6. PageSound(tab, sent')
  <2>1. tab.stayed => tab.active \in Chats /\ \E d \in Events : Keeps(tab, d, sent)
    BY KnownPage DEF PageSound, StaySound, Listed
  <2>2. \A d \in Events : tab.active \in Chats /\ Keeps(tab, d, sent) => Keeps(tab, d, sent')
    BY <1>4, <1>5, WebAssumption DEF Keeps
  <2>. QED  BY <1>1, <1>5, <2>1, <2>2, PageGrown
<1>7. /\ ShownQuestion(e) \in ChatMessages /\ ShownQuestion(e).what = "asked" /\ ShownQuestion(e).of = e
  BY MessagesAre DEF ShownQuestion
<1>8. PageSound(tab', sent')
  <2>1. MayShow(sent', tab.active, ShownQuestion(e))
    BY <1>1, <1>2, <1>4, <1>5, <1>7 DEF MayShow
  <2>. QED  BY <1>3, <1>6, <2>1, WithMessageSound
<1>9. StoreSound(server', sent')
  BY <1>3, <1>5, StoreGrown DEF WebInv
<1>10. FirstsApart(server', sent')
  BY <1>2, <1>3, <1>4, <1>5 DEF WebInv, FirstsApart
<1>. QED  BY <1>5, <1>8, <1>9, <1>10 DEF WebInv

LEMMA CreateStoredInv == ASSUME WebInv, NEW e \in Events, NEW c \in Chats, CreateStored(e, c) PROVE WebInv'
<1> DEFINE t == [sent[e] EXCEPT !.at = "created", !.chat = c]
           row == [server[c] EXCEPT !.is = "known"]
<1>1. /\ sent[e] \in Sendings /\ TurnSound(e, sent[e]) /\ sent[e].at = "create" /\ server[c].is = "unused"
      /\ server[c] \in Conversations /\ StoreSound(server, sent) /\ ItemsSound(server[c].messages, c, sent)
      /\ sent \in [Events -> Sendings] /\ server \in [Chats -> Conversations]
  BY DEF CreateStored, WebInv, StoreSound
<1>2. /\ t \in Sendings /\ t.chat = c /\ t.at = "created"
      /\ t.first = sent[e].first /\ t.stored = sent[e].stored /\ t.storing = sent[e].storing
      /\ t.reply = sent[e].reply /\ t.gaveUp = sent[e].gaveUp /\ t.deleted = sent[e].deleted /\ t.here = sent[e].here
  BY <1>1 DEF Sendings
<1>3. /\ sent' = [sent EXCEPT ![e] = t] /\ server' = [server EXCEPT ![c] = row] /\ tab' = tab
      /\ row \in Conversations /\ row.messages = server[c].messages /\ row.is = "known"
  BY <1>1 DEF CreateStored, Conversations
<1> HIDE DEF t, row
<1>4. TurnSound(e, t) /\ sent[e].chat = Void
  BY <1>1, <1>2, WebAssumption DEF TurnSound
<1>5. /\ sent' \in [Events -> Sendings] /\ \A d \in Events : TurnSound(d, sent'[d])
      /\ sent'[e] = t /\ (\A d \in Events \ {e} : sent'[d] = sent[d]) /\ Grows(sent, sent')
  BY <1>2, <1>3, <1>4, OneTurn
<1>6. PageSound(tab, sent')
  BY <1>2, <1>4, <1>5, OffPage
<1>7. StoreSound(server, sent') /\ ItemsSound(row.messages, c, sent')
  BY <1>1, <1>3, <1>5, StoreGrown, ItemsKept
<1>8. StoreSound(server', sent')
  BY <1>3, <1>7, RowSound
<1>9. FirstsApart(server', sent')
  <2>1. server'[c].is = "known" /\ \A d \in Chats \ {c} : server'[d] = server[d]
    BY <1>1, <1>3
  <2>2. \A d \in Events \ {e} : sent[d].first => sent[d].chat # c
    BY <1>1, WebAssumption DEF WebInv, FirstsApart
  <2>3. \A d \in Events : sent[d].chat \in Chats \cup {Void}
    BY <1>1 DEF Sendings
  <2>. QED  BY <1>2, <1>4, <1>5, <2>1, <2>2, <2>3 DEF WebInv, FirstsApart
<1>. QED  BY <1>3, <1>5, <1>6, <1>8, <1>9 DEF WebInv

LEMMA CreateArrivesInv == ASSUME WebInv, NEW e \in Events, CreateArrives(e) PROVE WebInv'
<1> DEFINE t == [sent[e] EXCEPT !.at = "nadim"]
           c == sent[e].chat
           new == [mode |-> "AI", messages |-> <<ShownQuestion(e)>>]
           chats == [d \in {c} \cup Listed |-> IF d = c THEN new ELSE tab.chats[d]]
           page == [tab EXCEPT !.mine = @ \cup {c}, !.skip = @ \cup {c}, !.chats = chats]
<1>1. /\ sent[e] \in Sendings /\ TurnSound(e, sent[e]) /\ sent[e].at = "created" /\ c \in Chats /\ sent[e].first
      /\ PageSound(tab, sent) /\ tab \in Pages /\ Listed \subseteq Chats /\ tab.chats \in [Listed -> Views]
  BY KnownPage DEF CreateArrives, WebInv, TurnSound, Sendings
<1>2. /\ t \in Sendings /\ t.at = "nadim" /\ t.chat = c
      /\ t.first = sent[e].first /\ t.stored = sent[e].stored /\ t.storing = sent[e].storing
      /\ t.reply = sent[e].reply /\ t.gaveUp = sent[e].gaveUp /\ t.deleted = sent[e].deleted /\ t.here = sent[e].here
  BY <1>1 DEF Sendings
<1>3. /\ sent' = [sent EXCEPT ![e] = t] /\ server' = server
      /\ tab' = [Activate(page, c) EXCEPT !.stayed = tab.active # c]
  BY DEF CreateArrives
<1>4. new \in Views /\ new.messages = <<ShownQuestion(e)>> /\ ShownQuestion(e) \in ChatMessages
  BY MessagesAre DEF Views, Modes
<1> HIDE DEF t, new
<1>5. /\ DOMAIN chats = {c} \cup Listed /\ chats \in [DOMAIN chats -> Views] /\ chats[c] = new
      /\ \A d \in Listed \ {c} : chats[d] = tab.chats[d]
  BY <1>1, <1>4
<1>6. chats \in Partial(Views) /\ c \in DOMAIN chats
  <2> HIDE DEF chats
  <2>. QED  BY <1>1, <1>5, PartialAre
<1> HIDE DEF chats
<1>7. /\ page \in Pages /\ page.chats = chats /\ page.active = tab.active /\ page.loads = tab.loads
      /\ page.mine = tab.mine \cup {c} /\ c \in page.skip /\ page.index = tab.index
  BY <1>1, <1>6 DEF Pages
<1> HIDE DEF page
<1>8. /\ tab' \in Pages /\ tab'.chats = chats /\ tab'.active = c /\ tab'.mine = tab.mine \cup {c}
      /\ tab'.index = tab.index /\ tab'.stayed = (tab.active # c)
      /\ tab'.loads = (IF tab.active = c THEN tab.loads ELSE {})
  <2>1. CASE tab.active = c
    <3>1. tab' = [page EXCEPT !.stayed = FALSE]
      BY <1>3, <1>7, <2>1 DEF Activate
    <3>. QED  BY <1>7, <2>1, <3>1 DEF Pages
  <2>2. CASE tab.active # c
    <3>1. ~WantsHistory(page, c)
      BY <1>7 DEF WantsHistory
    <3>2. tab' = [[page EXCEPT !.active = c, !.skip = @ \ {c}, !.stayed = FALSE, !.loads = {}] EXCEPT !.stayed = TRUE]
      BY <1>3, <1>7, <2>2, <3>1 DEF Activate
    <3>3. page.skip \ {c} \in SUBSET Chats /\ {} \in SUBSET Loads
      BY <1>7 DEF Pages
    <3>. QED  BY <1>1, <1>7, <2>2, <3>2, <3>3 DEF Pages
  <2>. QED  BY <2>1, <2>2
<1>9. TurnSound(e, t)
  BY <1>1, <1>2 DEF TurnSound
<1>10. /\ sent' \in [Events -> Sendings] /\ \A d \in Events : TurnSound(d, sent'[d])
       /\ sent'[e] = t /\ (\A d \in Events \ {e} : sent'[d] = sent[d]) /\ Grows(sent, sent')
  BY <1>2, <1>3, <1>9, OneTurn
<1>11. ViewSound(chats[c].messages, c, sent')
  <2>1. chats[c].messages = <<ShownQuestion(e)>>
    BY <1>4, <1>5
  <2>2. IsInjective(<<ShownQuestion(e)>>) /\ \A m : Holds(<<ShownQuestion(e)>>, m) <=> m = ShownQuestion(e)
    BY DEF IsInjective, Holds
  <2>3. ShownQuestion(e).what = "asked" /\ ShownQuestion(e).of = e /\ sent'[e].chat = c
    BY <1>2, <1>10 DEF ShownQuestion
  <2>. QED  BY <2>1, <2>2, <2>3 DEF ViewSound
<1>12. \A d \in DOMAIN chats : ViewSound(chats[d].messages, d, sent')
  <2>1. \A d \in Listed : ViewSound(tab.chats[d].messages, d, sent')
    BY <1>1, <1>10, ViewKept DEF PageSound, PageListed, Listed
  <2>. QED  BY <1>5, <1>11, <2>1
<1>13. \A l \in tab'.loads : tab'.active # Void /\ (l.items # Void => ItemsSound(l.items, tab'.active, sent'))
  BY <1>1, <1>8, <1>10, WebAssumption, ItemsKept DEF PageSound, PageListed
<1>14. tab'.stayed => /\ tab'.active \in DOMAIN tab'.chats /\ tab'.active \in tab'.mine /\ tab'.loads = {}
                      /\ Keeps(tab', e, sent')
  <2>1. Holds(chats[c].messages, ShownQuestion(e))
    BY <1>4, <1>5 DEF Holds
  <2>. QED  BY <1>1, <1>2, <1>5, <1>6, <1>8, <1>10, <2>1 DEF Keeps
<1>15. PageSound(tab', sent')
  BY <1>1, <1>8, <1>12, <1>13, <1>14 DEF PageSound, PageListed, StaySound
<1>16. StoreSound(server', sent')
  BY <1>3, <1>10, StoreGrown DEF WebInv
<1>17. FirstsApart(server', sent')
  BY <1>2, <1>3, <1>10, FirstsKept
<1>. QED  BY <1>10, <1>15, <1>16, <1>17 DEF WebInv

LEMMA NadimAnswersInv ==
  ASSUME WebInv, NEW e \in Events, NEW mode \in Modes, NEW deleted \in BOOLEAN, NadimAnswers(e, mode, deleted)
  PROVE  WebInv'
<1> DEFINE c == sent[e].chat
           suppressed == mode = "HUMAN" /\ server[c].mode = "HUMAN"
           reply == IF suppressed \/ deleted THEN Void ELSE StoredAnswer(e)
           t == [sent[e] EXCEPT !.at = IF deleted THEN "answer" ELSE "store", !.mode = mode, !.deleted = deleted,
                                !.reply = reply, !.storing = ~deleted]
           row == IF deleted THEN Deleted ELSE [server[c] EXCEPT !.mode = mode]
<1>1. /\ sent[e] \in Sendings /\ TurnSound(e, sent[e]) /\ sent[e].at = "nadim" /\ c \in Chats
      /\ sent \in [Events -> Sendings] /\ server \in [Chats -> Conversations]
      /\ StoreSound(server, sent) /\ ItemsSound(server[c].messages, c, sent)
  BY DEF NadimAnswers, WebInv, TurnSound, Sendings, StoreSound
<1>2. reply \in ChatMessages \cup {Void} /\ reply \in {Void, StoredAnswer(e)} /\ (deleted => reply = Void)
  BY MessagesAre
<1>3. /\ sent' = [sent EXCEPT ![e] = t] /\ tab' = tab
      /\ server' = IF Known(c) THEN [server EXCEPT ![c] = row] ELSE server
  BY <1>1 DEF NadimAnswers
<1> HIDE DEF reply
<1>4. /\ t \in Sendings /\ t.chat = c /\ t.at = (IF deleted THEN "answer" ELSE "store") /\ t.storing = ~deleted
      /\ t.reply = reply /\ t.deleted = deleted
      /\ t.first = sent[e].first /\ t.stored = sent[e].stored /\ t.gaveUp = sent[e].gaveUp /\ t.here = sent[e].here
  BY <1>1, <1>2 DEF Sendings
<1>5. row \in Conversations /\ (row.is # "unused" \/ row.is = server[c].is) /\ ItemsSound(row.messages, c, sent)
  BY <1>1, DeletedRow DEF Conversations
<1> HIDE DEF t, row
<1>6. TurnSound(e, t)
  <2>1. StoredAnswer(e) # MadeUp(e) /\ Void # MadeUp(e) /\ Void # StoredAnswer(e)
    BY MessagesAre DEF StoredAnswer, MadeUp
  <2>. QED  BY <1>1, <1>2, <1>4, <2>1, WebAssumption DEF TurnSound
<1>7. /\ sent' \in [Events -> Sendings] /\ \A d \in Events : TurnSound(d, sent'[d])
      /\ sent'[e] = t /\ (\A d \in Events \ {e} : sent'[d] = sent[d]) /\ Grows(sent, sent')
  BY <1>3, <1>4, <1>6, OneTurn
<1>8. PageSound(tab, sent')
  BY <1>4, <1>7, OffPage
<1>9. StoreSound(server', sent) /\ \A d \in Chats : server[d].is # "unused" => server'[d].is # "unused"
  BY <1>1, <1>3, <1>5, RowSound
<1>10. StoreSound(server', sent')
  BY <1>7, <1>9, ItemsKept DEF StoreSound
<1>11. FirstsApart(server', sent')
  BY <1>4, <1>7, <1>9, FirstsKept
<1>. QED  BY <1>3, <1>7, <1>8, <1>10, <1>11 DEF WebInv

\* A turn goes on without the page, the store or its conversation changing.
LEMMA MovesInv ==
  ASSUME WebInv, NEW e \in Events, NEW t \in Sendings, TurnSound(e, t), sent' = [sent EXCEPT ![e] = t],
         t.chat = sent[e].chat, t.first = sent[e].first, sent[e].stored => t.stored, sent[e].gaveUp => t.gaveUp,
         t.at = "done" => sent[e].at = "done" /\ t.reply = sent[e].reply, t.here => sent[e].here,
         UNCHANGED <<server, tab>>
  PROVE  WebInv'
<1>1. /\ sent' \in [Events -> Sendings] /\ \A d \in Events : TurnSound(d, sent'[d])
      /\ sent'[e] = t /\ (\A d \in Events \ {e} : sent'[d] = sent[d]) /\ Grows(sent, sent')
  BY OneTurn
<1>2. PageSound(tab', sent')
  BY <1>1, OffPage
<1>3. StoreSound(server', sent')
  BY <1>1, StoreGrown DEF WebInv
<1>4. FirstsApart(server', sent')
  BY <1>1, FirstsKept
<1>. QED  BY <1>1, <1>2, <1>3, <1>4 DEF WebInv

LEMMA AdapterReturnsInv == ASSUME WebInv, NEW e \in Events, AdapterReturns(e) PROVE WebInv'
<1> DEFINE t == [sent[e] EXCEPT !.at = "answer"]
<1>1. sent[e] \in Sendings /\ TurnSound(e, sent[e]) /\ sent[e].at = "store" /\ sent[e].stored
  BY DEF AdapterReturns, WebInv
<1>2. /\ t \in Sendings /\ t.chat = sent[e].chat /\ t.at = "answer" /\ t.storing = sent[e].storing
      /\ t.reply = sent[e].reply /\ t.deleted = sent[e].deleted
      /\ t.first = sent[e].first /\ t.stored = sent[e].stored /\ t.gaveUp = sent[e].gaveUp /\ t.here = sent[e].here
  BY <1>1 DEF Sendings
<1>3. sent' = [sent EXCEPT ![e] = t] /\ UNCHANGED <<server, tab>>
  BY DEF AdapterReturns
<1> HIDE DEF t
<1>4. TurnSound(e, t)
  BY <1>1, <1>2 DEF TurnSound
<1>. QED  BY <1>2, <1>3, <1>4, MovesInv

LEMMA AdapterGivesUpInv ==
  ASSUME WebInv, NEW e \in Events, NEW dead \in BOOLEAN, AdapterGivesUp(e, dead)
  PROVE  WebInv'
<1> DEFINE reply == IF sent[e].reply = Void THEN Void ELSE MadeUp(e)
           t == [sent[e] EXCEPT !.at = "answer", !.gaveUp = TRUE, !.storing = @ /\ ~dead, !.reply = reply]
<1>1. sent[e] \in Sendings /\ TurnSound(e, sent[e]) /\ sent[e].at = "store"
  BY DEF AdapterGivesUp, WebInv
<1>2. reply \in ChatMessages \cup {Void} /\ reply \in {Void, MadeUp(e)} /\ (sent[e].reply = Void => reply = Void)
  BY MessagesAre
<1>3. sent' = [sent EXCEPT ![e] = t] /\ UNCHANGED <<server, tab>>
  BY <1>1 DEF AdapterGivesUp
<1> HIDE DEF reply
<1>4. /\ t \in Sendings /\ t.chat = sent[e].chat /\ t.at = "answer" /\ (t.storing => sent[e].storing)
      /\ t.reply = reply /\ t.deleted = sent[e].deleted
      /\ t.first = sent[e].first /\ t.stored = sent[e].stored /\ t.gaveUp /\ t.here = sent[e].here
  BY <1>1, <1>2 DEF Sendings
<1> HIDE DEF t
<1>5. TurnSound(e, t)
  <2>1. StoredAnswer(e) # MadeUp(e) /\ Void # StoredAnswer(e)
    BY MessagesAre DEF StoredAnswer, MadeUp
  <2>. QED  BY <1>1, <1>2, <1>4, <2>1 DEF TurnSound
<1>. QED  BY <1>3, <1>4, <1>5, MovesInv

LEMMA TurnFailsInv == ASSUME WebInv, NEW e \in Events, TurnFails(e) PROVE WebInv'
<1> DEFINE t == [sent[e] EXCEPT !.at = "over"]
<1>1. sent[e] \in Sendings /\ TurnSound(e, sent[e]) /\ sent[e].at \in {"create", "nadim"}
  BY DEF TurnFails, WebInv
<1>2. /\ t \in Sendings /\ t.chat = sent[e].chat /\ t.at = "over" /\ t.storing = sent[e].storing
      /\ t.reply = sent[e].reply /\ t.deleted = sent[e].deleted
      /\ t.first = sent[e].first /\ t.stored = sent[e].stored /\ t.gaveUp = sent[e].gaveUp /\ t.here = sent[e].here
  BY <1>1 DEF Sendings
<1>3. sent' = [sent EXCEPT ![e] = t] /\ UNCHANGED <<server, tab>>
  BY DEF TurnFails
<1> HIDE DEF t
<1>4. TurnSound(e, t)
  BY <1>1, <1>2 DEF TurnSound
<1>. QED  BY <1>2, <1>3, <1>4, MovesInv

LEMMA DisconnectedInv == ASSUME WebInv, NEW e \in Events, Disconnected(e) PROVE WebInv'
<1> DEFINE t == [sent[e] EXCEPT !.here = FALSE]
<1>1. sent[e] \in Sendings /\ TurnSound(e, sent[e]) /\ sent[e].at # "done"
  BY DEF Disconnected, UnderWay, WebInv
<1>2. /\ t \in Sendings /\ t.chat = sent[e].chat /\ t.at = sent[e].at /\ t.storing = sent[e].storing
      /\ t.reply = sent[e].reply /\ t.deleted = sent[e].deleted
      /\ t.first = sent[e].first /\ t.stored = sent[e].stored /\ t.gaveUp = sent[e].gaveUp /\ ~t.here
  BY <1>1 DEF Sendings
<1>3. sent' = [sent EXCEPT ![e] = t] /\ UNCHANGED <<server, tab>>
  BY DEF Disconnected
<1> HIDE DEF t
<1>4. TurnSound(e, t)
  BY <1>1, <1>2 DEF TurnSound
<1>. QED  BY <1>1, <1>2, <1>3, <1>4, MovesInv

\* What the store takes of a turn it has not taken before.
LEMMA ItemAdded ==
  ASSUME NEW turns, NEW c, NEW list \in Seq(ChatMessages), ItemsSound(list, c, turns),
         NEW m \in ChatMessages, ~Holds(list, m), m.what \in {"question", "answer"},
         turns[m.of].chat = c, turns[m.of].stored
  PROVE  Append(list, m) \in Seq(ChatMessages) /\ ItemsSound(Append(list, m), c, turns)
<1>1. AppendUnique(list, m) = Append(list, m)
  BY DEF AppendUnique
<1>2. /\ AppendUnique(list, m) \in Seq(ChatMessages) /\ IsInjective(AppendUnique(list, m))
      /\ \A x : Holds(AppendUnique(list, m), x) <=> Holds(list, x) \/ x = m
  BY AppendedOnce DEF ItemsSound
<1>. QED  BY <1>1, <1>2 DEF ItemsSound

LEMMA PersistTurnInv == ASSUME WebInv, NEW e \in Events, PersistTurn(e) PROVE WebInv'
<1> DEFINE c == sent[e].chat
           t == [sent[e] EXCEPT !.storing = FALSE, !.stored = Known(c)]
           list == server[c].messages
           asked == Append(list, StoredQuestion(e))
           longer == IF sent[e].reply = Void THEN asked ELSE Append(asked, StoredAnswer(e))
           row == [server[c] EXCEPT !.messages = longer]
<1>1. /\ sent[e] \in Sendings /\ TurnSound(e, sent[e]) /\ ~sent[e].stored /\ sent[e].storing /\ c \in Chats
      /\ server[c] \in Conversations /\ StoreSound(server, sent) /\ ItemsSound(list, c, sent)
      /\ list \in Seq(ChatMessages) /\ server \in [Chats -> Conversations]
  <2>1. /\ sent[e] \in Sendings /\ TurnSound(e, sent[e]) /\ sent[e].storing /\ StoreSound(server, sent)
    BY DEF PersistTurn, WebInv
  <2>2. sent[e].at \in {"store", "answer", "done"} /\ ~sent[e].stored
    BY <2>1 DEF TurnSound, Sendings
  <2>3. c \in Chats
    BY <2>1, <2>2 DEF TurnSound, Sendings
  <2>. QED  BY <2>1, <2>2, <2>3 DEF StoreSound, Conversations
<1>2. sent' = [sent EXCEPT ![e] = t] /\ tab' = tab /\ server' = IF Known(c) THEN [server EXCEPT ![c] = row] ELSE server
  <2>1. list \o <<StoredQuestion(e)>> = asked /\ asked \in Seq(ChatMessages) /\ asked \o <<>> = asked
        /\ asked \o <<StoredAnswer(e)>> = Append(asked, StoredAnswer(e))
    BY <1>1, MessagesAre
  <2> HIDE DEF asked
  <2>2. list \o <<StoredQuestion(e)>> \o (IF sent[e].reply = Void THEN <<>> ELSE <<StoredAnswer(e)>>) = longer
    BY <2>1
  <2>. QED  BY <2>2 DEF PersistTurn
<1>3. /\ t \in Sendings /\ t.chat = c /\ t.at = sent[e].at /\ ~t.storing /\ t.stored = Known(c)
      /\ t.reply = sent[e].reply /\ t.deleted = sent[e].deleted
      /\ t.first = sent[e].first /\ t.gaveUp = sent[e].gaveUp /\ t.here = sent[e].here
  BY <1>1 DEF Sendings, Known
<1> HIDE DEF t
<1>4. TurnSound(e, t)
  <2>1. t.at \in {"store", "answer", "done"}
    BY <1>1, <1>3 DEF TurnSound, Sendings
  <2>2. t.at \in {"answer", "done"} => t.reply # StoredAnswer(e)
    BY <1>1, <1>3 DEF TurnSound
  <2>. QED  BY <1>1, <1>3, <2>1, <2>2 DEF TurnSound
<1>5. /\ sent' \in [Events -> Sendings] /\ \A d \in Events : TurnSound(d, sent'[d])
      /\ sent'[e] = t /\ (\A d \in Events \ {e} : sent'[d] = sent[d]) /\ Grows(sent, sent')
  BY <1>1, <1>2, <1>3, <1>4, OneTurn
<1>6. PageSound(tab, sent')
  BY <1>3, <1>5, OffPage
<1>7. StoreSound(server, sent') /\ ItemsSound(list, c, sent')
  BY <1>1, <1>5, StoreGrown, ItemsKept
<1>8. CASE Known(c)
  <2>1. sent'[e].chat = c /\ sent'[e].stored
    BY <1>3, <1>5, <1>8
  <2>2. /\ StoredQuestion(e) \in ChatMessages /\ StoredQuestion(e).what = "question" /\ StoredQuestion(e).of = e
        /\ StoredAnswer(e) \in ChatMessages /\ StoredAnswer(e).what = "answer" /\ StoredAnswer(e).of = e
    BY MessagesAre DEF StoredQuestion, StoredAnswer
  <2>3. ~Holds(list, StoredQuestion(e)) /\ ~Holds(list, StoredAnswer(e))
    BY <1>1, <2>2 DEF ItemsSound
  <2>4. asked \in Seq(ChatMessages) /\ ItemsSound(asked, c, sent')
    BY <1>1, <1>7, <2>1, <2>2, <2>3, ItemAdded
  <2>5. ~Holds(asked, StoredAnswer(e))
    <3>1. asked = AppendUnique(list, StoredQuestion(e)) /\ IsInjective(list)
      BY <1>1, <2>3 DEF AppendUnique, ItemsSound
    <3>2. Holds(asked, StoredAnswer(e)) <=> Holds(list, StoredAnswer(e)) \/ StoredAnswer(e) = StoredQuestion(e)
      BY <1>1, <2>2, <3>1, AppendedOnce
    <3>. QED  BY <2>2, <2>3, <3>2
  <2> HIDE DEF asked
  <2>6. Append(asked, StoredAnswer(e)) \in Seq(ChatMessages) /\ ItemsSound(Append(asked, StoredAnswer(e)), c, sent')
    BY <2>1, <2>2, <2>4, <2>5, ItemAdded
  <2>7. longer \in Seq(ChatMessages) /\ ItemsSound(longer, c, sent')
    BY <2>4, <2>6
  <2> HIDE DEF longer
  <2>8. row \in Conversations /\ row.messages = longer /\ row.is = server[c].is
    BY <1>1, <2>7 DEF Conversations
  <2> HIDE DEF row
  <2>9. /\ StoreSound(server', sent')
        /\ \A d \in Chats : server[d].is # "unused" => server'[d].is # "unused"
    BY <1>1, <1>2, <1>7, <1>8, <2>7, <2>8, RowSound
  <2>10. FirstsApart(server', sent')
    BY <1>3, <1>5, <2>9, FirstsKept
  <2>. QED  BY <1>2, <1>5, <1>6, <2>9, <2>10 DEF WebInv
<1>9. CASE ~Known(c)
  <2>1. FirstsApart(server', sent')
    BY <1>2, <1>3, <1>5, <1>9, FirstsKept
  <2>. QED  BY <1>2, <1>5, <1>6, <1>7, <1>9, <2>1 DEF WebInv
<1>. QED  BY <1>8, <1>9

\* Nothing shown and nothing to stay on.
LEMMA LeftSound ==
  ASSUME NEW turns, NEW page, PageSound(page, turns), NEW c \in Chats
  PROVE  /\ PageSound(Activate([page EXCEPT !.chats = Without(@, c)], Void), turns)
         /\ c # page.active => PageSound([page EXCEPT !.chats = Without(@, c)], turns)
<1> DEFINE next == [page EXCEPT !.chats = Without(@, c)]
<1>1. PageListed(next, turns) /\ next.active = page.active /\ (c # page.active => StaySound(next, turns))
  BY WithoutSound
<1> HIDE DEF next
<1>2. Void = next.active => StaySound(next, turns)
  BY <1>1, WebAssumption
<1>3. PageSound(Activate(next, Void), turns) /\ (c # page.active => PageSound(next, turns))
  BY <1>1, <1>2, ActivateSound DEF PageSound
<1>. QED  BY <1>3 DEF next

LEMMA TurnArrivesInv == ASSUME WebInv, NEW e \in Events, TurnArrives(e) PROVE WebInv'
<1> DEFINE c == sent[e].chat
           reply == sent[e].reply
           t == [sent[e] EXCEPT !.at = "done", !.mode = "AI", !.deleted = FALSE]
           told == [tab EXCEPT !.chats = IF reply = Void THEN @ ELSE WithMessage(@, c, reply)]
           gone == Activate([tab EXCEPT !.chats = Without(@, c)], Void)
<1>1. /\ sent[e] \in Sendings /\ TurnSound(e, sent[e]) /\ sent[e].at = "answer" /\ c \in Chats
      /\ PageSound(tab, sent) /\ tab \in Pages
  BY KnownPage DEF TurnArrives, WebInv, TurnSound, Sendings
<1>2. /\ t \in Sendings /\ t.chat = c /\ t.at = "done" /\ t.storing = sent[e].storing /\ t.stored = sent[e].stored
      /\ t.reply = reply /\ ~t.deleted
      /\ t.first = sent[e].first /\ t.gaveUp = sent[e].gaveUp /\ t.here = sent[e].here
  BY <1>1 DEF Sendings, Modes
<1>3. /\ sent' = [sent EXCEPT ![e] = t] /\ server' = server
      /\ tab' = IF ~sent[e].here THEN tab ELSE IF sent[e].deleted THEN gone ELSE WithMode(told, c, sent[e].mode)
  BY DEF TurnArrives
<1> HIDE DEF t
<1>4. TurnSound(e, t)
  BY <1>1, <1>2, WebAssumption DEF TurnSound
<1>5. /\ sent' \in [Events -> Sendings] /\ \A d \in Events : TurnSound(d, sent'[d])
      /\ sent'[e] = t /\ (\A d \in Events \ {e} : sent'[d] = sent[d]) /\ Grows(sent, sent')
  BY <1>1, <1>2, <1>3, <1>4, OneTurn
\* The page the turn comes to shows its answer, where it has one.
<1>6. ASSUME NEW page, PageSound(page, sent),
             sent[e].here /\ page.stayed /\ page.active = c /\ reply # Void => Holds(page.chats[c].messages, reply)
      PROVE  PageSound(page, sent')
  <2>1. ASSUME page.stayed, NEW d \in Events, Keeps(page, d, sent) PROVE Keeps(page, d, sent')
    <3>1. CASE d # e
      BY <1>5, <2>1, <3>1 DEF Keeps
    <3>2. CASE d = e
      BY <1>2, <1>5, <1>6, <2>1, <3>2 DEF Keeps
    <3>. QED  BY <3>1, <3>2
  <2>2. page.stayed => \E d \in Events : Keeps(page, d, sent')
    BY <1>6, <2>1 DEF PageSound, StaySound
  <2>. QED  BY <1>5, <1>6, <2>2, PageGrown
<1>7. ASSUME ~sent[e].here PROVE PageSound(tab', sent')
  BY <1>1, <1>3, <1>6, <1>7
<1>8. ASSUME sent[e].here /\ sent[e].deleted PROVE PageSound(tab', sent')
  <2>1. PageSound(gone, sent)
    BY <1>1, LeftSound
  <2> HIDE DEF gone
  <2>2. reply = Void
    BY <1>1, <1>8 DEF TurnSound
  <2>. QED  BY <1>3, <1>6, <1>8, <2>1, <2>2
<1>9. ASSUME sent[e].here /\ ~sent[e].deleted PROVE PageSound(tab', sent')
  <2>1. PageSound(told, sent) /\ (told.active = c /\ told.stayed /\ reply # Void => Holds(told.chats[c].messages, reply))
    <3>1. CASE reply = Void
      <4>1. told = tab
        BY <1>1, <3>1 DEF Pages
      <4>. QED  BY <1>1, <3>1, <4>1
    <3>2. CASE reply # Void
      <4>1. /\ reply \in ChatMessages /\ reply.of = e /\ reply.what \in {"answer", "made up"}
            /\ reply.what = "answer" => sent[e].stored
            /\ reply.what = "made up" => sent[e].gaveUp
        <5>1. reply \in {StoredAnswer(e), MadeUp(e)}
          BY <1>1, <3>2 DEF TurnSound
        <5>2. StoredAnswer(e).what = "answer" /\ MadeUp(e).what = "made up" /\ StoredAnswer(e).of = e /\ MadeUp(e).of = e
          BY DEF StoredAnswer, MadeUp
        <5>. QED  BY <1>1, <5>1, <5>2, MessagesAre DEF TurnSound
      <4> HIDE DEF reply
      <4>2. told = [tab EXCEPT !.chats = WithMessage(@, c, reply)]
        BY <3>2
      <4> HIDE DEF told
      <4>3. MayShow(sent, c, reply)
        BY <1>1, <4>1 DEF MayShow
      <4>4. PageSound(told, sent) /\ ShowsToo(tab, told, c, reply)
        BY <1>1, <4>2, <4>3, WithMessageSound
      <4>5. tab.stayed => tab.active \in DOMAIN tab.chats
        BY <1>1 DEF PageSound, StaySound
      <4>. QED  BY <4>4, <4>5 DEF ShowsToo
    <3>. QED  BY <3>1, <3>2
  <2> HIDE DEF told
  <2>2. PageSound(told, sent')
    BY <1>6, <2>1
  <2>3. sent[e].mode \in Modes
    BY <1>1 DEF Sendings
  <2>. QED  BY <1>1, <1>3, <1>9, <2>2, <2>3, WithModeSound
<1>10. PageSound(tab', sent')
  BY <1>7, <1>8, <1>9
<1>. QED
  <2>1. StoreSound(server', sent')
    BY <1>3, <1>5, StoreGrown DEF WebInv
  <2>2. FirstsApart(server', sent')
    BY <1>2, <1>3, <1>5, FirstsKept
  <2>. QED  BY <1>5, <1>10, <2>1, <2>2 DEF WebInv

LEMMA RemoveChatInv == ASSUME WebInv, NEW c \in Chats, RemoveChat(c) PROVE WebInv'
<1> DEFINE page == [tab EXCEPT !.chats = Without(@, c)]
<1>1. /\ PageSound(tab, sent) /\ StoreSound(server, sent) /\ sent' = sent
      /\ server' = [server EXCEPT ![c] = Deleted]
      /\ tab' = IF tab.active = c THEN Activate(page, Void) ELSE page
  BY KnownPage DEF RemoveChat
<1>2. PageSound(Activate(page, Void), sent) /\ (c # tab.active => PageSound(page, sent))
  BY <1>1, LeftSound
<1> HIDE DEF page
<1>3. PageSound(tab', sent)
  BY <1>1, <1>2
<1>4. StoreSound(server', sent) /\ \A d \in Chats : server[d].is # "unused" => server'[d].is # "unused"
  BY <1>1, DeletedRow, RowSound
<1>5. FirstsApart(server', sent')
  BY <1>1, <1>4, FirstsKept
<1>. QED  BY <1>1, <1>3, <1>4, <1>5 DEF WebInv

LEMMA WebInvInit == WebInit => WebInv
<1> SUFFICES ASSUME WebInit PROVE WebInv
  OBVIOUS
<1>1. PICK known \in SUBSET Chats :
        /\ server = [c \in Chats |-> [is |-> IF c \in known THEN "known" ELSE "unused", messages |-> <<>>, mode |-> "AI"]]
        /\ \E listed \in SUBSET known, active \in known \cup {Void} :
             tab = Opened([c \in listed |-> [mode |-> "AI", messages |-> <<>>]], active)
  BY DEF WebInit
<1>2. PICK listed \in SUBSET known, active \in known \cup {Void} :
        tab = Opened([c \in listed |-> [mode |-> "AI", messages |-> <<>>]], active)
  BY <1>1
<1>3. NotSent \in Sendings /\ \A e \in Events : TurnSound(e, NotSent)
  <2>1. \A e \in Events : MadeUp(e) # Void
    BY MessagesAre
  <2>. QED  BY <2>1 DEF NotSent, Sendings, TurnSound, Modes
<1>4. sent = [e \in Events |-> NotSent]
  BY DEF WebInit
<1>5. /\ sent \in [Events -> Sendings] /\ (\A e \in Events : TurnSound(e, sent[e]))
      /\ FirstsApart(server, sent)
  BY <1>3, <1>4 DEF FirstsApart, NotSent
<1>6. StoreSound(server, sent)
  <2>1. server \in [Chats -> Conversations]
    BY <1>1 DEF Conversations, Modes
  <2>. QED  BY <1>1, <2>1, NothingSound DEF StoreSound
<1>7. PageSound(tab, sent)
  <2> DEFINE chats == [c \in listed |-> [mode |-> "AI", messages |-> <<>>]]
  <2>1. chats \in [listed -> Views] /\ DOMAIN chats = listed /\ listed \subseteq Chats
    BY DEF Views, Modes
  <2>2. chats \in Partial(Views)
    BY <2>1, PartialAre
  <2>3. \A c \in listed : chats[c].messages = <<>>
    OBVIOUS
  <2> HIDE DEF chats
  <2>4. /\ tab \in Pages /\ tab.chats = chats /\ tab.loads = {} /\ ~tab.stayed /\ tab.index.at = "asked"
    BY <1>2, <2>2 DEF Opened, Pages, Indexes, chats
  <2>. QED  BY <2>1, <2>3, <2>4, NothingSound, ItemsShown DEF PageSound, PageListed, StaySound
<1>. QED  BY <1>5, <1>6, <1>7 DEF WebInv

LEMMA WebInvStep == WebInv /\ [WebNext]_webVars => WebInv'
<1> SUFFICES ASSUME WebInv, [WebNext]_webVars PROVE WebInv'
  OBVIOUS
<1>1. CASE UNCHANGED webVars
  BY <1>1 DEF webVars, WebInv, StoreSound, FirstsApart, PageSound, PageListed, StaySound, Keeps
<1>2. CASE IndexRead \/ IndexArrives \/ IndexFails \/ Poll
  BY <1>2, IndexReadInv, IndexArrivesInv, IndexFailsInv, PollInv
<1>3. CASE NewChat
  BY <1>3, ShowInv DEF NewChat
<1>4. ASSUME NEW c \in Chats, SelectChat(c) PROVE WebInv'
  BY <1>4, ShowInv DEF SelectChat
<1>5. ASSUME NEW c \in Chats, RemoveChat(c) PROVE WebInv'
  BY <1>5, RemoveChatInv
<1>6. ASSUME NEW l \in tab.loads, LoadRead(l) \/ LoadArrives(l) \/ LoadFails(l) PROVE WebInv'
  BY <1>6, LoadReadInv, LoadArrivesInv, LoadFailsInv
<1>7. ASSUME NEW e \in Events,
             \/ Send(e) \/ CreateArrives(e) \/ PersistTurn(e) \/ AdapterReturns(e)
             \/ TurnFails(e) \/ TurnArrives(e) \/ Disconnected(e)
      PROVE  WebInv'
  BY <1>7, SendInv, CreateArrivesInv, PersistTurnInv, AdapterReturnsInv, TurnFailsInv, TurnArrivesInv, DisconnectedInv
<1>8. ASSUME NEW e \in Events, NEW c \in Chats, CreateStored(e, c) PROVE WebInv'
  BY <1>8, CreateStoredInv
<1>9. ASSUME NEW e \in Events, NEW mode \in {"AI", "HUMAN"}, NEW deleted \in BOOLEAN, NadimAnswers(e, mode, deleted)
      PROVE  WebInv'
  BY <1>9, NadimAnswersInv DEF Modes
<1>10. ASSUME NEW e \in Events, NEW dead \in BOOLEAN, AdapterGivesUp(e, dead) PROVE WebInv'
  BY <1>10, AdapterGivesUpInv
<1>. QED  BY <1>1, <1>2, <1>3, <1>4, <1>5, <1>6, <1>7, <1>8, <1>9, <1>10 DEF WebNext

\* The inductive invariant: what the store, the page and the requests in flight hold of a turn
\* is of its conversation, and each once (chat-state.ts appendUniqueMessage and
\* mergeConversationIndex, web-chat-persistence.service.ts persist).
THEOREM WebInvHolds == WebSpec => []WebInv
  BY WebInvInit, WebInvStep, PTL DEF WebSpec

-----------------------------------------------------------------------------
(* What is shown *)

\* A list without repetition says of a turn what its messages of some kinds say.
LEMMA SaidOnce ==
  ASSUME NEW list \in Seq(ChatMessages), IsInjective(list), NEW kinds, NEW e,
         \A m, n \in ChatMessages : Holds(list, m) /\ Holds(list, n) /\ m.what \in kinds /\ n.what \in kinds
                                /\ m.of = e /\ n.of = e => m = n
  PROVE  Cardinality(Says(list, kinds, e)) <= 1
<1>1. \A i, j \in Says(list, kinds, e) : i = j
  BY MessagesAre DEF Says, Holds, IsInjective
<1>2. CASE Says(list, kinds, e) = {}
  BY <1>2, FS_EmptySet
<1>3. CASE Says(list, kinds, e) # {}
  <2>1. PICK i : Says(list, kinds, e) = {i}
    BY <1>1, <1>3
  <2>2. Cardinality(Says(list, kinds, e)) = 1
    BY <2>1, FS_Singleton, Zenon
  <2>. QED  BY <2>2
<1>. QED  BY <1>2, <1>3

LEMMA ShownOnceHolds == WebInv => ShownOnce
<1> SUFFICES ASSUME WebInv, NEW c \in Listed, NEW e \in Events
             PROVE  LET list == Shown(c).messages IN
                    /\ Says(list, QuestionKinds \cup AnswerKinds, e) # {} => sent[e].chat = c
                    /\ Cardinality(Says(list, QuestionKinds, e)) <= 1
                    /\ Cardinality(Says(list, AnswerKinds, e)) <= 1 \/ (sent[e].gaveUp /\ sent[e].stored)
  BY DEF ShownOnce
<1> DEFINE list == tab.chats[c].messages
<1>1. list \in Seq(ChatMessages) /\ ViewSound(list, c, sent) /\ IsInjective(list)
  BY KnownPage DEF PageSound, PageListed, Listed, Views, ViewSound
<1> HIDE DEF list
<1>2. \A m \in ChatMessages : m.what \in {"asked", "question", "answer", "made up"}
  BY DEF ChatMessages
<1>3. Says(list, QuestionKinds \cup AnswerKinds, e) # {} => sent[e].chat = c
  <2>1. ASSUME NEW i \in Says(list, QuestionKinds \cup AnswerKinds, e) PROVE sent[e].chat = c
    <3>1. list[i] \in ChatMessages /\ list[i].of = e /\ Holds(list, list[i])
      BY <1>1, MessagesAre DEF Says, Holds
    <3>. QED  BY <1>1, <3>1 DEF ViewSound
  <2>. QED  BY <2>1
<1>4. Cardinality(Says(list, QuestionKinds, e)) <= 1
  <2>1. ASSUME NEW m \in ChatMessages, NEW n \in ChatMessages, Holds(list, m), Holds(list, n), m.what \in QuestionKinds,
               n.what \in QuestionKinds, m.of = e, n.of = e, m.what # n.what
        PROVE  FALSE
    <3>1. PICK q \in {m, n}, a \in {m, n} : q.what = "question" /\ a.what = "asked"
      BY <2>1 DEF QuestionKinds
    <3>2. a = ShownQuestion(e)
      BY <2>1, <3>1, MessagesAre DEF ShownQuestion
    <3>. QED  BY <1>1, <2>1, <3>1, <3>2 DEF ViewSound
  <2>2. \A m, n \in ChatMessages : Holds(list, m) /\ Holds(list, n) /\ m.what \in QuestionKinds /\ n.what \in QuestionKinds
                               /\ m.of = e /\ n.of = e => m = n
    BY <2>1, MessagesAre
  <2>. QED  BY <1>1, <2>2, SaidOnce
<1>5. Cardinality(Says(list, AnswerKinds, e)) <= 1 \/ (sent[e].gaveUp /\ sent[e].stored)
  <2>1. ASSUME ~(sent[e].gaveUp /\ sent[e].stored),
               NEW m \in ChatMessages, NEW n \in ChatMessages, Holds(list, m), Holds(list, n), m.what \in AnswerKinds,
               n.what \in AnswerKinds, m.of = e, n.of = e
        PROVE  m = n
    BY <1>1, <2>1, MessagesAre DEF AnswerKinds, ViewSound
  <2>. QED  BY <1>1, <2>1, SaidOnce
<1>. QED  BY <1>3, <1>4, <1>5 DEF list, Shown

LEMMA FirstTurnHolds == WebInv => FirstTurnStands
<1> SUFFICES ASSUME WebInv, NEW e \in Events, sent[e].first, sent[e].here, sent[e].chat = tab.active,
                    tab.active \in Listed, tab.stayed
             PROVE  LET c == sent[e].chat IN
                    /\ Says(Shown(c).messages, QuestionKinds, e) # {}
                    /\ sent[e].at = "done" /\ sent[e].reply # Void => Says(Shown(c).messages, AnswerKinds, e) # {}
  BY DEF FirstTurnStands
<1> DEFINE list == tab.chats[tab.active].messages
<1>1. PICK d \in Events : Keeps(tab, d, sent)
  BY KnownPage DEF PageSound, StaySound
<1>2. d = e
  BY <1>1, KnownPage DEF WebInv, FirstsApart, Keeps
<1>3. Holds(list, ShownQuestion(e)) /\ (sent[e].at = "done" /\ sent[e].reply # Void => Holds(list, sent[e].reply))
  BY <1>1, <1>2 DEF Keeps
<1>4. sent[e].reply # Void => sent[e].reply \in {StoredAnswer(e), MadeUp(e)}
  BY DEF WebInv, TurnSound
<1> HIDE DEF list
<1>5. Says(list, QuestionKinds, e) # {}
  BY <1>3 DEF Says, Holds, QuestionKinds, ShownQuestion
<1>6. sent[e].at = "done" /\ sent[e].reply # Void => Says(list, AnswerKinds, e) # {}
  <2>1. sent[e].reply # Void => sent[e].reply.what \in AnswerKinds /\ sent[e].reply.of = e
    <3>1. StoredAnswer(e).what = "answer" /\ StoredAnswer(e).of = e /\ MadeUp(e).what = "made up" /\ MadeUp(e).of = e
      BY DEF StoredAnswer, MadeUp
    <3>. QED  BY <1>4, <3>1 DEF AnswerKinds
  <2>. QED  BY <1>3, <2>1 DEF Says, Holds
<1>. QED  BY <1>5, <1>6 DEF list, Shown

\* What the customer is shown stands: no message twice or in another conversation, and a first
\* turn stays on the page that created its conversation, however indexes, histories, polls and
\* answers overtake each other (chat-state.ts, chat-app.tsx, nadim-server.ts).
THEOREM ShownStands == WebSpec => []ScreenStands
<1>1. WebInv => ScreenStands
  BY ShownOnceHolds, FirstTurnHolds DEF ScreenStands
<1>. QED  BY <1>1, WebInvHolds, PTL

-----------------------------------------------------------------------------
(* AutomationLeads *)

Held == [step : {"claimed", "failing"}, key : Keys, req : AnyRequest]
WritePlans == [step : {"writing"}, key : Keys, req : AnyRequest, customer : Customers \cup {Empty},
          phone : Contacts, linked : BOOLEAN, lead : Leads \cup {Empty}, row : LeadRows \cup {Empty}]

LeadsShape ==
  /\ execution \in [Keys -> Executions \cup {Empty}]
  /\ customer \in [Customers -> Contacts \cup {Empty}]
  /\ identity \in [Channels -> Customers \cup {Empty}]
  /\ lead \in [Leads -> LeadRows \cup {Empty}]
  /\ call \in [Clients -> {NoCall} \cup Held \cup WritePlans]
  /\ applied \in [Keys -> Seq(Applications)]

\* The unique indexes and the foreign keys.
OneOwner(p) == \A c, d \in Customers : customer[c] = p /\ customer[d] = p => c = d
Uniqueness == \A p \in PhoneNumbers : OneOwner(p)
References ==
  /\ \A x \in Channels : identity[x] # Empty => customer[identity[x]] # Empty
  /\ \A l \in Leads : lead[l] # Empty /\ lead[l].customer # Empty => customer[lead[l].customer] # Empty

\* What the row of a key says of what was applied under it.
KeyRowSound(k) ==
  /\ execution[k] = Empty => applied[k] = <<>>
  /\ execution[k] # Empty =>
       /\ execution[k].status = "PENDING" <=> execution[k].answer = Empty
       /\ execution[k].status = "PENDING" => applied[k] = <<>>
       /\ execution[k].status = "SUCCEEDED" => applied[k] = <<execution[k].answer>>
  /\ Len(applied[k]) <= 1

\* An application went to the customer its request names.
NamedBy(r, c) ==
  /\ r.customer # Empty => c = r.customer
  /\ r.channel # Empty => identity[r.channel] = c
RowsNamed == \A k \in Keys : \A i \in DOMAIN applied[k] : NamedBy(execution[k].req, applied[k][i].customer)

\* A caller at work owns its key; until it commits the row is undecided.
Working(w) == call[w] # NoCall
KeyHeld(w) ==
  /\ execution[call[w].key] # Empty /\ execution[call[w].key].req = call[w].req
  /\ call[w].step \in {"claimed", "writing"} => execution[call[w].key].status = "PENDING"
KeysHeld == \A w \in Clients : Working(w) => KeyHeld(w)
CallKeysApart == \A v, w \in Clients : Working(v) /\ Working(w) /\ call[v].key = call[w].key => v = w

\* What a caller about to write has read of the identities still stands.
PlanSound(j) ==
  /\ j.req.customer # Empty => j.customer = j.req.customer
  /\ j.customer # Empty => customer[j.customer] # Empty
  /\ j.linked => /\ j.req.channel # Empty
                 /\ j.customer # Empty
                 /\ identity[j.req.channel] = j.customer
  /\ j.lead # Empty => j.row # Empty /\ lead[j.lead] # Empty
PlansSound == \A w \in Clients : call[w] \in WritePlans => PlanSound(call[w])

LeadsInv ==
  /\ LeadsShape
  /\ Uniqueness /\ References
  /\ \A k \in Keys : KeyRowSound(k)
  /\ RowsNamed
  /\ KeysHeld /\ CallKeysApart
  /\ PlansSound

-----------------------------------------------------------------------------
(* Lemmas *)

\* A generated id is free.
LEMMA FreshIsFree ==
  ASSUME NEW rows, NEW i \in FreshId(rows)
  PROVE  i \in DOMAIN rows /\ rows[i] = Empty
BY DEF FreshId

\* The step of a record tells the three kinds of calls apart.
LEMMA CallKinds ==
  ASSUME NEW j \in {NoCall} \cup Held \cup WritePlans
  PROVE  /\ j.step = "writing" => j \in WritePlans /\ j # NoCall
         /\ j.step \in {"claimed", "failing"} => j \in Held /\ j # NoCall
         /\ j \in WritePlans => j.step = "writing"
         /\ j # NoCall => j.key \in Keys /\ j.req \in AnyRequest
BY DEF NoCall, Held, WritePlans

\* Of two customers two identities name, one too many: a request without a conflict names
\* one customer at most.
LEMMA OneCandidate ==
  ASSUME LeadsShape, Uniqueness, NEW r \in AnyRequest, ~Conflicting(r),
         NEW c \in Candidates(r), NEW d \in Candidates(r)
  PROVE  c = d
<1>1. IsFiniteSet(Given(r))
  <2>1. Given(r) = {} \/ Given(r) = {r.customer}
    BY DEF Given
  <2>. QED  BY <2>1, FS_Singleton, FS_EmptySet
<1>2. IsFiniteSet(ByPhone(r))
  <2>1. CASE ByPhone(r) = {}
    BY <2>1, FS_EmptySet
  <2>2. CASE ByPhone(r) # {}
    <3>1. PICK e \in ByPhone(r) : TRUE
      BY <2>2
    <3>2. ByPhone(r) = {e}
      BY <3>1 DEF ByPhone, Uniqueness, OneOwner, AnyRequest
    <3>. QED  BY <3>2, FS_Singleton
  <2>. QED  BY <2>1, <2>2
<1>3. IsFiniteSet(ByChannel(r))
  <2>1. CASE ByChannel(r) = {}
    BY <2>1, FS_EmptySet
  <2>2. CASE ByChannel(r) # {}
    <3>1. PICK e \in ByChannel(r) : TRUE
      BY <2>2
    <3>2. ByChannel(r) = {e}
      BY <3>1 DEF ByChannel
    <3>. QED  BY <3>2, FS_Singleton
  <2>. QED  BY <2>1, <2>2
<1>4. IsFiniteSet(Candidates(r))
  BY <1>1, <1>2, <1>3, FS_Union DEF Candidates
<1>5. SUFFICES ASSUME c # d  PROVE FALSE
  OBVIOUS
<1>6. Cardinality({c, d}) = 2
  <2>1. IsFiniteSet({c}) /\ Cardinality({c}) = 1
    BY FS_Singleton
  <2>2. d \notin {c}
    BY <1>5
  <2>3. Cardinality({c} \cup {d}) = Cardinality({c}) + 1
    BY <2>1, <2>2, FS_AddElement
  <2>4. {c, d} = {c} \cup {d}
    OBVIOUS
  <2>. QED  BY <2>1, <2>3, <2>4
<1>7. {c, d} \in SUBSET Candidates(r)
  OBVIOUS
<1>8. 2 <= Cardinality(Candidates(r)) /\ Cardinality(Candidates(r)) \in Nat
  BY <1>4, <1>6, <1>7, FS_Subset, FS_CardinalityType
<1>. QED  BY <1>8 DEF Conflicting

\* The chosen customer is one of those named, and the one the request gives if it does.
LEMMA OwnerIsNamed ==
  ASSUME NEW r \in AnyRequest, Candidates(r) # {}
  PROVE  Owner(r) \in Candidates(r) /\ (r.customer # Empty => Owner(r) = r.customer)
<1> DEFINE P(c) == \/ c \in Given(r)
                   \/ Given(r) = {} /\ c \in ByPhone(r)
                   \/ Given(r) \cup ByPhone(r) = {}
<1>1. \E c \in Candidates(r) : P(c)
  BY DEF Candidates
<1>2. Owner(r) \in Candidates(r) /\ P(Owner(r))
  BY <1>1 DEF Owner
<1>3. r.customer # Empty => Given(r) = {r.customer}
  BY DEF Given
<1>. QED  BY <1>2, <1>3

-----------------------------------------------------------------------------
(* LeadsInit and the steps *)

LEMMA LeadsInvInit == ASSUME LeadsInit PROVE LeadsInv
<1> USE DEF LeadsInit
<1>1. LeadsShape
  BY DEF LeadsShape
<1>2. Uniqueness /\ References
  BY LeadsAssumption DEF Uniqueness, OneOwner, References, Contacts
<1>3. (\A k \in Keys : KeyRowSound(k)) /\ RowsNamed
  BY DEF KeyRowSound, RowsNamed
<1>4. KeysHeld /\ CallKeysApart
  BY DEF KeysHeld, CallKeysApart, Working
<1>5. PlansSound
  BY CallKinds DEF PlansSound, NoCall
<1>. QED  BY <1>1, <1>2, <1>3, <1>4, <1>5 DEF LeadsInv

\* A step that only moves the call of one caller on, keeping its key and request.
LEMMA CallStep ==
  ASSUME LeadsInv, NEW w \in Clients, NEW j \in {NoCall} \cup Held \cup WritePlans,
         call' = [call EXCEPT ![w] = j],
         UNCHANGED <<execution, customer, identity, lead, applied>>,
         j # NoCall => /\ Working(w) /\ j.key = call[w].key /\ j.req = call[w].req
                       /\ j.step \in {"claimed", "writing"} => call[w].step \in {"claimed", "writing"},
         j \in WritePlans => PlanSound(j)
  PROVE  LeadsInv'
<1>1. LeadsShape'
  BY DEF LeadsInv, LeadsShape
<1>2. Uniqueness' /\ References' /\ RowsNamed' /\ (\A k \in Keys : KeyRowSound(k))'
  BY DEF LeadsInv, Uniqueness, OneOwner, References, RowsNamed, NamedBy, KeyRowSound
<1>3. \A v \in Clients : call'[v] = IF v = w THEN j ELSE call[v]
  BY DEF LeadsInv, LeadsShape
<1>4. KeysHeld'
  BY <1>3 DEF LeadsInv, KeysHeld, KeyHeld, Working
<1>5. CallKeysApart'
  BY <1>3 DEF LeadsInv, CallKeysApart, Working
<1>6. PlansSound'
  BY <1>3 DEF LeadsInv, PlansSound, PlanSound
<1>. QED  BY <1>1, <1>2, <1>4, <1>5, <1>6 DEF LeadsInv

LEMMA ClaimInv ==
  ASSUME LeadsInv, NEW w \in Clients, NEW k \in Keys, NEW r \in Requests, Claim(w, k, r)
  PROVE  LeadsInv'
<1> DEFINE row == [req |-> r, status |-> "PENDING", answer |-> Empty]
           j == [step |-> "claimed", key |-> k, req |-> r]
<1>1. row \in Executions /\ row # Empty /\ j \in Held /\ j # NoCall /\ j \notin WritePlans
  BY LeadsAssumption DEF Executions, Held, NoCall, WritePlans
<1>2. execution[k] = Empty /\ applied[k] = <<>>
  BY FreshIsFree DEF Claim, LeadsInv, KeyRowSound
<1>3. /\ row.req = r /\ row.status = "PENDING" /\ row.answer = Empty
      /\ j.key = k /\ j.req = r
  OBVIOUS
<1>4. /\ execution' = [execution EXCEPT ![k] = row]
      /\ call' = [call EXCEPT ![w] = j]
      /\ UNCHANGED <<customer, identity, lead, applied>>
  BY DEF Claim, Goto
<1> HIDE DEF row, j
<1>5. LeadsShape'
  BY <1>1, <1>4 DEF LeadsInv, LeadsShape
<1>6. /\ \A v \in Clients : call'[v] = IF v = w THEN j ELSE call[v]
      /\ \A m \in Keys : execution'[m] = IF m = k THEN row ELSE execution[m]
  BY <1>4 DEF LeadsInv, LeadsShape
<1>7. Uniqueness' /\ References'
  BY <1>4 DEF LeadsInv, Uniqueness, OneOwner, References
<1>8. (\A m \in Keys : KeyRowSound(m))'
  BY <1>1, <1>2, <1>3, <1>4, <1>6 DEF LeadsInv, KeyRowSound
<1>9. RowsNamed'
  BY <1>2, <1>4, <1>6 DEF LeadsInv, RowsNamed, NamedBy
<1>10. \A v \in Clients : Working(v) => call[v].key # k
  BY <1>2 DEF LeadsInv, KeysHeld, KeyHeld
<1>11. \A v \in Clients : Working(v) => call[v].key \in Keys
  BY CallKinds DEF LeadsInv, LeadsShape, Working
<1>12. KeysHeld'
  BY <1>1, <1>3, <1>6, <1>10, <1>11 DEF LeadsInv, KeysHeld, KeyHeld, Working
<1>13. CallKeysApart'
  BY <1>3, <1>6, <1>10 DEF LeadsInv, CallKeysApart, Working
<1>14. PlansSound'
  BY <1>1, <1>4, <1>6 DEF LeadsInv, PlansSound, PlanSound
<1>. QED  BY <1>5, <1>7, <1>8, <1>9, <1>12, <1>13, <1>14 DEF LeadsInv

LEMMA RefuseInv ==
  ASSUME LeadsInv, NEW w \in Clients, Working(w), Refuse(w),
         UNCHANGED <<execution, customer, identity, lead, applied>>
  PROVE  LeadsInv'
<1> DEFINE j == [step |-> "failing", key |-> call[w].key, req |-> call[w].req]
<1>1. j \in Held /\ j \notin WritePlans
  BY CallKinds DEF LeadsInv, LeadsShape, Working, Held, WritePlans
<1>. QED  BY <1>1, CallStep DEF Refuse, Goto

LEMMA ResolveInv ==
  ASSUME LeadsInv, NEW w \in Clients, Resolve(w)
  PROVE  LeadsInv'
<1>1. SUFFICES ASSUME NEW r, r = call[w].req  PROVE LeadsInv'
  OBVIOUS
<1> DEFINE c == IF Candidates(r) = {} THEN Empty ELSE Owner(r)
           plan(l) == [step |-> "writing", key |-> call[w].key, req |-> r,
                       customer |-> c, phone |-> IF c = Empty THEN Unknown ELSE customer[c],
                       linked |-> r.channel # Empty /\ identity[r.channel] # Empty,
                       lead |-> l, row |-> IF l = Empty THEN Empty ELSE lead[l]]
<1>2. /\ call[w].step = "claimed" /\ UNCHANGED <<execution, customer, identity, lead, applied>>
      /\ \/ Refuse(w)
         \/ /\ ~(r.customer # Empty /\ customer[r.customer] = Empty)
            /\ ~Conflicting(r)
            /\ \E l \in Found(r, c) :
                 /\ ~(l # Empty /\ (lead[l] = Empty \/ lead[l].customer \notin {Empty, c}))
                 /\ Goto(w, plan(l))
  BY <1>1 DEF Resolve
<1>3. call[w] \in Held /\ Working(w) /\ call[w].key \in Keys /\ r \in AnyRequest
  BY <1>1, <1>2, CallKinds DEF LeadsInv, LeadsShape, Working
<1>4. CASE Refuse(w)
  BY <1>2, <1>3, <1>4, RefuseInv
<1>5. CASE ~Refuse(w)
  <2>1. /\ ~(r.customer # Empty /\ customer[r.customer] = Empty)
        /\ ~Conflicting(r)
    BY <1>2, <1>5
  <2>2. PICK l \in Found(r, c) : /\ ~(l # Empty /\ (lead[l] = Empty \/ lead[l].customer \notin {Empty, c}))
                                 /\ Goto(w, plan(l))
    BY <1>2, <1>5
  <2>3. l \in Leads \cup {Empty} /\ (l # Empty => lead[l] \in LeadRows)
    <3>1. l \in Leads \cup {Empty}
      BY <1>3, <2>2 DEF Found, OpenLeads, Legacy, AnyRequest
    <3>. QED  BY <2>2, <3>1 DEF LeadsInv, LeadsShape
  <2>4. c \in Customers \cup {Empty} /\ (c # Empty => customer[c] # Empty /\ customer[c] \in Contacts)
    <3>1. \A d \in Candidates(r) : d \in Customers /\ customer[d] # Empty
      BY <1>3, <2>1, LeadsAssumption DEF Candidates, Given, ByPhone, ByChannel, AnyRequest, LeadsInv,
         References, Contacts
    <3>2. CASE Candidates(r) = {}
      BY <3>2
    <3>3. CASE Candidates(r) # {}
      <4>1. c \in Candidates(r)
        BY <1>3, <3>3, OwnerIsNamed
      <4>. QED  BY <3>1, <4>1 DEF LeadsInv, LeadsShape
    <3>. QED  BY <3>2, <3>3
  <2>5. r.customer # Empty => c = r.customer
    <3>1. r.customer # Empty => r.customer \in Candidates(r)
      BY DEF Candidates, Given
    <3>. QED  BY <1>3, <3>1, OwnerIsNamed
  <2>6. r.channel # Empty /\ identity[r.channel] # Empty => c # Empty /\ identity[r.channel] = c
    <3>1. SUFFICES ASSUME r.channel # Empty, identity[r.channel] # Empty
                   PROVE  c # Empty /\ identity[r.channel] = c
      OBVIOUS
    <3>2. identity[r.channel] \in Candidates(r) /\ identity[r.channel] \in Customers
      BY <1>3, <3>1 DEF Candidates, ByChannel, LeadsInv, LeadsShape, AnyRequest
    <3>3. c \in Candidates(r)
      BY <1>3, <3>2, OwnerIsNamed
    <3>4. identity[r.channel] = c
      BY <1>3, <2>1, <3>2, <3>3, OneCandidate DEF LeadsInv
    <3>. QED  BY <3>1, <3>4
  <2> DEFINE j == plan(l)
             cust == c
             ph == IF cust = Empty THEN Unknown ELSE customer[cust]
             lk == r.channel # Empty /\ identity[r.channel] # Empty
             rw == IF l = Empty THEN Empty ELSE lead[l]
  <2>7. ph \in Contacts /\ lk \in BOOLEAN /\ rw \in LeadRows \cup {Empty}
    BY <2>3, <2>4 DEF Contacts
  <2>8. /\ j \in WritePlans /\ j # NoCall
        /\ j.key = call[w].key /\ j.req = r /\ j.customer = c /\ j.linked = lk /\ j.lead = l /\ j.row = rw
    <3>1. j = [step |-> "writing", key |-> call[w].key, req |-> r, customer |-> cust, phone |-> ph,
               linked |-> lk, lead |-> l, row |-> rw]
      OBVIOUS
    <3> HIDE DEF j, cust, ph, lk, rw
    <3>2. cust \in Customers \cup {Empty}
      BY <2>4 DEF cust
    <3>3. cust = c
      BY DEF cust
    <3>. QED  BY <1>3, <2>3, <2>7, <3>1, <3>2, <3>3 DEF WritePlans, NoCall
  <2>9. call' = [call EXCEPT ![w] = j]
    BY <2>2 DEF Goto
  <2> HIDE DEF j
  <2>10. PlanSound(j)
    <3>1. j.req.customer # Empty => j.customer = j.req.customer
      BY <2>5, <2>8
    <3>2. j.customer # Empty => customer[j.customer] # Empty
      BY <2>4, <2>8
    <3>3. j.linked => /\ j.req.channel # Empty
                      /\ j.customer # Empty
                      /\ identity[j.req.channel] = j.customer
      BY <2>6, <2>8
    <3>4. j.lead # Empty => j.row # Empty /\ lead[j.lead] # Empty
      BY <2>2, <2>8
    <3>. QED  BY <3>1, <3>2, <3>3, <3>4 DEF PlanSound
  <2>. QED  BY <1>1, <1>2, <1>3, <2>8, <2>9, <2>10, CallStep
<1>. QED  BY <1>4, <1>5

LEMMA CrashInv ==
  ASSUME LeadsInv, NEW w \in Clients, Crash(w) \/ Abort(w)
  PROVE  LeadsInv'
<1>1. Working(w)
  BY CallKinds DEF LeadsInv, LeadsShape, Working, Crash, Abort, NoCall
<1>2. CASE Crash(w)
  BY <1>2, CallStep, CallKinds DEF Crash, Goto, NoCall
<1>3. CASE Abort(w)
  BY <1>1, <1>3, RefuseInv DEF Abort
<1>. QED  BY <1>2, <1>3

LEMMA CallFailsInv ==
  ASSUME LeadsInv, NEW w \in Clients, FailCall(w)
  PROVE  LeadsInv'
<1>1. SUFFICES ASSUME NEW k, k = call[w].key  PROVE LeadsInv'
  OBVIOUS
<1> DEFINE row == [req |-> execution[k].req, status |-> "FAILED", answer |-> "error"]
<1>2. /\ Working(w) /\ k \in Keys
      /\ execution[k] # Empty /\ execution[k] \in Executions
  BY <1>1, CallKinds DEF FailCall, Working, LeadsInv, LeadsShape, KeysHeld, KeyHeld
<1>3. row \in Executions /\ row # Empty
  BY <1>2, LeadsAssumption DEF Executions
<1>4. /\ row.req = execution[k].req /\ row.status = "FAILED" /\ row.answer = "error" /\ row.answer # Empty
  BY LeadsAssumption
<1>5. /\ execution' = [execution EXCEPT ![k] = row]
      /\ call' = [call EXCEPT ![w] = NoCall]
      /\ UNCHANGED <<customer, identity, lead, applied>>
  BY <1>1 DEF FailCall, Goto, Decided
<1> HIDE DEF row
<1>6. LeadsShape'
  BY <1>3, <1>5 DEF LeadsInv, LeadsShape
<1>7. /\ \A v \in Clients : call'[v] = IF v = w THEN NoCall ELSE call[v]
      /\ \A m \in Keys : execution'[m] = IF m = k THEN row ELSE execution[m]
  BY <1>5 DEF LeadsInv, LeadsShape
<1>8. Uniqueness' /\ References'
  BY <1>5 DEF LeadsInv, Uniqueness, OneOwner, References
<1>9. (\A m \in Keys : KeyRowSound(m))'
  BY <1>2, <1>3, <1>4, <1>5, <1>7 DEF LeadsInv, KeyRowSound
<1>10. RowsNamed'
  BY <1>4, <1>5, <1>7 DEF LeadsInv, RowsNamed, NamedBy
<1>11. \A v \in Clients : Working(v) /\ v # w => call[v].key # k
  BY <1>1, <1>2 DEF LeadsInv, CallKeysApart
<1>12. \A v \in Clients : Working(v) => call[v].key \in Keys
  BY CallKinds DEF LeadsInv, LeadsShape, Working
<1>13. KeysHeld'
  BY <1>7, <1>11, <1>12 DEF LeadsInv, KeysHeld, KeyHeld, Working
<1>14. CallKeysApart'
  BY <1>7 DEF LeadsInv, CallKeysApart, Working
<1>15. PlansSound'
  <2>1. NoCall \notin WritePlans
    BY DEF NoCall, WritePlans
  <2>. QED  BY <1>5, <1>7, <2>1 DEF LeadsInv, PlansSound, PlanSound
<1>. QED  BY <1>6, <1>8, <1>9, <1>10, <1>13, <1>14, <1>15 DEF LeadsInv

\* What others do to the lead rows: none goes, and only its customer-less rows are new.
LeadsWrittenByOthers ==
  /\ UNCHANGED <<execution, customer, identity, call, applied>>
  /\ lead' \in [Leads -> LeadRows \cup {Empty}]
  /\ \A m \in Leads : \/ lead'[m] = lead[m]
                       \/ (lead'[m] # Empty /\ lead'[m].customer = Empty)
                       \/ (lead'[m] # Empty /\ lead[m] # Empty /\ lead'[m].customer = lead[m].customer)

\* The leads and customers others create meanwhile break nothing a caller has read.
LEMMA OthersInv ==
  ASSUME LeadsInv,
         \/ \E l \in Leads, p \in PhoneNumbers : WebLead(l, p)
         \/ \E l \in Leads : UpdateStatus(l)
         \/ \E c \in Customers, p \in PhoneNumbers : ChatCustomer(c, p)
  PROVE  LeadsInv'
<1>1. ASSUME NEW l \in Leads, UpdateStatus(l) \/ \E p \in PhoneNumbers : WebLead(l, p)
      PROVE  LeadsInv'
  <2>1. LeadsWrittenByOthers
    <3>1. ASSUME NEW p \in PhoneNumbers, WebLead(l, p)  PROVE LeadsWrittenByOthers
      <4> DEFINE row == [customer |-> Empty, phone |-> p, open |-> TRUE]
      <4>1. row \in LeadRows /\ row.customer = Empty
        BY DEF LeadRows, Contacts
      <4>2. lead' = [lead EXCEPT ![l] = row] /\ UNCHANGED <<execution, customer, identity, call, applied>>
        BY <3>1 DEF WebLead
      <4> HIDE DEF row
      <4>3. row # Empty
        BY <4>1, LeadsAssumption
      <4>. QED  BY <4>1, <4>2, <4>3 DEF LeadsInv, LeadsShape, LeadsWrittenByOthers
    <3>2. CASE UpdateStatus(l)
      <4> DEFINE row == [lead[l] EXCEPT !.open = ~@]
      <4>1. lead[l] # Empty /\ lead[l] \in LeadRows
        BY <3>2 DEF UpdateStatus, LeadsInv, LeadsShape
      <4>2. row \in LeadRows /\ row # Empty /\ row.customer = lead[l].customer
        BY <4>1, LeadsAssumption DEF LeadRows
      <4>3. lead' = [lead EXCEPT ![l] = row] /\ UNCHANGED <<execution, customer, identity, call, applied>>
        BY <3>2 DEF UpdateStatus
      <4> HIDE DEF row
      <4>. QED  BY <4>1, <4>2, <4>3 DEF LeadsInv, LeadsShape, LeadsWrittenByOthers
    <3>. QED  BY <1>1, <3>1, <3>2
  <2>2. \A m \in Leads : lead[m] # Empty => lead'[m] # Empty
    BY <2>1 DEF LeadsWrittenByOthers
  <2>3. \A j \in WritePlans : PlanSound(j) => PlanSound(j)'
    BY <2>1, <2>2 DEF PlanSound, WritePlans, LeadsWrittenByOthers
  <2>. QED  BY <2>1, <2>3 DEF LeadsInv, LeadsShape, Uniqueness, OneOwner, References, KeyRowSound, RowsNamed,
                              NamedBy, KeysHeld, KeyHeld, CallKeysApart, Working, PlansSound, LeadsWrittenByOthers
<1>2. ASSUME NEW c \in Customers, NEW p \in PhoneNumbers, ChatCustomer(c, p)  PROVE LeadsInv'
  <2>1. /\ UNCHANGED <<execution, identity, lead, call, applied>>
        /\ customer' = [customer EXCEPT ![c] = p] /\ p \in Contacts /\ p # Empty
        /\ \A d \in Customers : customer[d] # p
        /\ customer \in [Customers -> Contacts \cup {Empty}]
    BY <1>2, LeadsAssumption DEF ChatCustomer, Contacts, LeadsInv, LeadsShape
  <2>2. \A d \in Customers : customer'[d] = IF d = c THEN p ELSE customer[d]
    BY <2>1
  <2>3. LeadsShape'
    BY <2>1 DEF LeadsInv, LeadsShape
  <2>4. Uniqueness'
    BY <2>1, <2>2 DEF LeadsInv, Uniqueness, OneOwner
  <2>5. References'
    <3>1. /\ \A x \in Channels : identity[x] # Empty => identity[x] \in Customers
          /\ \A m \in Leads : lead[m] # Empty /\ lead[m].customer # Empty => lead[m].customer \in Customers
      BY DEF LeadsInv, LeadsShape, LeadRows
    <3>. QED  BY <2>1, <2>2, <3>1 DEF LeadsInv, References
  <2>6. PlansSound'
    <3>1. \A j \in WritePlans : j.customer # Empty => j.customer \in Customers
      BY DEF WritePlans
    <3>. QED  BY <2>1, <2>2, <3>1 DEF LeadsInv, PlansSound, PlanSound
  <2>. QED  BY <2>1, <2>3, <2>4, <2>5, <2>6 DEF LeadsInv, KeyRowSound, RowsNamed, NamedBy, KeysHeld, KeyHeld, CallKeysApart, Working
<1>. QED  BY <1>1, <1>2

\* What a commit does to the lead rows: none goes, and a customer it names is c.
LeadsWritten(c) ==
  /\ lead' \in [Leads -> LeadRows \cup {Empty}]
  /\ \A m \in Leads : lead[m] # Empty => lead'[m] # Empty
  /\ \A m \in Leads : lead'[m] # Empty /\ lead'[m].customer # Empty
       => lead'[m].customer = c \/ (lead[m] # Empty /\ lead[m].customer = lead'[m].customer)

LEMMA CommitWritesLead ==
  ASSUME LeadsInv, NEW j \in WritePlans, PlanSound(j), NEW c \in Customers, customer'[c] \in Contacts,
         \/ j.lead # Empty /\ lead' = [lead EXCEPT ![j.lead] = Written(j, c)]
         \/ \E l \in FreshId(lead) : lead' = [lead EXCEPT ![l] = Created(j, c)]
         \/ UNCHANGED lead
  PROVE  LeadsWritten(c)
<1>1. lead \in [Leads -> LeadRows \cup {Empty}] /\ Empty \notin LeadRows /\ j.req \in AnyRequest
  BY LeadsAssumption DEF LeadsInv, LeadsShape, WritePlans
<1>2. CASE j.lead # Empty /\ lead' = [lead EXCEPT ![j.lead] = Written(j, c)]
  <2>1. /\ j.lead \in Leads /\ lead[j.lead] \in LeadRows /\ j.row \in LeadRows
    BY <1>1, <1>2 DEF PlanSound, WritePlans
  <2>2. Written(j, c) \in LeadRows
    BY <1>1, <2>1 DEF Written, LeadRows, AnyRequest, Contacts
  <2>3. Written(j, c).customer \in {c, lead[j.lead].customer}
    BY DEF Written
  <2>. QED  BY <1>1, <1>2, <2>1, <2>2, <2>3 DEF LeadsWritten
<1>3. CASE \E l \in FreshId(lead) : lead' = [lead EXCEPT ![l] = Created(j, c)]
  <2>1. PICK l \in FreshId(lead) : lead' = [lead EXCEPT ![l] = Created(j, c)]
    BY <1>3
  <2>2. l \in Leads
    BY <1>1, FreshIsFree
  <2>3. Created(j, c) \in LeadRows /\ Created(j, c).customer = c
    BY <1>1 DEF Created, LeadRows, AnyRequest, Contacts
  <2>. QED  BY <1>1, <2>1, <2>2, <2>3 DEF LeadsWritten
<1>4. CASE UNCHANGED lead
  BY <1>1, <1>4 DEF LeadsWritten
<1>. QED  BY <1>2, <1>3, <1>4

LEMMA CommitInv ==
  ASSUME LeadsInv, NEW w \in Clients, Commit(w)
  PROVE  LeadsInv'
<1> DEFINE j == call[w]
           r == j.req
           k == j.key
           writesPhone == r.phone # Empty /\ (j.customer = Empty \/ r.phone # j.phone)
           given(c, l) == [customer |-> c, lead |-> l]
<1>1. PICK c \in IF j.customer # Empty THEN {j.customer} ELSE FreshId(customer) :
        /\ writesPhone => \A d \in Customers \ {c} : customer[d] # r.phone
        /\ r.channel # Empty /\ ~j.linked => identity[r.channel] = Empty
        /\ customer' = [customer EXCEPT ![c] =
             IF writesPhone THEN r.phone ELSE IF j.customer = Empty THEN Unknown ELSE @]
        /\ identity' = IF r.channel = Empty \/ j.linked THEN identity
                       ELSE [identity EXCEPT ![r.channel] = c]
        /\ \/ j.lead # Empty
              /\ lead' = [lead EXCEPT ![j.lead] = Written(j, c)]
              /\ applied' = [applied EXCEPT ![k] = Append(@, given(c, j.lead))]
           \/ /\ j.lead = Empty /\ r.data
              /\ \E l \in FreshId(lead) :
                   /\ lead' = [lead EXCEPT ![l] = Created(j, c)]
                   /\ applied' = [applied EXCEPT ![k] = Append(@, given(c, l))]
           \/ /\ j.lead = Empty /\ ~r.data
              /\ applied' = [applied EXCEPT ![k] = Append(@, given(c, Empty))]
              /\ UNCHANGED lead
  BY DEF Commit
<1>5. /\ j = call[w] /\ r = j.req /\ k = j.key
      /\ execution' = Decided(k, "SUCCEEDED", Last(applied'[k]))
      /\ \E heard \in BOOLEAN :
           Goto(w, IF heard THEN NoCall ELSE [step |-> "failing", key |-> k, req |-> r])
      /\ j.step = "writing"
  BY DEF Commit
<1> HIDE DEF j, r, k
<1>2. /\ j \in WritePlans /\ Working(w) /\ k \in Keys /\ r \in AnyRequest
      /\ j.customer \in Customers \cup {Empty} /\ j.phone \in Contacts
  BY <1>5, CallKinds DEF Working, LeadsInv, LeadsShape, WritePlans
<1>3. PlanSound(j)
  BY <1>5, <1>2 DEF LeadsInv, PlansSound
<1>4. /\ execution[k] # Empty /\ execution[k] \in Executions /\ execution[k].req = r
      /\ applied[k] = <<>>
  <2>1. KeyHeld(w) /\ j.step = "writing"
    BY <1>5, <1>2 DEF LeadsInv, KeysHeld
  <2>. QED  BY <1>5, <1>2, <2>1 DEF KeyHeld, LeadsInv, LeadsShape, KeyRowSound
<1>6. /\ c \in Customers
      /\ j.customer # Empty => c = j.customer /\ customer[c] # Empty
      /\ j.customer = Empty => customer[c] = Empty
  BY <1>2, <1>3, <1>1, FreshIsFree DEF LeadsInv, LeadsShape, PlanSound
<1> DEFINE contact == IF writesPhone THEN r.phone ELSE IF j.customer = Empty THEN Unknown ELSE customer[c]
<1>7. /\ contact \in Contacts /\ contact # Empty
      /\ contact \in PhoneNumbers => \A d \in Customers \ {c} : customer[d] # contact
      /\ customer' = [customer EXCEPT ![c] = contact]
  <2>1. customer \in [Customers -> Contacts \cup {Empty}] /\ Empty \notin Contacts /\ Unknown \notin PhoneNumbers
    BY LeadsAssumption DEF LeadsInv, LeadsShape
  <2>2. contact \in Contacts
    BY <1>2, <1>6, <2>1 DEF AnyRequest, Contacts
  <2>3. contact \in PhoneNumbers => \A d \in Customers \ {c} : customer[d] # contact
    BY <1>1, <1>6, <2>1 DEF LeadsInv, Uniqueness, OneOwner
  <2>4. customer' = [customer EXCEPT ![c] = contact]
    BY <1>1
  <2>. QED  BY <2>1, <2>2, <2>3, <2>4
<1> HIDE DEF contact
<1>8. \A d \in Customers : customer'[d] = IF d = c THEN contact ELSE customer[d]
  BY <1>7 DEF LeadsInv, LeadsShape
<1>9. /\ identity' \in [Channels -> Customers \cup {Empty}]
      /\ \A x \in Channels : identity[x] # Empty => identity'[x] = identity[x]
      /\ \A x \in Channels : identity'[x] = identity[x] \/ identity'[x] = c
      /\ r.channel # Empty => identity'[r.channel] = c
  BY <1>2, <1>3, <1>1, <1>6, <1>5 DEF PlanSound, LeadsInv, LeadsShape, AnyRequest
<1>10. LeadsWritten(c)
  BY <1>2, <1>3, <1>1, <1>6, <1>7, <1>8, CommitWritesLead
<1>11. PICK l \in Leads \cup {Empty} : applied' = [applied EXCEPT ![k] = Append(@, given(c, l))]
  BY <1>2, <1>1, FreshIsFree DEF WritePlans, LeadsInv, LeadsShape
<1> DEFINE told == given(c, l)
           row == [req |-> execution[k].req, status |-> "SUCCEEDED", answer |-> told]
<1>12. told \in Applications /\ told # Empty /\ told.customer = c
  BY <1>6, LeadsAssumption DEF Applications
<1> HIDE DEF told
<1>13. /\ applied' = [applied EXCEPT ![k] = <<told>>] /\ Last(applied'[k]) = told
       /\ applied' \in [Keys -> Seq(Applications)]
  <2>1. applied' = [applied EXCEPT ![k] = <<told>>]
    BY <1>4, <1>11 DEF told
  <2>. QED  BY <1>2, <1>12, <2>1 DEF LeadsInv, LeadsShape, Last
<1>14. /\ row \in Executions /\ row.req = r /\ row.status = "SUCCEEDED" /\ row.answer = told
  BY <1>4, <1>12 DEF Executions
<1>15. /\ execution' = [execution EXCEPT ![k] = row]
       /\ \/ call' = [call EXCEPT ![w] = NoCall]
          \/ call' = [call EXCEPT ![w] = [step |-> "failing", key |-> k, req |-> r]]
  BY <1>5, <1>13 DEF Decided, Goto
<1> HIDE DEF row
<1>16. row # Empty
  BY <1>14, LeadsAssumption
<1>17. PICK n \in {NoCall} \cup Held : /\ n # NoCall => n.key = k /\ n.req = r /\ n.step = "failing"
                                       /\ n \notin WritePlans
                                       /\ call' = [call EXCEPT ![w] = n]
  <2> DEFINE failing == [step |-> "failing", key |-> k, req |-> r]
  <2>1. failing \in Held /\ failing.key = k /\ failing.req = r /\ failing.step = "failing" /\ failing \notin WritePlans
    BY <1>2 DEF Held, WritePlans
  <2>2. NoCall \notin WritePlans
    BY DEF NoCall, WritePlans
  <2>. QED  BY <1>15, <2>1, <2>2
<1>18. /\ \A v \in Clients : call'[v] = IF v = w THEN n ELSE call[v]
       /\ \A m \in Keys : execution'[m] = IF m = k THEN row ELSE execution[m]
       /\ \A m \in Keys : applied'[m] = IF m = k THEN <<told>> ELSE applied[m]
  BY <1>13, <1>15, <1>17 DEF LeadsInv, LeadsShape
<1>19. LeadsShape'
  BY <1>7, <1>9, <1>10, <1>13, <1>14, <1>15, <1>17 DEF LeadsInv, LeadsShape, LeadsWritten
<1>20. Uniqueness'
  BY <1>7, <1>8 DEF LeadsInv, Uniqueness, OneOwner
<1>21. \A d \in Customers : customer[d] # Empty \/ d = c => customer'[d] # Empty
  BY <1>7, <1>8
<1>22. References'
  <2>1. \A x \in Channels : identity'[x] # Empty => customer'[identity'[x]] # Empty
    BY <1>6, <1>9, <1>21 DEF LeadsInv, LeadsShape, References
  <2>2. \A m \in Leads : lead'[m] # Empty /\ lead'[m].customer # Empty => customer'[lead'[m].customer] # Empty
    <3>1. \A m \in Leads : lead[m] # Empty /\ lead[m].customer # Empty => lead[m].customer \in Customers
      BY DEF LeadsInv, LeadsShape, LeadRows
    <3>. QED  BY <1>6, <1>10, <1>21, <3>1 DEF LeadsWritten, LeadsInv, References
  <2>. QED  BY <2>1, <2>2 DEF References
<1>23. (\A m \in Keys : KeyRowSound(m))'
  <2>1. ASSUME NEW m \in Keys  PROVE KeyRowSound(m)'
    <3>1. CASE m = k
      <4>1. Len(<<told>>) <= 1
        OBVIOUS
      <4>. QED  BY <1>2, <1>12, <1>14, <1>16, <1>18, <3>1, <4>1 DEF KeyRowSound
    <3>2. CASE m # k
      BY <1>18, <3>2 DEF KeyRowSound, LeadsInv
    <3>. QED  BY <3>1, <3>2
  <2>. QED  BY <2>1
<1>24. RowsNamed'
  <2>1. ASSUME NEW m \in Keys, NEW i \in DOMAIN applied'[m]
        PROVE  NamedBy(execution[m].req, applied[m][i].customer)'
    <3>1. CASE m = k
      <4>1. applied'[m][i] = told
        BY <1>18, <3>1
      <4>2. r.customer # Empty => c = r.customer
        BY <1>5, <1>3, <1>6 DEF PlanSound
      <4>3. execution'[m].req = r
        BY <1>2, <1>14, <1>18, <3>1
      <4>. QED  BY <1>9, <1>12, <4>1, <4>2, <4>3 DEF NamedBy
    <3>2. CASE m # k
      <4>1. NamedBy(execution[m].req, applied[m][i].customer) /\ i \in DOMAIN applied[m]
        BY <1>18, <3>2 DEF LeadsInv, RowsNamed
      <4>2. execution[m] # Empty
        BY <4>1 DEF LeadsInv, KeyRowSound
      <4>3. execution[m].req \in AnyRequest
        BY <4>2 DEF LeadsInv, LeadsShape, Executions
      <4>4. applied[m][i].customer \in Customers
        <5>1. applied[m] \in Seq(Applications)
          BY DEF LeadsInv, LeadsShape
        <5>2. applied[m][i] \in Applications
          BY <4>1, <5>1
        <5>. QED  BY <5>2 DEF Applications
      <4>5. execution'[m] = execution[m] /\ applied'[m] = applied[m]
        BY <1>18, <3>2
      <4>6. execution[m].req.channel \in Channels \cup {Empty}
        BY <4>3 DEF AnyRequest
      <4>7. Empty \notin Customers
        BY LeadsAssumption
      <4>. QED  BY <1>9, <4>1, <4>4, <4>5, <4>6, <4>7 DEF NamedBy
    <3>. QED  BY <3>1, <3>2
  <2>. QED  BY <2>1 DEF RowsNamed
<1>25. \A v \in Clients : Working(v) /\ v # w => call[v].key # k /\ call[v].key \in Keys
  BY <1>5, <1>2, CallKinds DEF LeadsInv, LeadsShape, CallKeysApart, Working
<1>26. KeysHeld'
  BY <1>2, <1>14, <1>16, <1>17, <1>18, <1>25 DEF LeadsInv, KeysHeld, KeyHeld, Working
<1>27. CallKeysApart'
  BY <1>17, <1>18, <1>25 DEF LeadsInv, CallKeysApart, Working
<1>28. PlansSound'
  <2>1. ASSUME NEW v \in Clients, call'[v] \in WritePlans  PROVE PlanSound(call[v])'
    <3>1. call'[v] = call[v] /\ PlanSound(call[v])
      BY <1>17, <1>18, <2>1 DEF LeadsInv, PlansSound
    <3>2. SUFFICES ASSUME NEW p \in WritePlans, PlanSound(p)  PROVE PlanSound(p)'
      BY <2>1, <3>1 DEF PlanSound
    <3>3. p.customer \in Customers \cup {Empty} /\ p.req \in AnyRequest /\ p.lead \in Leads \cup {Empty}
      BY <3>2 DEF WritePlans
    <3>4. p.req.channel \in Channels \cup {Empty}
      BY <3>3 DEF AnyRequest
    <3>. QED  BY <1>9, <1>10, <1>21, <3>2, <3>3, <3>4 DEF PlanSound, LeadsWritten
  <2>. QED  BY <2>1 DEF PlansSound
<1>. QED  BY <1>19, <1>20, <1>22, <1>23, <1>24, <1>26, <1>27, <1>28 DEF LeadsInv

LEMMA LeadsInvNext ==
  ASSUME LeadsInv, [LeadsNext]_leadVars
  PROVE  LeadsInv'
<1>1. CASE UNCHANGED leadVars
  BY <1>1 DEF leadVars, LeadsInv, LeadsShape, Uniqueness, OneOwner, References, KeyRowSound, RowsNamed,
              NamedBy, KeysHeld, KeyHeld, CallKeysApart, Working, PlansSound, PlanSound
<1>2. CASE LeadsNext
  <2>1. CASE \E w \in Clients, k \in Keys, r \in Requests : Claim(w, k, r)
    BY <2>1, ClaimInv
  <2>2. CASE \E w \in Clients, k \in Keys :
               execution[k] # Empty
               /\ \E r \in {execution[k].req, [execution[k].req EXCEPT !.data = ~@]} : Repeat(w, k, r)
    BY <1>1, <2>2 DEF Repeat
  <2>3. CASE \E w \in Clients : Resolve(w) \/ Commit(w) \/ Abort(w) \/ FailCall(w) \/ Crash(w)
    BY <2>3, ResolveInv, CommitInv, CallFailsInv, CrashInv
  <2>4. CASE \/ \E l \in Leads, p \in PhoneNumbers : WebLead(l, p)
             \/ \E l \in Leads : UpdateStatus(l)
             \/ \E c \in Customers, p \in PhoneNumbers : ChatCustomer(c, p)
    BY <2>4, OthersInv
  <2>. QED  BY <1>2, <2>1, <2>2, <2>3, <2>4 DEF LeadsNext
<1>. QED  BY <1>1, <1>2

-----------------------------------------------------------------------------
(* Theorems *)

\* The inductive invariant holds in every reachable state.
THEOREM LeadsInvariant == LeadsSpec => []LeadsInv
<1>1. LeadsInit => LeadsInv
  BY LeadsInvInit
<1>2. LeadsInv /\ [LeadsNext]_leadVars => LeadsInv'
  BY LeadsInvNext
<1>. QED  BY <1>1, <1>2, PTL DEF LeadsSpec

\* The unique indexes and foreign keys of customers, identities and leads hold, and a row has
\* an answer exactly when it is decided, for any number of concurrent callers.
THEOREM LeadsTyped == LeadsSpec => []LeadsTypeOK
<1>1. LeadsInv => LeadsTypeOK
  BY DEF LeadsInv, LeadsShape, Uniqueness, OneOwner, References, KeyRowSound, LeadsTypeOK
<1>. QED  BY <1>1, LeadsInvariant, PTL

\* However callers repeat a key, die or miss answers: the key is applied at most once, what is
\* replayed is what was committed, and it went to the customer the request names.
THEOREM KeysAppliedOnce == LeadsSpec => []Applied
<1>1. LeadsInv => AppliedOnce
  BY DEF LeadsInv, KeyRowSound, AppliedOnce
<1>2. LeadsInv => AppliedToOwner
  BY DEF LeadsInv, RowsNamed, NamedBy, AppliedToOwner
<1>. QED  BY <1>1, <1>2, LeadsInvariant, PTL DEF Applied

=============================================================================
