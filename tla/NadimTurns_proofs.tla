------------------------- MODULE NadimTurns_proofs -------------------------
(***************************************************************************)
(* Proofs about NadimTurns, for any number of handlers, keys and           *)
(* conversations and any bounds.  The inductive invariant is Inv: it holds *)
(* initially (InitInv), most steps leave the rows alone and preserve it    *)
(* for that reason (QuietStep), and the four steps that write turns are    *)
(* treated one by one.  The properties the runs check follow from it.      *)
(***************************************************************************)
EXTENDS NadimTurns, TLAPS

(***************************************************************************)
(* How a step moves its handler                                            *)
(***************************************************************************)
LEMMA RowType ==
  /\ \A l \in {"absent", "live", "softDeleted", "gone"} : Row(l) \in ConversationRow
  /\ Idle \in HandlerState
  BY DEF Idle, HandlerState, Row, ConversationRow, Steps, Modes

LEMMA GotoMoves ==
  ASSUME NEW h \in Handlers, NEW p \in Steps, TypeOK, Goto(h, p)
  PROVE  /\ handler' \in [Handlers -> HandlerState]
         /\ handler' = [handler EXCEPT ![h] = handler'[h]]
         /\ handler'[h].pc = p
         /\ handler'[h].req = handler[h].req
         /\ handler'[h].at = handler[h].at
         /\ handler'[h].seen = handler[h].seen
         /\ handler'[h].run = handler[h].run
  BY DEF Goto, TypeOK, HandlerState

LEMMA StartInMoves ==
  ASSUME NEW h \in Handlers, NEW c \in Conversations, NEW row \in ConversationRow, TypeOK,
         StartIn(h, c, row)
  PROVE  /\ handler' \in [Handlers -> HandlerState]
         /\ \A g \in Handlers \ {h} : handler'[g] = handler[g]
         /\ handler'[h].pc = "claim"
         /\ handler'[h].at = c
         /\ handler'[h].req = handler[h].req
<1> DEFINE moved == [handler[h] EXCEPT !.pc = "claim", !.at = c, !.seen = row]
<1>1. /\ moved \in HandlerState
      /\ moved.pc = "claim"
      /\ moved.at = c
      /\ moved.req = handler[h].req
  BY DEF TypeOK, HandlerState, Steps
<1>2. handler' = [handler EXCEPT ![h] = moved]
  BY DEF StartIn
<1>. QED  BY <1>1, <1>2 DEF TypeOK

LEMMA LeaveMoves ==
  ASSUME NEW h \in Handlers, TypeOK, Leave(h)
  PROVE  /\ handler' \in [Handlers -> HandlerState]
         /\ handler' = [handler EXCEPT ![h] = handler'[h]]
         /\ handler'[h].pc = "idle"
  BY RowType DEF Leave, TypeOK, Idle

(***************************************************************************)
(* Steps that write no turn, receipt or claim                              *)
(***************************************************************************)
\* A handler that stays, or moves without claiming, losing or resuming work.
SafeMove(h) ==
    \/ handler'[h] = handler[h]
    \/ /\ handler'[h].pc # "idle" => handler'[h].req \in Request
       /\ handler'[h].pc \in {"lookup", "lookupReceipt", "relookup", "relookupReceipt",
                              "delete"} => handler'[h].req.key \in Keys
       /\ handler'[h].pc = "claim" =>
             /\ handler'[h].at \in Conversations
             /\ conversation'[handler'[h].at].lifecycle # "absent"
       /\ handler'[h].pc \in Claimed =>
             /\ handler[h].pc \in Claimed
             /\ handler'[h].run = handler[h].run
             /\ handler'[h].at = handler[h].at
             /\ handler'[h].req = handler[h].req
       /\ handler'[h].pc \in Working => handler[h].pc \in Working
       /\ handler'[h].pc = "delete" => handler'[h].seen.until > 0

LEMMA QuietStep ==
  ASSUME Inv,
         UNCHANGED <<turns, receipts, lastRun, claimed>>,
         clock' \in Nat,
         conversation' \in [Conversations -> ConversationRow],
         \A c \in Conversations :
             \/ conversation'[c].lifecycle = conversation[c].lifecycle
             \/ /\ conversation[c].lifecycle \in {"absent", "live"}
                /\ conversation'[c].lifecycle \in {"live", "softDeleted"},
         AbsentIsBlank',
         answer' \in [asked : Body, outcome : Outcome] \cup {None},
         ReplayFaithful',
         handler' \in [Handlers -> HandlerState],
         \A h \in Handlers : SafeMove(h)
  PROVE  Inv'
<1>1. TypeOK'
  BY DEF Inv, TypeOK
<1>2. HandlersWellFormed'
  BY DEF Inv, HandlersWellFormed, TypeOK, KeyOf, At, SafeMove
<1>3. RunsAreFresh'
  BY DEF Inv, RunsAreFresh, TypeOK, SafeMove
<1>4. \A c \in Conversations : /\ conversation[c].lifecycle = "gone" <=> conversation'[c].lifecycle = "gone"
                               /\ conversation[c].lifecycle # "absent" =>
                                     (Exists(c) <=> Exists(c)')
                               /\ Exists(c) => Exists(c)'
  BY DEF Inv, TypeOK, ConversationRow, Exists
<1>5. ClaimExclusive'
  BY <1>4 DEF Inv, ClaimExclusive, HandlersWellFormed, TypeOK, Claimed, Working, Keyed, KeyOf,
              BodyOf, At, OwnsRow, SafeMove
<1>6. WorkIsInProgress'
  BY <1>4 DEF Inv, WorkIsInProgress, HandlersWellFormed, TypeOK, Claimed, Working, Keyed, KeyOf,
              At, SafeMove
<1>7. NoOrphans'
  BY <1>4 DEF Inv, NoOrphans, TypeOK, TurnRow, ReceiptRow, Outcome
<1>8. RowsAreFaithful' /\ ClaimsAreKept'
  BY <1>4 DEF Inv, RowsAreFaithful, ClaimsAreKept, TypeOK, Outcome
<1>9. DeletionWasRequested'
  BY DEF Inv, DeletionWasRequested, SafeMove
<1>. QED  BY <1>1, <1>2, <1>3, <1>5, <1>6, <1>7, <1>8, <1>9 DEF Inv

LEMMA ReceiveInv ==
  ASSUME Inv, NEW h \in Handlers, Receive(h)
  PROVE  Inv'
<1>1. PICK r \in Requests :
         handler' = [handler EXCEPT ![h] =
                        [@ EXCEPT !.pc = IF r.key = NoKey THEN "resolve" ELSE "lookup",
                                  !.req = r]]
  BY DEF Receive
<1>2. r \in Request
  BY RequestsAssumption
<1> DEFINE moved == [handler[h] EXCEPT !.pc = IF r.key = NoKey THEN "resolve" ELSE "lookup",
                                       !.req = r]
<1>3. /\ handler' \in [Handlers -> HandlerState]
      /\ \A g \in Handlers \ {h} : handler'[g] = handler[g]
      /\ handler'[h].pc = IF r.key = NoKey THEN "resolve" ELSE "lookup"
      /\ handler'[h].req = r
  <2>1. /\ moved \in HandlerState
        /\ moved.pc = IF r.key = NoKey THEN "resolve" ELSE "lookup"
        /\ moved.req = r
    BY <1>2 DEF Inv, TypeOK, HandlerState, Steps
  <2>2. handler' = [handler EXCEPT ![h] = moved]
    BY <1>1
  <2>. QED  BY <2>1, <2>2 DEF Inv, TypeOK
<1>4. \A g \in Handlers : SafeMove(g)
  BY <1>2, <1>3 DEF SafeMove, Request, Claimed, Working
<1>. QED  BY <1>3, <1>4, QuietStep DEF Receive, database, history, Inv, TypeOK, AbsentIsBlank,
             ReplayFaithful

\* A replayed response was composed for the body the row was stored with.
LEMMA ReplayAnswers ==
  ASSUME TypeOK, HandlersWellFormed, NEW h \in Handlers, handler[h].pc # "idle",
         NEW row, row \in TurnRow \/ row \in ReceiptRow,
         row.payload # None => row.payload.hash = row.hash,
         ReplayFaithful, Replay(h, row)
  PROVE  /\ answer' \in [asked : Body, outcome : Outcome] \cup {None}
         /\ ReplayFaithful'
<1>1. BodyOf(h) \in Body
  BY DEF HandlersWellFormed, BodyOf, Request
<1>2. row.payload # None => row.payload \in Outcome
  BY DEF TurnRow, ReceiptRow
<1>. QED  BY <1>1, <1>2 DEF Replay, SameRequest, ReplayFaithful, TypeOK

LEMMA LookupTurnInv ==
  ASSUME Inv, NEW h \in Handlers, LookupTurn(h)
  PROVE  Inv'
<1>1. /\ handler[h].pc # "idle"
      /\ KeyOf(h) \in Keys
      /\ handler[h].req \in Request
  BY DEF LookupTurn, Inv, HandlersWellFormed
<1>2. CASE turns[KeyOf(h)] # None /\ Replay(h, turns[KeyOf(h)])
  <2>1. /\ turns[KeyOf(h)] \in TurnRow
        /\ turns[KeyOf(h)].payload # None =>
              turns[KeyOf(h)].payload.hash = turns[KeyOf(h)].hash
    BY <1>1, <1>2 DEF Inv, TypeOK, RowsAreFaithful
  <2>2. /\ answer' \in [asked : Body, outcome : Outcome] \cup {None}
        /\ ReplayFaithful'
    BY <1>1, <1>2, <2>1, ReplayAnswers DEF Inv, ReplayFaithful
  <2>3. handler' \in [Handlers -> HandlerState] /\ \A g \in Handlers : SafeMove(g)
    BY <1>2, LeaveMoves DEF Replay, Inv, TypeOK, SafeMove, Claimed, Working
  <2>. QED  BY <2>2, <2>3, QuietStep DEF LookupTurn, database, Inv, TypeOK, AbsentIsBlank
<1>3. CASE /\ turns[KeyOf(h)] = None
           /\ Goto(h, IF handler[h].pc = "lookup" THEN "lookupReceipt" ELSE "relookupReceipt")
           /\ UNCHANGED answer
  <2>1. handler' \in [Handlers -> HandlerState] /\ \A g \in Handlers : SafeMove(g)
    BY <1>1, <1>3, GotoMoves DEF Inv, TypeOK, SafeMove, Claimed, Working, Steps, KeyOf
  <2>. QED  BY <1>3, <2>1, QuietStep DEF LookupTurn, database, Inv, TypeOK, AbsentIsBlank,
               ReplayFaithful
<1>. QED  BY <1>2, <1>3 DEF LookupTurn

LEMMA LookupReceiptInv ==
  ASSUME Inv, NEW h \in Handlers, LookupReceipt(h)
  PROVE  Inv'
<1>1. /\ handler[h].pc # "idle"
      /\ KeyOf(h) \in Keys
      /\ handler[h].req \in Request
  BY DEF LookupReceipt, Inv, HandlersWellFormed
<1>2. CASE receipts[KeyOf(h)] # None /\ Replay(h, receipts[KeyOf(h)])
  <2>1. /\ receipts[KeyOf(h)] \in ReceiptRow
        /\ receipts[KeyOf(h)].payload.hash = receipts[KeyOf(h)].hash
    BY <1>1, <1>2 DEF Inv, TypeOK, RowsAreFaithful
  <2>2. /\ answer' \in [asked : Body, outcome : Outcome] \cup {None}
        /\ ReplayFaithful'
    BY <1>1, <1>2, <2>1, ReplayAnswers DEF Inv, ReplayFaithful
  <2>3. handler' \in [Handlers -> HandlerState] /\ \A g \in Handlers : SafeMove(g)
    BY <1>2, LeaveMoves DEF Replay, Inv, TypeOK, SafeMove, Claimed, Working
  <2>. QED  BY <2>2, <2>3, QuietStep DEF LookupReceipt, database, Inv, TypeOK, AbsentIsBlank
<1>3. CASE /\ receipts[KeyOf(h)] = None
           /\ IF handler[h].pc = "lookupReceipt" THEN Goto(h, "resolve") ELSE Leave(h)
           /\ UNCHANGED answer
  <2>1. handler' \in [Handlers -> HandlerState] /\ \A g \in Handlers : SafeMove(g)
    BY <1>1, <1>3, GotoMoves, LeaveMoves DEF Inv, TypeOK, SafeMove, Claimed, Working, Steps
  <2>. QED  BY <1>3, <2>1, QuietStep DEF LookupReceipt, database, Inv, TypeOK, AbsentIsBlank,
               ReplayFaithful
<1>. QED  BY <1>2, <1>3 DEF LookupReceipt

LEMMA ResolveInv ==
  ASSUME Inv, NEW h \in Handlers, Resolve(h)
  PROVE  Inv'
<1>1. handler[h].pc # "idle" /\ handler[h].req \in Request
  BY DEF Resolve, Inv, HandlersWellFormed
<1>2. handler' \in [Handlers -> HandlerState] /\ \A g \in Handlers : SafeMove(g)
  <2>1. ASSUME NEW c \in Conversations,
               conversation[c].lifecycle = "live",
               StartIn(h, c, conversation[c])
        PROVE  handler' \in [Handlers -> HandlerState] /\ \A g \in Handlers : SafeMove(g)
    <3>0. conversation[c] \in ConversationRow
      BY DEF Inv, TypeOK
    <3>1. /\ handler' \in [Handlers -> HandlerState]
          /\ \A g \in Handlers \ {h} : handler'[g] = handler[g]
          /\ handler'[h].pc = "claim"
          /\ handler'[h].at = c
          /\ handler'[h].req = handler[h].req
      BY <2>1, <3>0, StartInMoves DEF Inv
    <3>2. conversation'[c].lifecycle = "live"
      BY <2>1 DEF Resolve, database
    <3>. QED  BY <1>1, <3>1, <3>2 DEF SafeMove, Claimed, Working
  <2>2. CASE Goto(h, "create")
    BY <1>1, <2>2, GotoMoves DEF Inv, TypeOK, SafeMove, Claimed, Working, Steps
  <2>3. CASE Leave(h)
    BY <2>3, LeaveMoves DEF Inv, TypeOK, SafeMove, Claimed, Working
  <2>. QED  BY <2>1, <2>2, <2>3 DEF Resolve
<1>. QED  BY <1>2, QuietStep DEF Resolve, database, history, Inv, TypeOK, AbsentIsBlank,
             ReplayFaithful

LEMMA CreateConversationInv ==
  ASSUME Inv, NEW h \in Handlers, CreateConversation(h)
  PROVE  Inv'
<1>1. PICK c \in Conversations :
         /\ conversation[c].lifecycle = "absent"
         /\ conversation' = [conversation EXCEPT ![c] = Row("live")]
         /\ StartIn(h, c, Row("live"))
  BY DEF CreateConversation
<1>2. /\ handler' \in [Handlers -> HandlerState]
      /\ \A g \in Handlers \ {h} : handler'[g] = handler[g]
      /\ handler'[h].pc = "claim"
      /\ handler'[h].at = c
      /\ handler'[h].req = handler[h].req
  BY <1>1, RowType, StartInMoves DEF Inv
<1>3. /\ conversation' \in [Conversations -> ConversationRow]
      /\ conversation'[c].lifecycle = "live"
      /\ \A d \in Conversations \ {c} : conversation'[d] = conversation[d]
  BY <1>1, RowType DEF Inv, TypeOK, Row
<1>4. handler[h].req \in Request
  BY DEF CreateConversation, Inv, HandlersWellFormed
<1>5. \A g \in Handlers : SafeMove(g)
  BY <1>2, <1>3, <1>4 DEF SafeMove, Claimed, Working
<1>6. AbsentIsBlank'
  BY <1>3 DEF Inv, AbsentIsBlank
<1>. QED  BY <1>1, <1>2, <1>3, <1>5, <1>6, QuietStep
          DEF CreateConversation, history, Inv, TypeOK, ReplayFaithful

LEMMA ThrowInv ==
  ASSUME Inv, NEW h \in Handlers, Throw(h)
  PROVE  Inv'
<1>1. handler' \in [Handlers -> HandlerState] /\ \A g \in Handlers : SafeMove(g)
  BY GotoMoves DEF Throw, Inv, TypeOK, HandlersWellFormed, SafeMove, Claimed, Working, Steps
<1>. QED  BY <1>1, QuietStep DEF Throw, database, history, Inv, TypeOK, AbsentIsBlank,
             ReplayFaithful

LEMMA CrashInv ==
  ASSUME Inv, NEW h \in Handlers, Crash(h)
  PROVE  Inv'
<1>1. handler' \in [Handlers -> HandlerState] /\ \A g \in Handlers : SafeMove(g)
  BY LeaveMoves DEF Crash, Inv, TypeOK, SafeMove, Claimed, Working
<1>. QED  BY <1>1, QuietStep DEF Crash, database, history, Inv, TypeOK, AbsentIsBlank,
             ReplayFaithful

\* A handler that works at a conversation and moves on with the turn it claimed.
LEMMA WorkMoves ==
  ASSUME Inv, NEW h \in Handlers, handler[h].pc \in Working,
         NEW p \in {"tools", "record", "delete", "fail"}, Goto(h, p),
         p = "delete" => KeyOf(h) \in Keys /\ handler[h].seen.until > 0
  PROVE  /\ handler' \in [Handlers -> HandlerState]
         /\ \A g \in Handlers : SafeMove(g)
  BY GotoMoves DEF Inv, TypeOK, HandlersWellFormed, SafeMove, Claimed, Working, Steps, KeyOf

LEMMA UpdateThenRecordMoves ==
  ASSUME Inv, NEW h \in Handlers, handler[h].pc \in Working,
         NEW row, UpdateThenRecord(h, row),
         row \in ConversationRow,
         row.lifecycle = conversation[At(h)].lifecycle
  PROVE  /\ handler' \in [Handlers -> HandlerState]
         /\ \A g \in Handlers : SafeMove(g)
         /\ conversation' \in [Conversations -> ConversationRow]
         /\ \A c \in Conversations : conversation'[c].lifecycle = conversation[c].lifecycle
         /\ AbsentIsBlank'
<1>1. At(h) \in Conversations /\ conversation[At(h)].lifecycle # "absent"
  BY DEF Inv, HandlersWellFormed, Claimed
<1>2. handler' \in [Handlers -> HandlerState] /\ \A g \in Handlers : SafeMove(g)
  BY WorkMoves DEF UpdateThenRecord
<1>3. \/ conversation' = conversation
      \/ conversation' = [conversation EXCEPT ![At(h)] = row]
  BY DEF UpdateThenRecord
<1>. QED  BY <1>1, <1>2, <1>3 DEF Inv, TypeOK, AbsentIsBlank

LEMMA DecideInv ==
  ASSUME Inv, NEW h \in Handlers, Decide(h)
  PROVE  Inv'
<1> DEFINE Kept == /\ handler' \in [Handlers -> HandlerState]
                   /\ \A g \in Handlers : SafeMove(g)
                   /\ conversation' \in [Conversations -> ConversationRow]
                   /\ \A c \in Conversations : conversation'[c].lifecycle = conversation[c].lifecycle
                   /\ AbsentIsBlank'
<1>1. handler[h].pc \in Working /\ handler[h].seen \in ConversationRow
  BY DEF Decide, Working, Inv, TypeOK, HandlerState
<1>2. /\ conversation[At(h)] \in ConversationRow
      /\ handler[h].req \in Request
  BY <1>1 DEF Inv, TypeOK, HandlersWellFormed, Claimed, Working
<1>3. ASSUME NEW p \in {"tools", "record"}, Continue(h, p)
      PROVE  Kept
  BY <1>1, <1>3, WorkMoves DEF Continue, Inv, TypeOK, AbsentIsBlank
<1>4. ASSUME NEW m \in Modes, UpdateThenRecord(h, [conversation[At(h)] EXCEPT !.mode = m])
      PROVE  Kept
  <2> DEFINE row == [conversation[At(h)] EXCEPT !.mode = m]
  <2>1. row \in ConversationRow /\ row.lifecycle = conversation[At(h)].lifecycle
    BY <1>2 DEF ConversationRow
  <2>. HIDE DEF row
  <2>2. UpdateThenRecord(h, row)
    BY <1>4 DEF row
  <2>. QED  BY <1>1, <2>1, <2>2, UpdateThenRecordMoves
<1>5. ASSUME UpdateThenRecord(h, [conversation[At(h)] EXCEPT !.until = clock + DeletionWindow])
      PROVE  Kept
  <2> DEFINE row == [conversation[At(h)] EXCEPT !.until = clock + DeletionWindow]
  <2>1. row \in ConversationRow /\ row.lifecycle = conversation[At(h)].lifecycle
    BY <1>2, BoundsAssumption DEF ConversationRow, Inv, TypeOK
  <2>. HIDE DEF row
  <2>2. UpdateThenRecord(h, row)
    BY <1>5 DEF row
  <2>. QED  BY <1>1, <2>1, <2>2, UpdateThenRecordMoves
<1>6. ASSUME Continue(h, IF PendingIsActive(h) /\ Keyed(h) THEN "delete" ELSE "record")
      PROVE  Kept
  <2>1. CASE PendingIsActive(h) /\ Keyed(h)
    <3>1. KeyOf(h) \in Keys /\ handler[h].seen.until > 0
      BY <1>1, <1>2, <2>1 DEF PendingIsActive, Keyed, KeyOf, Request, ConversationRow, Inv, TypeOK
    <3>. QED  BY <1>1, <1>6, <2>1, <3>1, WorkMoves DEF Continue, Inv, TypeOK, AbsentIsBlank
  <2>2. CASE ~(PendingIsActive(h) /\ Keyed(h))
    BY <1>3, <1>6, <2>2
  <2>. QED  BY <2>1, <2>2
<1>7. ASSUME NEW action, ApplyControl(h, action)
      PROVE  Kept
  BY <1>3, <1>4, <1>5, <1>6, <1>7 DEF ApplyControl, Modes
<1>8. Kept
  BY <1>3, <1>7 DEF Decide
<1>. QED  BY <1>8, QuietStep DEF Decide, history, Inv, TypeOK, ReplayFaithful

LEMMA DashboardInv ==
  ASSUME Inv, NEW c \in Conversations,
         (\E m \in AdminModes : AdminSetMode(c, m)) \/ AdminDelete(c) \/ ReleaseStaleHuman(c)
  PROVE  Inv'
<1>1. conversation[c] \in ConversationRow
  BY DEF Inv, TypeOK
<1>2. PICK row \in ConversationRow :
         /\ conversation' = [conversation EXCEPT ![c] = row]
         /\ Exists(c)
         /\ \/ row.lifecycle = conversation[c].lifecycle
            \/ conversation[c].lifecycle = "live" /\ row.lifecycle = "softDeleted"
  <2>1. ASSUME NEW m \in AdminModes, AdminSetMode(c, m)
        PROVE  [conversation[c] EXCEPT !.mode = m] \in ConversationRow
    BY <1>1, <2>1, ModesAssumption DEF ConversationRow
  <2>2. /\ [conversation[c] EXCEPT !.lifecycle = "softDeleted", !.mode = "PAUSED"] \in ConversationRow
        /\ [conversation[c] EXCEPT !.mode = "AI"] \in ConversationRow
    BY <1>1 DEF ConversationRow, Modes
  <2>3. ASSUME NEW m \in AdminModes, AdminSetMode(c, m)
        PROVE  \E row \in ConversationRow :
                 /\ conversation' = [conversation EXCEPT ![c] = row]
                 /\ Exists(c)
                 /\ row.lifecycle = conversation[c].lifecycle
    BY <1>1, <2>1, <2>3 DEF AdminSetMode, ConversationRow
  <2>4. CASE AdminDelete(c)
    <3> DEFINE row == [conversation[c] EXCEPT !.lifecycle = "softDeleted", !.mode = "PAUSED"]
    <3>1. row \in ConversationRow /\ row.lifecycle = "softDeleted"
      BY <1>1, <2>2 DEF ConversationRow
    <3>2. conversation' = [conversation EXCEPT ![c] = row] /\ conversation[c].lifecycle = "live"
      BY <2>4 DEF AdminDelete
    <3>. HIDE DEF row
    <3>. QED  BY <3>1, <3>2 DEF Exists
  <2>5. CASE ReleaseStaleHuman(c)
    BY <1>1, <2>2, <2>5 DEF ReleaseStaleHuman, Exists, ConversationRow
  <2>. QED  BY <2>3, <2>4, <2>5
<1>3. UNCHANGED <<turns, receipts, lastRun, clock, handler, history>>
  BY DEF AdminSetMode, AdminDelete, ReleaseStaleHuman
<1>4. /\ conversation' \in [Conversations -> ConversationRow]
      /\ \A d \in Conversations \ {c} : conversation'[d] = conversation[d]
      /\ conversation'[c] = row
  BY <1>2 DEF Inv, TypeOK
<1>5. AbsentIsBlank'
  BY <1>2, <1>4 DEF Inv, AbsentIsBlank, Exists
<1>. QED  BY <1>2, <1>3, <1>4, <1>5, QuietStep DEF SafeMove, history, Inv, TypeOK, ReplayFaithful

LEMMA TickInv ==
  ASSUME Inv, Tick
  PROVE  Inv'
  BY QuietStep DEF Tick, SafeMove, database, history, Inv, TypeOK, AbsentIsBlank, ReplayFaithful

(***************************************************************************)
(* The steps that write turns, receipts and claims                         *)
(***************************************************************************)
LEMMA ClaimInv ==
  ASSUME Inv, NEW h \in Handlers, Claim(h)
  PROVE  Inv'
<1>1. /\ handler[h].pc = "claim"
      /\ handler[h] \in HandlerState
      /\ handler[h].req \in Request
      /\ At(h) \in Conversations
      /\ conversation[At(h)].lifecycle # "absent"
      /\ lastRun \in Nat
  BY DEF Claim, Inv, TypeOK, HandlersWellFormed
<1>2. KeyOf(h) \in Keys \cup {NoKey} /\ BodyOf(h) \in Body
  BY <1>1 DEF KeyOf, BodyOf, Request
<1>3. CASE Taken(h) /\ Goto(h, "relookup") /\ UNCHANGED <<turns, lastRun, claimed>>
  <2>1. handler' \in [Handlers -> HandlerState] /\ \A g \in Handlers : SafeMove(g)
    BY <1>1, <1>2, <1>3, GotoMoves
       DEF Inv, TypeOK, SafeMove, Claimed, Working, Steps, Taken, Keyed, KeyOf
  <2>. QED  BY <1>3, <2>1, QuietStep DEF Claim, Inv, TypeOK, AbsentIsBlank, ReplayFaithful
<1>4. CASE Leave(h) /\ UNCHANGED <<turns, lastRun, claimed>>
  <2>1. handler' \in [Handlers -> HandlerState] /\ \A g \in Handlers : SafeMove(g)
    BY <1>4, LeaveMoves DEF Inv, TypeOK, SafeMove, Claimed, Working
  <2>. QED  BY <1>4, <2>1, QuietStep DEF Claim, Inv, TypeOK, AbsentIsBlank, ReplayFaithful
<1>5. CASE lastRun' = lastRun + 1
  <2> DEFINE moved == [handler[h] EXCEPT !.pc = "decide", !.run = lastRun + 1]
             new == [run |-> lastRun + 1, key |-> KeyOf(h), hash |-> BodyOf(h),
                     conv |-> At(h), deleted |-> FALSE]
             row == [id |-> lastRun + 1, conv |-> At(h), hash |-> BodyOf(h),
                     code |-> "IN_PROGRESS", payload |-> None]
  <2>1. /\ ~Taken(h)
        /\ Keyed(h) => Exists(At(h))
        /\ handler' = [handler EXCEPT ![h] = moved]
        /\ claimed' = claimed \cup {new}
        /\ turns' = IF Keyed(h) THEN [turns EXCEPT ![KeyOf(h)] = row] ELSE turns
        /\ UNCHANGED <<conversation, receipts, clock, answer>>
    BY <1>1, <1>5 DEF Claim
  <2>2. /\ moved \in HandlerState
        /\ moved.pc = "decide"
        /\ moved.run = lastRun + 1
        /\ moved.req = handler[h].req
        /\ moved.at = handler[h].at
    <3>1. ASSUME NEW n \in Nat
          PROVE  /\ [handler[h] EXCEPT !.pc = "decide", !.run = n] \in HandlerState
                 /\ [handler[h] EXCEPT !.pc = "decide", !.run = n].pc = "decide"
                 /\ [handler[h] EXCEPT !.pc = "decide", !.run = n].run = n
                 /\ [handler[h] EXCEPT !.pc = "decide", !.run = n].req = handler[h].req
                 /\ [handler[h] EXCEPT !.pc = "decide", !.run = n].at = handler[h].at
      BY <1>1 DEF HandlerState, Steps
    <3>2. lastRun + 1 \in Nat
      BY <1>1
    <3>. QED  BY <3>1, <3>2
  <2>3. new \in Outcome
    BY <1>1, <1>2 DEF Outcome
  <2>4. row \in TurnRow /\ row # None
    <3>1. row \in TurnRow
      BY <1>1, <1>2 DEF TurnRow
    <3>. QED  BY <3>1, NoneAssumption
  <2>. HIDE DEF moved
  <2>5. /\ handler' \in [Handlers -> HandlerState]
        /\ handler'[h] = moved
        /\ \A g \in Handlers \ {h} : handler'[g] = handler[g]
    BY <2>1, <2>2 DEF Inv, TypeOK
  <2>6. /\ turns' \in [Keys -> TurnRow \cup {None}]
        /\ Keyed(h) => turns[KeyOf(h)] = None /\ turns'[KeyOf(h)] = row
        /\ ~Keyed(h) => turns' = turns
        /\ \A k \in Keys : Keyed(h) /\ k # KeyOf(h) => turns'[k] = turns[k]
        /\ Keyed(h) => KeyOf(h) \in Keys
    BY <1>2, <2>1, <2>4 DEF Inv, TypeOK, Taken, Keyed
  <2>7. TypeOK'
    <3>1. claimed' \in SUBSET Outcome
      BY <2>1, <2>3 DEF Inv, TypeOK
    <3>2. lastRun' \in Nat
      BY <1>1, <1>5
    <3>. QED  BY <2>1, <2>5, <2>6, <3>1, <3>2 DEF Inv, TypeOK
  <2>8. HandlersWellFormed'
    BY <1>1, <2>1, <2>2, <2>5 DEF Inv, HandlersWellFormed, KeyOf, At, Claimed, Working
  <2>9. RunsAreFresh'
    BY <1>1, <1>5, <2>1, <2>2, <2>5, <2>6 DEF Inv, RunsAreFresh, TypeOK, Outcome, TurnRow, HandlerState
  <2>10. ClaimExclusive'
    <3>1. ASSUME NEW g \in Handlers, handler'[g].pc \in Working, Keyed(g)', Exists(At(g))'
          PROVE  /\ turns'[KeyOf(g)'] # None
                 /\ turns'[KeyOf(g)'].id = handler'[g].run
                 /\ turns'[KeyOf(g)'].conv = At(g)'
                 /\ turns'[KeyOf(g)'].hash = BodyOf(g)'
                 /\ turns'[KeyOf(g)'].payload = None
      <4>1. CASE g = h
        BY <1>1, <2>1, <2>2, <2>4, <2>5, <2>6, <3>1, <4>1 DEF Keyed, KeyOf, BodyOf, At
      <4>2. CASE g # h
        <5>1. /\ OwnsRow(g) /\ turns[KeyOf(g)].conv = At(g)
              /\ turns[KeyOf(g)].hash = BodyOf(g) /\ turns[KeyOf(g)].payload = None
              /\ KeyOf(g) = KeyOf(g)' /\ Keyed(g)
          BY <2>1, <2>5, <3>1, <4>2 DEF Inv, ClaimExclusive, Keyed, KeyOf, At, Exists
        <5>2. KeyOf(g) \in Keys
          BY <2>5, <3>1, <4>2, <5>1 DEF Inv, HandlersWellFormed, Keyed, KeyOf, Request, Working
        <5>3. turns'[KeyOf(g)] = turns[KeyOf(g)]
          BY <2>6, <5>1, <5>2 DEF OwnsRow
        <5>. QED  BY <2>5, <4>2, <5>1, <5>3 DEF OwnsRow, At, BodyOf, KeyOf
      <4>. QED  BY <4>1, <4>2
    <3>2. ASSUME NEW f \in Handlers, NEW g \in Handlers, f # g,
                 handler'[f].pc \in Working \cup {"fail"},
                 handler'[g].pc \in Working \cup {"fail"}
          PROVE  handler'[f].run # handler'[g].run
      BY <1>1, <2>2, <2>5, <3>2 DEF Inv, ClaimExclusive, RunsAreFresh, TypeOK, Claimed, Working, HandlerState
    <3>. QED  BY <3>1, <3>2 DEF ClaimExclusive, OwnsRow
  <2>11. WorkIsInProgress'
    <3>1. ASSUME NEW g \in Handlers, handler'[g].pc \in Working, Keyed(g)', Exists(At(g))'
          PROVE  turns'[KeyOf(g)'].code = "IN_PROGRESS"
      <4>1. CASE g = h
        BY <1>1, <2>1, <2>2, <2>5, <2>6, <3>1, <4>1 DEF Keyed, KeyOf
      <4>2. CASE g # h
        <5>1. OwnsRow(g) /\ turns[KeyOf(g)].code = "IN_PROGRESS" /\ KeyOf(g) = KeyOf(g)' /\ Keyed(g)
          BY <2>1, <2>5, <3>1, <4>2 DEF Inv, ClaimExclusive, WorkIsInProgress, Keyed, KeyOf, At, Exists
        <5>2. KeyOf(g) \in Keys
          BY <2>5, <3>1, <4>2, <5>1 DEF Inv, HandlersWellFormed, Keyed, KeyOf, Request, Working
        <5>. QED  BY <2>6, <5>1, <5>2 DEF OwnsRow
      <4>. QED  BY <4>1, <4>2
    <3>. QED  BY <3>1 DEF WorkIsInProgress
  <2>12. NoOrphans' /\ RowsAreFaithful' /\ AbsentIsBlank'
    BY <1>1, <2>1, <2>4, <2>6 DEF Inv, NoOrphans, RowsAreFaithful, AbsentIsBlank, Exists
  <2>13. ClaimsAreKept'
    <3>1. ASSUME NEW o \in claimed', o.key # NoKey
          PROVE  \/ conversation'[o.conv].lifecycle = "gone"
                 \/ turns'[o.key] # None /\ turns'[o.key].id = o.run /\ turns'[o.key].conv = o.conv
      <4>1. CASE o = new
        BY <2>4, <2>6, <3>1, <4>1 DEF Keyed
      <4>2. CASE o \in claimed
        <5>1. o.key \in Keys
          BY <3>1, <4>2 DEF Inv, TypeOK, Outcome
        <5>. QED  BY <2>1, <2>6, <3>1, <4>2, <5>1 DEF Inv, ClaimsAreKept
      <4>. QED  BY <2>1, <4>1, <4>2
    <3>. QED  BY <3>1 DEF ClaimsAreKept
  <2>14. DeletionWasRequested' /\ ReplayFaithful'
    BY <2>1, <2>2, <2>5 DEF Inv, DeletionWasRequested, ReplayFaithful
  <2>. QED  BY <2>7, <2>8, <2>9, <2>10, <2>11, <2>12, <2>13, <2>14 DEF Inv
<1>. QED  BY <1>1, <1>3, <1>4, <1>5 DEF Claim

\* The response of a working turn is an outcome for the request it was sent.
LEMMA OutcomeOfType ==
  ASSUME Inv, NEW h \in Handlers, handler[h].pc \in Working, NEW d \in BOOLEAN
  PROVE  /\ OutcomeOf(h, d) \in Outcome
         /\ OutcomeOf(h, d) # None
         /\ OutcomeOf(h, d).hash = BodyOf(h)
         /\ OutcomeOf(h, d).conv = At(h)
         /\ OutcomeOf(h, d).deleted = d
<1>1. /\ handler[h].run \in Nat
      /\ KeyOf(h) \in Keys \cup {NoKey}
      /\ BodyOf(h) \in Body
      /\ At(h) \in Conversations
  BY DEF Inv, TypeOK, HandlersWellFormed, HandlerState, Request, KeyOf, BodyOf, Working, Claimed
<1>2. OutcomeOf(h, d) \in Outcome
  BY <1>1 DEF OutcomeOf, Outcome
<1>. QED  BY <1>2, NoneAssumption DEF OutcomeOf

LEMMA ConcludeMoves ==
  ASSUME Inv, NEW h \in Handlers, handler[h].pc \in Working,
         NEW outcome \in Outcome, outcome.hash = BodyOf(h),
         Conclude(h, outcome)
  PROVE  /\ handler' \in [Handlers -> HandlerState]
         /\ \A g \in Handlers \ {h} : handler'[g] = handler[g]
         /\ \/ handler'[h].pc = "idle"
            \/ /\ handler'[h].pc = "fail"
               /\ handler'[h].req = handler[h].req
               /\ handler'[h].at = handler[h].at
               /\ handler'[h].run = handler[h].run
         /\ \A g \in Handlers : SafeMove(g)
         /\ answer' \in [asked : Body, outcome : Outcome] \cup {None}
         /\ ReplayFaithful'
<1>1. BodyOf(h) \in Body
  BY DEF Inv, HandlersWellFormed, Request, BodyOf, Working
<1>2. /\ answer' \in [asked : Body, outcome : Outcome] \cup {None}
      /\ ReplayFaithful'
  BY <1>1 DEF Conclude, Inv, TypeOK, ReplayFaithful
<1>3. CASE Leave(h)
  BY <1>2, <1>3, LeaveMoves DEF Inv, TypeOK, SafeMove, Claimed, Working
<1>4. CASE Goto(h, "fail")
  BY <1>2, <1>4, GotoMoves, WorkMoves DEF Inv, TypeOK, Steps
<1>. QED  BY <1>3, <1>4 DEF Conclude

\* A working turn that finds its conversation there finds its own row, too.
LEMMA WorkerOwnsRow ==
  ASSUME Inv, NEW h \in Handlers, handler[h].pc \in Working, Keyed(h), Exists(At(h))
  PROVE  /\ KeyOf(h) \in Keys
         /\ turns[KeyOf(h)] \in TurnRow
         /\ turns[KeyOf(h)] # None
         /\ turns[KeyOf(h)].id = handler[h].run
         /\ turns[KeyOf(h)].conv = At(h)
         /\ turns[KeyOf(h)].hash = BodyOf(h)
         /\ turns[KeyOf(h)].payload = None
         /\ turns[KeyOf(h)].code = "IN_PROGRESS"
<1>1. KeyOf(h) \in Keys
  BY DEF Inv, HandlersWellFormed, Working, Keyed, KeyOf, Request
<1>. QED  BY <1>1 DEF Inv, ClaimExclusive, WorkIsInProgress, OwnsRow, TypeOK

\* Rewriting the row of one key disturbs nobody but its owner.
LEMMA OtherWorkers ==
  ASSUME Inv, NEW h \in Handlers, handler[h].pc \in Claimed, Keyed(h), OwnsRow(h),
         NEW g \in Handlers, g # h, handler[g].pc \in Working, Keyed(g), Exists(At(g))
  PROVE  KeyOf(g) # KeyOf(h)
  BY WorkerOwnsRow DEF Inv, ClaimExclusive, OwnsRow, Claimed

\* A step that rewrites only the row of its handler, keeping its identity, and
\* then has done its work.
LEMMA OwnRowStep ==
  ASSUME Inv, NEW h \in Handlers, handler[h].pc \in Claimed, KeyOf(h) \in Keys, Keyed(h),
         OwnsRow(h),
         NEW row \in TurnRow,
         row.id = turns[KeyOf(h)].id,
         row.conv = turns[KeyOf(h)].conv,
         row.hash = turns[KeyOf(h)].hash,
         row.payload # None => row.payload.hash = row.hash /\ row.payload.conv = row.conv,
         turns' = [turns EXCEPT ![KeyOf(h)] = row],
         UNCHANGED <<receipts, lastRun, claimed>>, clock' \in Nat,
         conversation' \in [Conversations -> ConversationRow],
         \A c \in Conversations : conversation'[c].lifecycle = conversation[c].lifecycle,
         AbsentIsBlank',
         answer' \in [asked : Body, outcome : Outcome] \cup {None},
         ReplayFaithful',
         handler' \in [Handlers -> HandlerState],
         \A g \in Handlers \ {h} : handler'[g] = handler[g],
         \/ handler'[h].pc = "idle"
         \/ /\ handler'[h].pc = "fail"
            /\ handler'[h].req = handler[h].req
            /\ handler'[h].at = handler[h].at
            /\ handler'[h].run = handler[h].run
  PROVE  Inv'
<1>1. /\ turns' \in [Keys -> TurnRow \cup {None}]
      /\ turns'[KeyOf(h)] = row
      /\ row # None
      /\ \A k \in Keys \ {KeyOf(h)} : turns'[k] = turns[k]
  BY NoneAssumption DEF Inv, TypeOK
<1>2. TypeOK'
  BY <1>1 DEF Inv, TypeOK
<1>3. HandlersWellFormed'
  BY DEF Inv, HandlersWellFormed, Claimed, Working, KeyOf, At, TypeOK
<1>4. RunsAreFresh'
  BY <1>1 DEF Inv, RunsAreFresh, OwnsRow, Claimed, Working
<1>5. \A c \in Conversations : Exists(c)' <=> Exists(c)
  BY DEF Exists
<1>6. ASSUME NEW g \in Handlers, handler'[g].pc \in Working, Keyed(g)', Exists(At(g))'
      PROVE  /\ g # h
             /\ handler'[g] = handler[g]
             /\ handler[g].pc \in Working /\ Keyed(g) /\ Exists(At(g))
             /\ KeyOf(g) \in Keys
             /\ turns'[KeyOf(g)] = turns[KeyOf(g)]
  <2>1. g # h /\ handler'[g] = handler[g] /\ handler[g].pc \in Working /\ Keyed(g)
    BY <1>6 DEF Working, Keyed, KeyOf
  <2>2. At(g) \in Conversations /\ Exists(At(g))
    BY <1>5, <1>6, <2>1 DEF Inv, HandlersWellFormed, Claimed, At, Exists
  <2>. QED  BY <1>1, <2>1, <2>2, OtherWorkers, WorkerOwnsRow
<1>7. ClaimExclusive'
  <2>1. ASSUME NEW f \in Handlers, NEW g \in Handlers, f # g,
               handler'[f].pc \in Working \cup {"fail"}, handler'[g].pc \in Working \cup {"fail"}
        PROVE  handler'[f].run # handler'[g].run
    BY <2>1 DEF Inv, ClaimExclusive, Claimed, Working
  <2>2. ASSUME NEW g \in Handlers, handler'[g].pc \in Working, Keyed(g)', Exists(At(g))'
        PROVE  /\ OwnsRow(g)'
               /\ turns'[KeyOf(g)'].conv = At(g)'
               /\ turns'[KeyOf(g)'].hash = BodyOf(g)'
               /\ turns'[KeyOf(g)'].payload = None
    <3>1. handler'[g] = handler[g] /\ turns'[KeyOf(g)] = turns[KeyOf(g)]
      BY <1>6, <2>2
    <3>2. /\ turns[KeyOf(g)] # None
          /\ turns[KeyOf(g)].id = handler[g].run
          /\ turns[KeyOf(g)].conv = At(g)
          /\ turns[KeyOf(g)].hash = BodyOf(g)
          /\ turns[KeyOf(g)].payload = None
      BY <1>6, <2>2, WorkerOwnsRow
    <3>. QED  BY <3>1, <3>2 DEF OwnsRow, KeyOf, BodyOf, At
  <2>. QED  BY <2>1, <2>2 DEF ClaimExclusive
<1>8. WorkIsInProgress'
  <2>1. ASSUME NEW g \in Handlers, handler'[g].pc \in Working, Keyed(g)', Exists(At(g))'
        PROVE  turns'[KeyOf(g)'].code = "IN_PROGRESS"
    <3>1. handler'[g] = handler[g] /\ turns'[KeyOf(g)] = turns[KeyOf(g)]
      BY <1>6, <2>1
    <3>2. turns[KeyOf(g)].code = "IN_PROGRESS"
      BY <1>6, <2>1, WorkerOwnsRow
    <3>. QED  BY <3>1, <3>2 DEF KeyOf
  <2>. QED  BY <2>1 DEF WorkIsInProgress
<1>9. NoOrphans'
  BY <1>1, <1>5 DEF Inv, NoOrphans, TypeOK, TurnRow, ReceiptRow, Outcome, OwnsRow
<1>10. RowsAreFaithful'
  BY <1>1 DEF Inv, RowsAreFaithful
<1>11. ClaimsAreKept'
  BY <1>1 DEF Inv, ClaimsAreKept, TypeOK, Outcome, OwnsRow
<1>12. DeletionWasRequested'
  BY DEF Inv, DeletionWasRequested
<1>. QED  BY <1>2, <1>3, <1>4, <1>7, <1>8, <1>9, <1>10, <1>11, <1>12 DEF Inv

LEMMA MarkFailedInv ==
  ASSUME Inv, NEW h \in Handlers, MarkFailed(h)
  PROVE  Inv'
<1>1. /\ handler[h].pc = "fail"
      /\ handler[h].pc \in Claimed
      /\ handler[h].req \in Request
  BY DEF MarkFailed, Inv, HandlersWellFormed, Claimed
<1>2. /\ handler' \in [Handlers -> HandlerState]
      /\ \A g \in Handlers \ {h} : handler'[g] = handler[g]
      /\ handler'[h].pc = "idle"
  BY LeaveMoves DEF MarkFailed, Inv, TypeOK
<1>3. CASE Keyed(h) /\ OwnsRow(h)
  <2> DEFINE row == FailedRow(turns[KeyOf(h)])
  <2>1. KeyOf(h) \in Keys /\ turns[KeyOf(h)] \in TurnRow
    BY <1>1, <1>3 DEF Keyed, KeyOf, Request, OwnsRow, Inv, TypeOK
  <2>2. /\ row \in TurnRow
        /\ row.id = turns[KeyOf(h)].id
        /\ row.conv = turns[KeyOf(h)].conv
        /\ row.hash = turns[KeyOf(h)].hash
        /\ row.payload = turns[KeyOf(h)].payload
    BY <2>1 DEF FailedRow, TurnRow
  <2>3. row.payload # None => row.payload.hash = row.hash /\ row.payload.conv = row.conv
    BY <1>3, <2>1, <2>2 DEF Inv, RowsAreFaithful, OwnsRow
  <2>4. turns' = [turns EXCEPT ![KeyOf(h)] = row]
    BY <1>3 DEF MarkFailed
  <2>5. /\ UNCHANGED <<receipts, lastRun, claimed>> /\ clock' \in Nat
        /\ conversation' \in [Conversations -> ConversationRow]
        /\ \A c \in Conversations : conversation'[c].lifecycle = conversation[c].lifecycle
        /\ AbsentIsBlank'
        /\ answer' \in [asked : Body, outcome : Outcome] \cup {None}
        /\ ReplayFaithful'
    BY DEF MarkFailed, history, Inv, TypeOK, AbsentIsBlank, ReplayFaithful
  <2>. HIDE DEF row
  <2>. QED  BY <1>1, <1>2, <1>3, <2>1, <2>2, <2>3, <2>4, <2>5, OwnRowStep
<1>4. CASE ~(Keyed(h) /\ OwnsRow(h))
  BY <1>2, <1>4, QuietStep DEF MarkFailed, SafeMove, Claimed, Working, history, Inv, TypeOK,
     AbsentIsBlank, ReplayFaithful
<1>. QED  BY <1>3, <1>4

LEMMA PersistInv ==
  ASSUME Inv, NEW h \in Handlers, Persist(h)
  PROVE  Inv'
<1>1. /\ handler[h].pc \in Working
      /\ handler[h].pc \in Claimed
      /\ handler[h].req \in Request
      /\ handler[h] \in HandlerState
      /\ At(h) \in Conversations
      /\ conversation[At(h)].lifecycle # "absent"
  BY DEF Persist, Inv, HandlersWellFormed, Claimed, Working, TypeOK
<1>2. CASE Goto(h, "fail") /\ UNCHANGED <<conversation, turns, answer>>
  BY <1>1, <1>2, WorkMoves, QuietStep DEF Persist, Inv, TypeOK, AbsentIsBlank, ReplayFaithful
<1>3. CASE /\ Exists(At(h)) /\ (Keyed(h) => OwnsRow(h))
           /\ conversation' = [conversation EXCEPT ![At(h)] = Recorded(h)]
           /\ turns' = IF Keyed(h)
                       THEN [turns EXCEPT ![KeyOf(h)].payload = OutcomeOf(h, FALSE),
                                          ![KeyOf(h)].code = "NULL"]
                       ELSE turns
           /\ Conclude(h, OutcomeOf(h, FALSE))
  <2>1. /\ OutcomeOf(h, FALSE) \in Outcome
        /\ OutcomeOf(h, FALSE).hash = BodyOf(h)
        /\ OutcomeOf(h, FALSE).conv = At(h)
    BY <1>1, OutcomeOfType
  <2>2. /\ handler' \in [Handlers -> HandlerState]
        /\ \A g \in Handlers \ {h} : handler'[g] = handler[g]
        /\ \/ handler'[h].pc = "idle"
           \/ /\ handler'[h].pc = "fail"
              /\ handler'[h].req = handler[h].req
              /\ handler'[h].at = handler[h].at
              /\ handler'[h].run = handler[h].run
        /\ \A g \in Handlers : SafeMove(g)
        /\ answer' \in [asked : Body, outcome : Outcome] \cup {None}
        /\ ReplayFaithful'
    BY <1>1, <1>3, <2>1, ConcludeMoves
  <2>3. /\ Recorded(h) \in ConversationRow
        /\ Recorded(h).lifecycle = conversation[At(h)].lifecycle
    BY <1>1 DEF Recorded, Inv, TypeOK, ConversationRow, HandlerState
  <2>4. /\ conversation' \in [Conversations -> ConversationRow]
        /\ \A c \in Conversations : conversation'[c].lifecycle = conversation[c].lifecycle
        /\ AbsentIsBlank'
    BY <1>1, <1>3, <2>3 DEF Inv, TypeOK, AbsentIsBlank
  <2>5. CASE Keyed(h)
    <3> DEFINE old == turns[KeyOf(h)]
               row == [old EXCEPT !.payload = OutcomeOf(h, FALSE), !.code = "NULL"]
    <3>1. KeyOf(h) \in Keys /\ old \in TurnRow /\ old.conv = At(h) /\ old.hash = BodyOf(h)
      BY <1>1, <1>3, <2>5, WorkerOwnsRow
    <3>2. /\ row \in TurnRow
          /\ row.id = old.id
          /\ row.conv = old.conv
          /\ row.hash = old.hash
          /\ row.payload = OutcomeOf(h, FALSE)
      BY <2>1, <3>1 DEF TurnRow
    <3>3. turns' = [turns EXCEPT ![KeyOf(h)] = row]
      BY <1>3, <2>5
    <3>4. row.payload # None => row.payload.hash = row.hash /\ row.payload.conv = row.conv
      BY <2>1, <3>1, <3>2
    <3>5. UNCHANGED <<receipts, lastRun, claimed>> /\ clock' \in Nat
      BY DEF Persist, Inv, TypeOK
    <3>6. OwnsRow(h)
      BY <1>3, <2>5
    <3>. HIDE DEF row
    <3>. QED  BY <1>1, <2>2, <2>4, <2>5, <3>1, <3>2, <3>3, <3>4, <3>5, <3>6, OwnRowStep
  <2>6. CASE ~Keyed(h)
    BY <1>3, <2>2, <2>4, <2>6, QuietStep DEF Persist, Inv, TypeOK
  <2>. QED  BY <2>5, <2>6
<1>. QED  BY <1>2, <1>3 DEF Persist

\* A conversation disappears with its turns.  Turns that worked in it may stop or
\* fail; a receipt may appear, and then it is of this conversation.
LEMMA ErasureInv ==
  ASSUME Inv, NEW here \in Conversations,
         conversation[here].lifecycle # "absent",
         conversation' = [conversation EXCEPT ![here] = Row("gone")],
         turns' = CascadeTurns(here),
         UNCHANGED <<lastRun, clock, claimed>>,
         handler' \in [Handlers -> HandlerState],
         \A g \in Handlers :
            \/ handler'[g] = handler[g]
            \/ handler'[g].pc = "idle"
            \/ /\ handler[g].pc \in Working
               /\ handler'[g].pc = "fail"
               /\ handler'[g].req = handler[g].req
               /\ handler'[g].at = handler[g].at
               /\ handler'[g].run = handler[g].run,
         receipts' \in [Keys -> ReceiptRow \cup {None}],
         \A k \in Keys :
            \/ receipts'[k] = receipts[k]
            \/ /\ receipts'[k].payload.conv = here
               /\ receipts'[k].payload.hash = receipts'[k].hash
               /\ receipts'[k].payload.deleted,
         answer' \in [asked : Body, outcome : Outcome] \cup {None},
         ReplayFaithful'
  PROVE  Inv'
<1>1. /\ conversation' \in [Conversations -> ConversationRow]
      /\ conversation'[here].lifecycle = "gone"
      /\ \A c \in Conversations \ {here} : conversation'[c] = conversation[c]
  BY RowType DEF Inv, TypeOK, Row
<1>2. /\ turns' \in [Keys -> TurnRow \cup {None}]
      /\ \A k \in Keys :
            IF turns[k] # None /\ turns[k].conv = here
            THEN turns'[k] = None ELSE turns'[k] = turns[k]
  BY DEF CascadeTurns, Inv, TypeOK
<1>3. TypeOK'
  BY <1>1, <1>2 DEF Inv, TypeOK
<1>4. HandlersWellFormed'
  <2>1. ASSUME NEW g \in Handlers
        PROVE  /\ handler'[g].pc # "idle" => handler'[g].req \in Request
               /\ handler'[g].pc \in {"lookup", "lookupReceipt", "relookup", "relookupReceipt",
                                      "delete"} => KeyOf(g)' \in Keys
               /\ handler'[g].pc \in {"claim"} \cup Claimed =>
                     At(g)' \in Conversations /\ conversation'[At(g)'].lifecycle # "absent"
    <3>1. CASE handler'[g] = handler[g]
      BY <1>1, <3>1 DEF Inv, HandlersWellFormed, KeyOf, At
    <3>2. CASE handler'[g].pc = "idle"
      BY <3>2 DEF Claimed, Working
    <3>3. CASE /\ handler[g].pc \in Working
               /\ handler'[g].pc = "fail"
               /\ handler'[g].req = handler[g].req
               /\ handler'[g].at = handler[g].at
      BY <1>1, <3>3 DEF Inv, HandlersWellFormed, Claimed, Working, At
    <3>. QED  BY <3>1, <3>2, <3>3
  <2>. QED  BY <2>1 DEF HandlersWellFormed
<1>5. RunsAreFresh'
  <2>1. \A g \in Handlers : handler'[g].pc \in Claimed => handler'[g].run <= lastRun'
    BY DEF Inv, RunsAreFresh, Claimed, Working
  <2>2. \A k \in Keys : turns'[k] # None => turns'[k].id <= lastRun'
    BY <1>2 DEF Inv, RunsAreFresh
  <2>. QED  BY <2>1, <2>2 DEF Inv, RunsAreFresh
<1>6. ASSUME NEW g \in Handlers, handler'[g].pc \in Working, Keyed(g)', Exists(At(g))'
      PROVE  /\ handler'[g] = handler[g]
             /\ handler[g].pc \in Working /\ Keyed(g) /\ Exists(At(g))
             /\ turns'[KeyOf(g)] = turns[KeyOf(g)]
  <2>1. handler'[g] = handler[g] /\ handler[g].pc \in Working /\ Keyed(g)
    BY <1>6 DEF Working, Keyed, KeyOf
  <2>2. At(g) \in Conversations /\ At(g) # here /\ Exists(At(g))
    BY <1>1, <1>6, <2>1 DEF Inv, HandlersWellFormed, Claimed, At, Exists
  <2>. QED  BY <1>2, <2>1, <2>2, WorkerOwnsRow
<1>7. ClaimExclusive'
  <2>1. ASSUME NEW f \in Handlers, NEW g \in Handlers, f # g,
               handler'[f].pc \in Working \cup {"fail"}, handler'[g].pc \in Working \cup {"fail"}
        PROVE  handler'[f].run # handler'[g].run
    BY <2>1 DEF Inv, ClaimExclusive, Working
  <2>2. ASSUME NEW g \in Handlers, handler'[g].pc \in Working, Keyed(g)', Exists(At(g))'
        PROVE  /\ OwnsRow(g)'
               /\ turns'[KeyOf(g)'].conv = At(g)'
               /\ turns'[KeyOf(g)'].hash = BodyOf(g)'
               /\ turns'[KeyOf(g)'].payload = None
    <3>1. handler'[g] = handler[g] /\ turns'[KeyOf(g)] = turns[KeyOf(g)]
      BY <1>6, <2>2
    <3>2. /\ turns[KeyOf(g)] # None
          /\ turns[KeyOf(g)].id = handler[g].run
          /\ turns[KeyOf(g)].conv = At(g)
          /\ turns[KeyOf(g)].hash = BodyOf(g)
          /\ turns[KeyOf(g)].payload = None
      BY <1>6, <2>2, WorkerOwnsRow
    <3>. QED  BY <3>1, <3>2 DEF OwnsRow, KeyOf, BodyOf, At
  <2>. QED  BY <2>1, <2>2 DEF ClaimExclusive
<1>8. WorkIsInProgress'
  <2>1. ASSUME NEW g \in Handlers, handler'[g].pc \in Working, Keyed(g)', Exists(At(g))'
        PROVE  turns'[KeyOf(g)'].code = "IN_PROGRESS"
    <3>1. handler'[g] = handler[g] /\ turns'[KeyOf(g)] = turns[KeyOf(g)]
      BY <1>6, <2>1
    <3>2. turns[KeyOf(g)].code = "IN_PROGRESS"
      BY <1>6, <2>1, WorkerOwnsRow
    <3>. QED  BY <3>1, <3>2 DEF KeyOf
  <2>. QED  BY <2>1 DEF WorkIsInProgress
<1>9. NoOrphans'
  <2>1. ASSUME NEW k \in Keys, turns'[k] # None
        PROVE  Exists(turns[k].conv)'
    <3>1. turns'[k] = turns[k] /\ turns[k] # None /\ turns[k].conv # here
      BY <1>2, <2>1
    <3>2. turns[k].conv \in Conversations /\ Exists(turns[k].conv)
      BY <3>1 DEF Inv, TypeOK, NoOrphans, TurnRow
    <3>. QED  BY <1>1, <3>1, <3>2 DEF Exists
  <2>2. ASSUME NEW k \in Keys, receipts'[k] # None
        PROVE  conversation'[receipts'[k].payload.conv].lifecycle = "gone"
    <3>1. CASE receipts'[k] = receipts[k]
      <4>1. receipts[k] # None /\ receipts[k].payload.conv \in Conversations
        BY <2>2, <3>1 DEF Inv, TypeOK, ReceiptRow, Outcome
      <4>. QED  BY <1>1, <3>1, <4>1 DEF Inv, NoOrphans
    <3>2. CASE receipts'[k].payload.conv = here
      BY <1>1, <3>2
    <3>. QED  BY <3>1, <3>2
  <2>. QED  BY <2>1, <2>2 DEF NoOrphans
<1>10. RowsAreFaithful'
  BY <1>2 DEF Inv, RowsAreFaithful
<1>11. ClaimsAreKept'
  BY <1>1, <1>2 DEF Inv, ClaimsAreKept, TypeOK, Outcome
<1>12. DeletionWasRequested' /\ AbsentIsBlank'
  BY <1>1 DEF Inv, DeletionWasRequested, AbsentIsBlank
<1>. QED  BY <1>3, <1>4, <1>5, <1>7, <1>8, <1>9, <1>10, <1>11, <1>12 DEF Inv

LEMMA DeleteConfirmedInv ==
  ASSUME Inv, NEW h \in Handlers, DeleteConfirmed(h)
  PROVE  Inv'
<1> DEFINE here == At(h)
           outcome == OutcomeOf(h, TRUE)
<1>1. /\ handler[h].pc \in Working
      /\ handler[h].req \in Request
      /\ here \in Conversations
      /\ conversation[here].lifecycle # "absent"
      /\ KeyOf(h) \in Keys
      /\ Keyed(h)
  BY NoneAssumption DEF DeleteConfirmed, Inv, HandlersWellFormed, Claimed, Working, Keyed
<1>2. /\ outcome \in Outcome
      /\ outcome # None
      /\ outcome.hash = BodyOf(h)
      /\ outcome.conv = here
      /\ outcome.deleted
  BY <1>1, OutcomeOfType
<1>. HIDE DEF outcome
<1>3. CASE Conclude(h, outcome) /\ UNCHANGED <<conversation, turns, receipts>>
  BY <1>1, <1>2, <1>3, ConcludeMoves, QuietStep DEF DeleteConfirmed, Inv, TypeOK, AbsentIsBlank
<1>4. CASE Goto(h, "fail") /\ UNCHANGED <<conversation, turns, receipts, answer>>
  BY <1>1, <1>4, WorkMoves, QuietStep DEF DeleteConfirmed, Inv, TypeOK, AbsentIsBlank,
     ReplayFaithful
<1>5. CASE /\ Exists(here) /\ receipts[KeyOf(h)] = None
           /\ receipts' = [receipts EXCEPT ![KeyOf(h)] = Receipt(h)]
           /\ conversation' = [conversation EXCEPT ![here] = Row("gone")]
           /\ turns' = CascadeTurns(here)
           /\ Conclude(h, outcome)
  <2>1. /\ handler' \in [Handlers -> HandlerState]
        /\ \A g \in Handlers \ {h} : handler'[g] = handler[g]
        /\ \/ handler'[h].pc = "idle"
           \/ /\ handler'[h].pc = "fail"
              /\ handler'[h].req = handler[h].req
              /\ handler'[h].at = handler[h].at
              /\ handler'[h].run = handler[h].run
        /\ answer' \in [asked : Body, outcome : Outcome] \cup {None}
        /\ ReplayFaithful'
    BY <1>1, <1>2, <1>5, ConcludeMoves
  <2>2. UNCHANGED <<lastRun, clock, claimed>>
    BY DEF DeleteConfirmed
  <2>3. /\ Receipt(h) \in ReceiptRow
        /\ Receipt(h).payload = outcome
        /\ Receipt(h).hash = BodyOf(h)
    <3>1. BodyOf(h) \in Body
      BY <1>1 DEF BodyOf, Request
    <3>2. Receipt(h) = [hash |-> BodyOf(h), payload |-> outcome]
      BY DEF Receipt, outcome
    <3>. QED  BY <1>2, <3>1, <3>2 DEF ReceiptRow
  <2>4. /\ receipts' \in [Keys -> ReceiptRow \cup {None}]
        /\ receipts'[KeyOf(h)] = Receipt(h)
        /\ \A k \in Keys \ {KeyOf(h)} : receipts'[k] = receipts[k]
    BY <1>1, <1>5, <2>3 DEF Inv, TypeOK
  <2>5. \A k \in Keys :
          \/ receipts'[k] = receipts[k]
          \/ /\ receipts'[k].payload.conv = here
             /\ receipts'[k].payload.hash = receipts'[k].hash
             /\ receipts'[k].payload.deleted
    BY <1>2, <2>3, <2>4
  <2>6. \A g \in Handlers :
          \/ handler'[g] = handler[g]
          \/ handler'[g].pc = "idle"
          \/ /\ handler[g].pc \in Working
             /\ handler'[g].pc = "fail"
             /\ handler'[g].req = handler[g].req
             /\ handler'[g].at = handler[g].at
             /\ handler'[g].run = handler[g].run
    BY <1>1, <2>1
  <2>. QED  BY <1>1, <1>5, <2>1, <2>2, <2>4, <2>5, <2>6, ErasureInv
<1>. QED  BY <1>3, <1>4, <1>5 DEF DeleteConfirmed, outcome

LEMMA OwnerRemoveInv ==
  ASSUME Inv, NEW c \in Conversations, OwnerRemove(c)
  PROVE  Inv'
<1>1. conversation[c].lifecycle # "absent"
  BY DEF OwnerRemove, Exists
<1>2. /\ conversation' = [conversation EXCEPT ![c] = Row("gone")]
      /\ turns' = CascadeTurns(c)
      /\ UNCHANGED <<receipts, lastRun, clock, handler, answer, claimed>>
  BY DEF OwnerRemove, history
<1>3. /\ handler' \in [Handlers -> HandlerState]
      /\ receipts' \in [Keys -> ReceiptRow \cup {None}]
      /\ answer' \in [asked : Body, outcome : Outcome] \cup {None}
      /\ ReplayFaithful'
  BY <1>2 DEF Inv, TypeOK, ReplayFaithful
<1>. QED  BY <1>1, <1>2, <1>3, ErasureInv

(***************************************************************************)
(* The invariant and the properties the runs check                         *)
(***************************************************************************)
LEMMA InitInv == Init => Inv
<1>. SUFFICES ASSUME Init PROVE Inv
  OBVIOUS
<1>1. TypeOK
  BY RowType DEF Init, TypeOK
<1>2. \A h \in Handlers : handler[h].pc = "idle"
  BY DEF Init, Idle
<1>3. /\ HandlersWellFormed /\ ClaimExclusive /\ WorkIsInProgress /\ DeletionWasRequested
      /\ RunsAreFresh /\ NoOrphans /\ RowsAreFaithful /\ ClaimsAreKept /\ ReplayFaithful
  BY <1>2 DEF Init, HandlersWellFormed, ClaimExclusive, WorkIsInProgress, DeletionWasRequested,
     RunsAreFresh, NoOrphans, RowsAreFaithful, ClaimsAreKept, ReplayFaithful, Claimed, Working
<1>4. AbsentIsBlank
  BY DEF Init, AbsentIsBlank, Row
<1>. QED  BY <1>1, <1>3, <1>4 DEF Inv

LEMMA StutterInv ==
  ASSUME Inv, UNCHANGED vars
  PROVE  Inv'
  BY QuietStep DEF vars, SafeMove, Inv, TypeOK, AbsentIsBlank, ReplayFaithful

LEMMA NextInv == Inv /\ [Next]_vars => Inv'
<1>. SUFFICES ASSUME Inv, [Next]_vars PROVE Inv'
  OBVIOUS
<1>1. ASSUME NEW h \in Handlers, TurnStep(h) PROVE Inv'
  BY <1>1, ReceiveInv, LookupTurnInv, LookupReceiptInv, ResolveInv, CreateConversationInv,
     ClaimInv, DecideInv, PersistInv, DeleteConfirmedInv, ThrowInv, MarkFailedInv, CrashInv
     DEF TurnStep
<1>2. ASSUME NEW c \in Conversations,
             (\E m \in AdminModes : AdminSetMode(c, m)) \/ AdminDelete(c) \/ ReleaseStaleHuman(c)
      PROVE  Inv'
  BY <1>2, DashboardInv
<1>3. ASSUME NEW c \in Conversations, OwnerRemove(c) PROVE Inv'
  BY <1>3, OwnerRemoveInv
<1>4. CASE Tick
  BY <1>4, TickInv
<1>5. CASE UNCHANGED vars
  BY <1>5, StutterInv
<1>. QED  BY <1>1, <1>2, <1>3, <1>4, <1>5 DEF Next

\* Inv is an inductive invariant: whatever turns, deletions, crashes and dashboard
\* writes interleave, the tables and the turns in flight agree.
THEOREM InvHolds == Spec => []Inv
  BY InitInv, NextInv, PTL DEF Spec

\* Every variable keeps its type.
THEOREM TypeHolds == Spec => []TypeOK
<1>1. Inv => TypeOK
  BY DEF Inv
<1>. QED  BY <1>1, InvHolds, PTL

\* A keyed turn that works holds its own unanswered row, and no two turns are the
\* same execution (claimIdempotent).
THEOREM ClaimsAreExclusive == Spec => []ClaimExclusive
<1>1. Inv => ClaimExclusive
  BY DEF Inv
<1>. QED  BY <1>1, InvHolds, PTL

\* No turn outlives its conversation and no receipt precedes the deletion
\* (deleteConfirmed and the cascade).
THEOREM NothingIsOrphaned == Spec => []NoOrphans
<1>1. Inv => NoOrphans
  BY DEF Inv
<1>. QED  BY <1>1, InvHolds, PTL

\* Every response a caller is given was composed for the body it sent (replay).
THEOREM ReplaysAreFaithful == Spec => []ReplayFaithful
<1>1. Inv => ReplayFaithful
  BY DEF Inv
<1>. QED  BY <1>1, InvHolds, PTL

\* A key lets a second execution in only after the conversation of one of the two
\* was deleted: retries do not repeat tools and actions.
THEOREM RerunsFollowDeletion == Spec => []RerunOnlyAfterDeletion
<1>1. Inv => RerunOnlyAfterDeletion
  BY DEF Inv, ClaimsAreKept, RerunOnlyAfterDeletion
<1>. QED  BY <1>1, InvHolds, PTL

(***************************************************************************)
(* What a step does to conversations: the action properties                *)
(***************************************************************************)
\* The rows a turn writes while it decides differ in mode or in the deletion request.
LEMMA DecideWrites ==
  ASSUME Inv, NEW h \in Handlers, Decide(h)
  PROVE  /\ At(h) \in Conversations
         /\ \A c \in Conversations :
              /\ conversation'[c].lifecycle = conversation[c].lifecycle
              /\ conversation'[c].mode = "AI" /\ conversation[c].mode # "AI" =>
                    At(h) = c /\ handler[h].seen.mode = "HUMAN"
<1>1. /\ At(h) \in Conversations
      /\ conversation \in [Conversations -> ConversationRow]
      /\ conversation[At(h)] \in ConversationRow
  BY DEF Decide, Inv, TypeOK, HandlersWellFormed, Claimed, Working
<1> DEFINE Written(P) == \A c \in Conversations :
              /\ conversation'[c].lifecycle = conversation[c].lifecycle
              /\ conversation'[c].mode = "AI" /\ conversation[c].mode # "AI" => c = At(h) /\ P
<1>2. ASSUME NEW p, Continue(h, p)
      PROVE  Written(FALSE)
  BY <1>2 DEF Continue
<1>3. ASSUME UpdateThenRecord(h, [conversation[At(h)] EXCEPT !.mode = "AI"])
      PROVE  Written(TRUE)
  BY <1>1, <1>3 DEF UpdateThenRecord, ConversationRow
<1>4. ASSUME UpdateThenRecord(h, [conversation[At(h)] EXCEPT !.mode = "HUMAN"])
      PROVE  Written(FALSE)
  BY <1>1, <1>4 DEF UpdateThenRecord, ConversationRow
<1>5. ASSUME UpdateThenRecord(h, [conversation[At(h)] EXCEPT !.until = clock + DeletionWindow])
      PROVE  Written(FALSE)
  BY <1>1, <1>5 DEF UpdateThenRecord, ConversationRow
<1>6. ASSUME NEW action, ApplyControl(h, action)
      PROVE  Written(handler[h].seen.mode = "HUMAN")
  BY <1>2, <1>3, <1>4, <1>5, <1>6 DEF ApplyControl
<1>7. Written(handler[h].seen.mode = "HUMAN")
  BY <1>2, <1>6 DEF Decide
<1>. QED  BY <1>1, <1>7

LEMMA PersistWrites ==
  ASSUME Inv, NEW h \in Handlers, Persist(h), NEW c \in Conversations
  PROVE  /\ conversation'[c].lifecycle = conversation[c].lifecycle
         /\ conversation'[c].mode = conversation[c].mode
<1>1. At(h) \in Conversations /\ conversation[At(h)] \in ConversationRow
  BY DEF Persist, Inv, TypeOK, HandlersWellFormed, Claimed, Working
<1>2. /\ Recorded(h).lifecycle = conversation[At(h)].lifecycle
      /\ Recorded(h).mode = conversation[At(h)].mode
  BY <1>1 DEF Recorded, ConversationRow
<1>. QED  BY <1>1, <1>2 DEF Persist, Inv, TypeOK

\* A conversation is created, soft deleted, deleted by a confirming turn or by its
\* owner, or left where it is in its life.
LEMMA LifecycleSteps ==
  ASSUME Inv, [Next]_vars, NEW c \in Conversations
  PROVE  \/ conversation'[c].lifecycle = conversation[c].lifecycle
         \/ conversation[c].lifecycle = "absent" /\ conversation'[c].lifecycle = "live"
         \/ conversation[c].lifecycle = "live" /\ conversation'[c].lifecycle = "softDeleted"
         \/ \E h \in Handlers : DeleteConfirmed(h) /\ At(h) = c
         \/ OwnerRemove(c)
<1>1. ASSUME NEW h \in Handlers, CreateConversation(h)
      PROVE  \/ conversation'[c].lifecycle = conversation[c].lifecycle
             \/ conversation[c].lifecycle = "absent" /\ conversation'[c].lifecycle = "live"
  BY <1>1 DEF CreateConversation, Row, Inv, TypeOK
<1>2. ASSUME NEW h \in Handlers, DeleteConfirmed(h), At(h) # c
      PROVE  conversation'[c].lifecycle = conversation[c].lifecycle
  BY <1>2 DEF DeleteConfirmed, Inv, TypeOK
<1>3. ASSUME NEW h \in Handlers, TurnStep(h)
      PROVE  \/ conversation'[c].lifecycle = conversation[c].lifecycle
             \/ conversation[c].lifecycle = "absent" /\ conversation'[c].lifecycle = "live"
             \/ \E g \in Handlers : DeleteConfirmed(g) /\ At(g) = c
  BY <1>1, <1>2, <1>3, DecideWrites, PersistWrites
     DEF TurnStep, Receive, LookupTurn, LookupReceipt, Resolve, Claim, Throw, MarkFailed, Crash,
         database
<1>4. ASSUME NEW d \in Conversations, NEW m \in AdminModes, AdminSetMode(d, m)
      PROVE  conversation'[c].lifecycle = conversation[c].lifecycle
  BY <1>4 DEF AdminSetMode, Inv, TypeOK, ConversationRow
<1>5. ASSUME NEW d \in Conversations, AdminDelete(d)
      PROVE  \/ conversation'[c].lifecycle = conversation[c].lifecycle
             \/ conversation[c].lifecycle = "live" /\ conversation'[c].lifecycle = "softDeleted"
  BY <1>5 DEF AdminDelete, Inv, TypeOK, ConversationRow
<1>6. ASSUME NEW d \in Conversations, ReleaseStaleHuman(d)
      PROVE  conversation'[c].lifecycle = conversation[c].lifecycle
  BY <1>6 DEF ReleaseStaleHuman, Inv, TypeOK, ConversationRow
<1>7. ASSUME Tick \/ UNCHANGED vars
      PROVE  conversation'[c].lifecycle = conversation[c].lifecycle
  BY <1>7 DEF Tick, vars, database
<1>8. ASSUME NEW d \in Conversations, OwnerRemove(d), d # c
      PROVE  conversation'[c].lifecycle = conversation[c].lifecycle
  BY <1>8 DEF OwnerRemove, Inv, TypeOK
<1>. QED  BY <1>3, <1>4, <1>5, <1>6, <1>7, <1>8 DEF Next

\* Deleting a conversation takes two messages (ConversationControlService.apply).
THEOREM DeletionTakesTwoSteps == Spec => DeletionIsTwoStep
<1>1. Inv /\ [Next]_vars => [DeletionStep]_vars
  <2>. SUFFICES ASSUME Inv, [Next]_vars, NEW h \in Handlers, NEW c \in Conversations,
                       handler'[h] # handler[h], Exists(c), ~Exists(c)'
                PROVE  handler[h].pc = "delete" /\ At(h) = c /\ handler[h].seen.until > 0
    BY DEF DeletionStep
  <2>1. PICK g \in Handlers : DeleteConfirmed(g) /\ At(g) = c
    BY LifecycleSteps DEF Exists, OwnerRemove
  <2>2. g = h
    BY <2>1 DEF DeleteConfirmed, Conclude, Leave, Goto, Inv, TypeOK
  <2>. QED  BY <2>1, <2>2 DEF DeleteConfirmed, Inv, DeletionWasRequested
<1>. QED  BY <1>1, InvHolds, PTL DEF Spec, DeletionIsTwoStep

\* Nobody is answered from a deleted conversation, except that it is deleted.
THEOREM ErasureIsFinal == Spec => ErasedStaysErased
<1>1. Inv /\ [Next]_vars => [ErasureStep]_vars
  <2>. SUFFICES ASSUME Inv, [Next]_vars, answer' # answer,
                       conversation[answer'.outcome.conv].lifecycle = "gone"
                PROVE  answer'.outcome.deleted
    BY DEF ErasureStep
  <2>1. ASSUME NEW h \in Handlers, LookupTurn(h)
        PROVE  FALSE
    <3>1. KeyOf(h) \in Keys
      BY <2>1 DEF LookupTurn, Inv, HandlersWellFormed
    <3>2. /\ turns[KeyOf(h)] # None
          /\ turns[KeyOf(h)].payload # None
          /\ answer'.outcome = turns[KeyOf(h)].payload
      BY <2>1 DEF LookupTurn, Replay
    <3>. QED  BY <3>1, <3>2 DEF Inv, RowsAreFaithful, NoOrphans, Exists
  <2>2. ASSUME NEW h \in Handlers, LookupReceipt(h)
        PROVE  answer'.outcome.deleted
    <3>1. KeyOf(h) \in Keys
      BY <2>2 DEF LookupReceipt, Inv, HandlersWellFormed
    <3>. QED  BY <2>2, <3>1 DEF LookupReceipt, Replay, Inv, RowsAreFaithful
  <2>3. ASSUME NEW h \in Handlers, Persist(h)
        PROVE  FALSE
    BY <2>3 DEF Persist, Conclude, OutcomeOf, Exists
  <2>4. ASSUME NEW h \in Handlers, DeleteConfirmed(h)
        PROVE  answer'.outcome.deleted
    BY <2>4 DEF DeleteConfirmed, Conclude, OutcomeOf
  <2>5. \E h \in Handlers : LookupTurn(h) \/ LookupReceipt(h) \/ Persist(h) \/ DeleteConfirmed(h)
    BY DEF Next, TurnStep, Receive, Resolve, CreateConversation, Claim, Decide, Throw, MarkFailed,
           Crash, AdminSetMode, AdminDelete, ReleaseStaleHuman, OwnerRemove, Tick, vars, history
  <2>. QED  BY <2>1, <2>2, <2>3, <2>4, <2>5
<1>. QED  BY <1>1, InvHolds, PTL DEF Spec, ErasedStaysErased

\* A turn that did not find a conversation owned by a human never gives it to the AI.
THEOREM TakeoverSurvives == Spec => TakeoverSurvivesOlderTurns
<1>1. Inv /\ [Next]_vars => [TakeoverStep]_vars
  <2>. SUFFICES ASSUME Inv, [Next]_vars, NEW h \in Handlers, NEW c \in Conversations,
                       handler'[h] # handler[h],
                       conversation[c].mode # "AI", conversation'[c].mode = "AI", Exists(c)'
                PROVE  At(h) = c /\ handler[h].seen.mode = "HUMAN"
    BY DEF TakeoverStep
  <2>1. PICK g \in Handlers : TurnStep(g)
    BY DEF Next, AdminSetMode, AdminDelete, ReleaseStaleHuman, OwnerRemove, Tick, vars
  <2>2. ASSUME CreateConversation(g)
        PROVE  FALSE
    BY <2>2 DEF CreateConversation, Inv, TypeOK, AbsentIsBlank
  <2>3. ASSUME DeleteConfirmed(g)
        PROVE  FALSE
    <3>1. \/ conversation' = conversation
          \/ conversation' = [conversation EXCEPT ![At(g)] = Row("gone")]
      BY <2>3 DEF DeleteConfirmed
    <3>2. Row("gone").lifecycle = "gone"
      BY DEF Row
    <3>. QED  BY <3>1, <3>2 DEF Inv, TypeOK, Exists
  <2>4. ASSUME Persist(g)
        PROVE  FALSE
    BY <2>4, PersistWrites
  <2>5. Decide(g)
    BY <2>1, <2>2, <2>3, <2>4
       DEF TurnStep, Receive, LookupTurn, LookupReceipt, Resolve, Claim, Throw, MarkFailed, Crash,
           database
  <2>6. g = h
    BY <2>5, GotoMoves DEF Decide, ApplyControl, Continue, UpdateThenRecord, Goto, Inv, TypeOK
  <2>. QED  BY <2>5, <2>6, DecideWrites
<1>. QED  BY <1>1, InvHolds, PTL DEF Spec, TakeoverSurvivesOlderTurns

(***************************************************************************)
(* The tables implement TurnLedger                                         *)
(***************************************************************************)
LEMMA SlotOfRow ==
  ASSUME NEW row \in TurnRow
  PROVE  /\ SlotOf(row) \in LedgerRun
         /\ SlotOf(row) # None
         /\ SlotOf(row).run = row.id
         /\ SlotOf(row).scope = row.conv
         /\ SlotOf(row).body = row.hash
         /\ SlotOf(row).status = IF row.payload # None THEN "answered"
                                 ELSE IF row.code = "FAILED" THEN "failed" ELSE "running"
<1>1. row # None
  BY NoneAssumption
<1> DEFINE status == IF row.payload # None THEN "answered"
                     ELSE IF row.code = "FAILED" THEN "failed" ELSE "running"
<1>2. SlotOf(row) = [run |-> row.id, scope |-> row.conv, body |-> row.hash, status |-> status]
  BY <1>1 DEF SlotOf
<1>3. status \in {"running", "answered", "failed"}
  OBVIOUS
<1>. HIDE DEF status
<1>4. SlotOf(row) \in LedgerRun
  BY <1>2, <1>3 DEF LedgerRun, TurnRow
<1>5. SlotOf(row) # None
  BY <1>4, NoneAssumption
<1>. QED  BY <1>2, <1>4, <1>5 DEF status

\* A record of the ledger is its four fields.
LEMMA LedgerRunEqual ==
  ASSUME NEW r \in LedgerRun, NEW s \in LedgerRun,
         r.run = s.run, r.scope = s.scope, r.body = s.body, r.status = s.status
  PROVE  r = s
  BY DEF LedgerRun

LEMMA TombOfReceipt ==
  ASSUME NEW receipt \in ReceiptRow
  PROVE  TombOf(receipt) = [run |-> receipt.payload.run, scope |-> receipt.payload.conv,
                            body |-> receipt.hash]
  BY NoneAssumption DEF TombOf

LEMMA SlotIsFree ==
  ASSUME NEW row \in TurnRow \cup {None}
  PROVE  SlotOf(row) = None <=> row = None
  BY SlotOfRow DEF SlotOf

LEMMA LedgerStutters ==
  ASSUME UNCHANGED <<turns, receipts, lastRun>>,
         \A c \in Conversations : conversation[c].lifecycle = "gone"
                                     <=> conversation'[c].lifecycle = "gone"
  PROVE  UNCHANGED Ledger!ledgerVars
  BY DEF Ledger!ledgerVars, Erased

LEMMA ClaimBegins ==
  ASSUME Inv, NEW h \in Handlers, Claim(h)
  PROVE  Ledger!LedgerNext \/ UNCHANGED Ledger!ledgerVars
<1>1. UNCHANGED <<conversation, receipts>>
  BY DEF Claim
<1>2. CASE UNCHANGED <<turns, lastRun, claimed>>
  BY <1>1, <1>2, LedgerStutters
<1>3. CASE lastRun' = lastRun + 1 /\ ~Keyed(h) /\ turns' = turns
  BY <1>1, <1>3 DEF Ledger!LedgerNext, Ledger!BeginUnkeyed, Erased
<1>4. CASE /\ lastRun' = lastRun + 1 /\ Keyed(h) /\ ~Taken(h) /\ Exists(At(h))
           /\ turns' = [turns EXCEPT ![KeyOf(h)] =
                           [id |-> lastRun + 1, conv |-> At(h), hash |-> BodyOf(h),
                            code |-> "IN_PROGRESS", payload |-> None]]
  <2> DEFINE k == KeyOf(h)
             row == [id |-> lastRun + 1, conv |-> At(h), hash |-> BodyOf(h),
                     code |-> "IN_PROGRESS", payload |-> None]
             run == [run |-> lastRun + 1, scope |-> At(h), body |-> BodyOf(h),
                     status |-> "running"]
  <2>1. /\ k \in Keys
        /\ BodyOf(h) \in Body
        /\ At(h) \in Conversations \ Erased
        /\ turns[k] = None
    BY <1>4 DEF Claim, Inv, HandlersWellFormed, Keyed, Taken, KeyOf, BodyOf, Request, Exists, Erased
  <2>2. SlotOf(row) = run
    <3>1. row \in TurnRow
      BY <2>1 DEF TurnRow, Inv, TypeOK
    <3>2. row # None
      BY <3>1, NoneAssumption
    <3>. QED  BY <3>2 DEF SlotOf
  <2>3. turns' = [turns EXCEPT ![k] = row]
    BY <1>4
  <2>. HIDE DEF row, run, k
  <2>4. [j \in Keys |-> SlotOf(turns'[j])] = [[j \in Keys |-> SlotOf(turns[j])] EXCEPT ![k] = run]
    BY <2>1, <2>2, <2>3 DEF Inv, TypeOK
  <2>5. [j \in Keys |-> SlotOf(turns[j])][k] = None
    BY <2>1 DEF SlotOf
  <2>6. \E s \in Conversations \ Erased, b \in Body :
           [j \in Keys |-> SlotOf(turns'[j])]
             = [[j \in Keys |-> SlotOf(turns[j])] EXCEPT
                  ![k] = [run |-> lastRun + 1, scope |-> s, body |-> b, status |-> "running"]]
    BY <2>1, <2>4 DEF run
  <2>7. UNCHANGED <<[j \in Keys |-> TombOf(receipts[j])], Erased>>
    BY <1>1 DEF Erased
  <2>8. Ledger!Begin(k)
    BY <1>4, <2>5, <2>6, <2>7 DEF Ledger!Begin
  <2>. QED  BY <2>1, <2>8 DEF Ledger!LedgerNext
<1>. QED  BY <1>2, <1>3, <1>4 DEF Claim

\* Marking or answering the row a turn owns ends its run.
LEMMA RowEnds ==
  ASSUME Inv, NEW h \in Handlers, KeyOf(h) \in Keys, OwnsRow(h),
         turns[KeyOf(h)] \in TurnRow,
         NEW row \in TurnRow,
         row.id = turns[KeyOf(h)].id,
         row.conv = turns[KeyOf(h)].conv,
         row.hash = turns[KeyOf(h)].hash,
         turns' = [turns EXCEPT ![KeyOf(h)] = row],
         UNCHANGED <<receipts, lastRun>>,
         Erased' = Erased,
         \/ SlotOf(row).status = SlotOf(turns[KeyOf(h)]).status
         \/ /\ SlotOf(turns[KeyOf(h)]).status = "running"
            /\ SlotOf(row).status \in {"answered", "failed"}
  PROVE  Ledger!LedgerNext \/ UNCHANGED Ledger!ledgerVars
<1> DEFINE k == KeyOf(h)
           old == SlotOf(turns[k])
           new == SlotOf(row)
<1>1. /\ old \in LedgerRun /\ new \in LedgerRun
      /\ old # None
      /\ new.run = old.run /\ new.scope = old.scope /\ new.body = old.body
  BY SlotOfRow
<1>2. new = [old EXCEPT !.status = new.status]
  BY <1>1 DEF LedgerRun
<1>3. [j \in Keys |-> SlotOf(turns'[j])] = [[j \in Keys |-> SlotOf(turns[j])] EXCEPT ![k] = new]
  BY DEF Inv, TypeOK
<1>. HIDE DEF new
<1>4. CASE new.status = old.status
  <2>1. new = old
    BY <1>1, <1>4, LedgerRunEqual
  <2>2. [j \in Keys |-> SlotOf(turns'[j])] = [j \in Keys |-> SlotOf(turns[j])]
    BY <1>3, <2>1
  <2>. QED  BY <2>2 DEF Ledger!ledgerVars
<1>5. CASE old.status = "running" /\ new.status \in {"answered", "failed"}
  <2>1. Ledger!Running(k)
    BY <1>1, <1>5 DEF Ledger!Running
  <2>2. Ledger!End(k, new.status)
    BY <1>1, <1>2, <1>3, <2>1 DEF Ledger!End
  <2>. QED  BY <1>5, <2>2 DEF Ledger!LedgerNext
<1>. QED  BY <1>4, <1>5 DEF new

LEMMA PersistAnswers ==
  ASSUME Inv, NEW h \in Handlers, Persist(h)
  PROVE  Ledger!LedgerNext \/ UNCHANGED Ledger!ledgerVars
<1>1. /\ UNCHANGED <<receipts, lastRun>>
      /\ \A c \in Conversations : conversation'[c].lifecycle = conversation[c].lifecycle
      /\ Erased' = Erased
  BY PersistWrites DEF Persist, Erased
<1>2. CASE UNCHANGED turns
  BY <1>1, <1>2, LedgerStutters
<1>3. CASE /\ Keyed(h) /\ Exists(At(h)) /\ OwnsRow(h)
           /\ turns' = [turns EXCEPT ![KeyOf(h)].payload = OutcomeOf(h, FALSE),
                                     ![KeyOf(h)].code = "NULL"]
  <2> DEFINE old == turns[KeyOf(h)]
             row == [old EXCEPT !.payload = OutcomeOf(h, FALSE), !.code = "NULL"]
  <2>1. handler[h].pc \in Working
    BY DEF Persist, Working
  <2>2. /\ KeyOf(h) \in Keys
        /\ old \in TurnRow
        /\ SlotOf(old).status = "running"
    BY <1>3, <2>1, WorkerOwnsRow, SlotOfRow
  <2>3. OutcomeOf(h, FALSE) \in Outcome /\ OutcomeOf(h, FALSE) # None
    BY <2>1, OutcomeOfType
  <2>4. /\ row \in TurnRow
        /\ row.id = old.id
        /\ row.conv = old.conv
        /\ row.hash = old.hash
        /\ row.payload = OutcomeOf(h, FALSE)
    BY <2>2, <2>3 DEF TurnRow
  <2>5. turns' = [turns EXCEPT ![KeyOf(h)] = row]
    BY <1>3
  <2>. HIDE DEF row
  <2>6. SlotOf(row).status = "answered"
    BY <2>3, <2>4, SlotOfRow
  <2>. QED  BY <1>1, <1>3, <2>2, <2>4, <2>5, <2>6, RowEnds
<1>. QED  BY <1>2, <1>3 DEF Persist

LEMMA MarkFailedFails ==
  ASSUME Inv, NEW h \in Handlers, MarkFailed(h)
  PROVE  Ledger!LedgerNext \/ UNCHANGED Ledger!ledgerVars
<1>1. UNCHANGED <<conversation, receipts, lastRun>>
  BY DEF MarkFailed
<1>2. CASE UNCHANGED turns
  BY <1>1, <1>2, LedgerStutters
<1>3. CASE /\ Keyed(h) /\ OwnsRow(h)
           /\ turns' = [turns EXCEPT ![KeyOf(h)] = FailedRow(turns[KeyOf(h)])]
  <2> DEFINE old == turns[KeyOf(h)]
             row == FailedRow(old)
  <2>1. KeyOf(h) \in Keys /\ old \in TurnRow
    BY <1>3 DEF MarkFailed, Inv, TypeOK, HandlersWellFormed, Keyed, KeyOf, Request, OwnsRow
  <2>2. /\ row \in TurnRow
        /\ row.id = old.id
        /\ row.conv = old.conv
        /\ row.hash = old.hash
        /\ row.payload = old.payload
        /\ row.code = "FAILED"
    BY <2>1 DEF FailedRow, TurnRow
  <2>3. turns' = [turns EXCEPT ![KeyOf(h)] = row]
    BY <1>3
  <2>. HIDE DEF row
  <2>4. \/ SlotOf(row).status = SlotOf(old).status
        \/ SlotOf(old).status = "running" /\ SlotOf(row).status \in {"answered", "failed"}
    BY <2>1, <2>2, SlotOfRow
  <2>. QED  BY <1>1, <1>3, <2>1, <2>2, <2>3, <2>4, RowEnds DEF Erased
<1>. QED  BY <1>2, <1>3 DEF MarkFailed

\* The cascade takes the rows of one conversation, and so the slots of one scope.
LEMMA CascadeFrees ==
  ASSUME Inv, NEW here \in Conversations, Exists(here),
         conversation' = [conversation EXCEPT ![here] = Row("gone")],
         turns' = CascadeTurns(here)
  PROVE  /\ here \notin Erased
         /\ Erased' = Erased \cup {here}
         /\ [j \in Keys |-> SlotOf(turns'[j])]
              = [j \in Keys |-> IF SlotOf(turns[j]) # None /\ SlotOf(turns[j]).scope = here
                                THEN None ELSE SlotOf(turns[j])]
<1>1. here \notin Erased /\ Erased' = Erased \cup {here}
  BY DEF Erased, Row, Exists, Inv, TypeOK
<1>2. ASSUME NEW j \in Keys
      PROVE  SlotOf(turns'[j]) = IF SlotOf(turns[j]) # None /\ SlotOf(turns[j]).scope = here
                                 THEN None ELSE SlotOf(turns[j])
  <2>1. turns'[j] = IF turns[j] # None /\ turns[j].conv = here THEN None ELSE turns[j]
    BY DEF CascadeTurns
  <2>2. turns[j] # None => turns[j] \in TurnRow
    BY DEF Inv, TypeOK
  <2>3. CASE turns[j] = None
    BY <2>1, <2>3 DEF SlotOf
  <2>4. CASE turns[j] # None
    <3>1. SlotOf(turns[j]) # None /\ SlotOf(turns[j]).scope = turns[j].conv
      BY <2>2, <2>4, SlotOfRow
    <3>2. SlotOf(None) = None
      BY DEF SlotOf
    <3>. QED  BY <2>1, <2>4, <3>1, <3>2
  <2>. QED  BY <2>3, <2>4
<1>. QED  BY <1>1, <1>2

LEMMA DeleteConfirmedErases ==
  ASSUME Inv, NEW h \in Handlers, DeleteConfirmed(h)
  PROVE  Ledger!LedgerNext \/ UNCHANGED Ledger!ledgerVars
<1>1. CASE UNCHANGED <<conversation, turns, receipts>>
  BY <1>1, LedgerStutters DEF DeleteConfirmed
<1>2. CASE /\ Exists(At(h)) /\ receipts[KeyOf(h)] = None
           /\ receipts' = [receipts EXCEPT ![KeyOf(h)] = Receipt(h)]
           /\ conversation' = [conversation EXCEPT ![At(h)] = Row("gone")]
           /\ turns' = CascadeTurns(At(h))
  <2> DEFINE k == KeyOf(h)
             here == At(h)
  <2>1. /\ handler[h].pc \in Working
        /\ k \in Keys
        /\ Keyed(h)
        /\ here \in Conversations
        /\ lastRun' = lastRun
    BY NoneAssumption DEF DeleteConfirmed, Inv, HandlersWellFormed, Claimed, Working, Keyed
  <2>2. /\ turns[k] \in TurnRow
        /\ SlotOf(turns[k]) # None
        /\ SlotOf(turns[k]).status = "running"
        /\ SlotOf(turns[k]).run = handler[h].run
        /\ SlotOf(turns[k]).scope = here
        /\ SlotOf(turns[k]).body = BodyOf(h)
    BY <1>2, <2>1, WorkerOwnsRow, SlotOfRow
  <2>3. TombOf(receipts[k]) = None
    BY <1>2 DEF TombOf
  <2>4. TombOf(Receipt(h)) = [run |-> handler[h].run, scope |-> here, body |-> BodyOf(h)]
    <3>1. OutcomeOf(h, TRUE) \in Outcome /\ BodyOf(h) \in Body
      BY <2>1, OutcomeOfType DEF Inv, HandlersWellFormed, Working, BodyOf, Request
    <3>2. Receipt(h) \in ReceiptRow
      BY <3>1 DEF Receipt, ReceiptRow
    <3>. QED  BY <3>2, TombOfReceipt DEF Receipt, OutcomeOf
  <2>5. [j \in Keys |-> TombOf(receipts'[j])]
          = [[j \in Keys |-> TombOf(receipts[j])] EXCEPT
               ![k] = [run |-> SlotOf(turns[k]).run, scope |-> SlotOf(turns[k]).scope,
                       body |-> SlotOf(turns[k]).body]]
    BY <1>2, <2>1, <2>2, <2>4 DEF Inv, TypeOK
  <2>6. Erased' = Erased \cup {here}
    BY <1>2, <2>1, CascadeFrees
  <2>7. [j \in Keys |-> SlotOf(turns'[j])]
          = [j \in Keys |-> IF SlotOf(turns[j]) # None /\ SlotOf(turns[j]).scope = here
                            THEN None ELSE SlotOf(turns[j])]
    BY <1>2, <2>1, CascadeFrees
  <2> DEFINE slots == [j \in Keys |-> SlotOf(turns[j])]
             tombs == [j \in Keys |-> TombOf(receipts[j])]
  <2>8. slots[k] = SlotOf(turns[k]) /\ tombs[k] = None
    BY <2>1, <2>3
  <2>9. slots' = [j \in Keys |-> IF slots[j] # None /\ slots[j].scope = slots[k].scope
                                 THEN None ELSE slots[j]]
    BY <2>2, <2>7, <2>8
  <2>10. /\ tombs' = [tombs EXCEPT ![k] = [run |-> slots[k].run, scope |-> slots[k].scope,
                                           body |-> slots[k].body]]
         /\ Erased' = Erased \cup {slots[k].scope}
    BY <2>2, <2>5, <2>6, <2>8
  <2>11. Ledger!Running(k)
    BY <2>2, <2>8 DEF Ledger!Running
  <2>. HIDE DEF slots, tombs
  <2>12. Ledger!Erase(k)
    BY <2>1, <2>8, <2>9, <2>10, <2>11 DEF Ledger!Erase, Ledger!SlotsWithout, slots, tombs
  <2>. QED  BY <2>1, <2>12 DEF Ledger!LedgerNext
<1>. QED  BY <1>1, <1>2 DEF DeleteConfirmed

LEMMA OwnerRemoveErases ==
  ASSUME Inv, NEW c \in Conversations, OwnerRemove(c)
  PROVE  Ledger!LedgerNext
<1>1. /\ Exists(c)
      /\ conversation' = [conversation EXCEPT ![c] = Row("gone")]
      /\ turns' = CascadeTurns(c)
      /\ UNCHANGED <<receipts, lastRun>>
  BY DEF OwnerRemove
<1> DEFINE slots == [j \in Keys |-> SlotOf(turns[j])]
<1>2. slots' = [j \in Keys |-> IF slots[j] # None /\ slots[j].scope = c
                               THEN None ELSE slots[j]]
  BY <1>1, CascadeFrees
<1>3. c \notin Erased /\ Erased' = Erased \cup {c}
  BY <1>1, CascadeFrees
<1>. HIDE DEF slots
<1>4. Ledger!EraseUnasked(c)
  BY <1>1, <1>2, <1>3 DEF Ledger!EraseUnasked, Ledger!SlotsWithout, slots
<1>. QED  BY <1>4 DEF Ledger!LedgerNext

LEMMA LedgerInitially == Init => Ledger!LedgerInit
  BY DEF Init, Row, SlotOf, TombOf, Erased, Ledger!LedgerInit

LEMMA LedgerSteps == Inv /\ [Next]_vars => [Ledger!LedgerNext]_(Ledger!ledgerVars)
<1>. SUFFICES ASSUME Inv, [Next]_vars
              PROVE  Ledger!LedgerNext \/ UNCHANGED Ledger!ledgerVars
  OBVIOUS
<1>1. ASSUME NEW h \in Handlers, Claim(h) \/ Persist(h) \/ MarkFailed(h) \/ DeleteConfirmed(h)
      PROVE  Ledger!LedgerNext \/ UNCHANGED Ledger!ledgerVars
  BY <1>1, ClaimBegins, PersistAnswers, MarkFailedFails, DeleteConfirmedErases
<1>2. ASSUME NEW c \in Conversations, OwnerRemove(c)
      PROVE  Ledger!LedgerNext \/ UNCHANGED Ledger!ledgerVars
  BY <1>2, OwnerRemoveErases
<1>3. ASSUME \A h \in Handlers : ~DeleteConfirmed(h),
             \A c \in Conversations : ~OwnerRemove(c),
             UNCHANGED <<turns, receipts, lastRun>>
      PROVE  UNCHANGED Ledger!ledgerVars
  BY <1>3, LifecycleSteps, LedgerStutters
<1>4. \/ \E h \in Handlers : Claim(h) \/ Persist(h) \/ MarkFailed(h) \/ DeleteConfirmed(h)
      \/ \E c \in Conversations : OwnerRemove(c)
      \/ UNCHANGED <<turns, receipts, lastRun>>
  BY DEF Next, TurnStep, Receive, LookupTurn, LookupReceipt, Resolve, CreateConversation, Decide,
         Throw, Crash, AdminSetMode, AdminDelete, ReleaseStaleHuman, Tick, vars, database
<1>. QED  BY <1>1, <1>2, <1>3, <1>4

\* The pipeline implements TurnLedger: every run starts once, ends at most once and
\* frees its key only when its conversation is erased (claimIdempotent, persist,
\* markIdempotentFailed, deleteConfirmed).
THEOREM TurnsImplementLedger == Spec => LedgerHolds
  BY LedgerInitially, LedgerSteps, InvHolds, PTL DEF Spec, LedgerHolds, Ledger!LedgerSpec
=============================================================================
