----------------------------- MODULE NadimTurns -----------------------------
(***************************************************************************)
(* The Nadim V2 turn pipeline of apps/api: NadimV2Service.turn, with the   *)
(* NadimConversationService that stores conversations, idempotent turns    *)
(* and deletion receipts, and the ConversationControlService that changes  *)
(* ownership and deletes conversations.  Several turns run at once, in one *)
(* or in several API processes; each database round trip on which another  *)
(* turn can interleave is a step.  The dashboard, the owner of a web       *)
(* conversation and the job that releases stale HUMAN ownership change     *)
(* the same rows.                                                          *)
(*                                                                         *)
(* Abstractions: one channel and one sender, so an idempotency key stands  *)
(* for (channel, key); the request hash is the request body itself; what   *)
(* the dialogue model reads out of a message is a choice made in Decide;   *)
(* the content of a conversation's state is named by the execution that    *)
(* wrote it; customer and requirement writes belong to other modules.      *)
(***************************************************************************)
EXTENDS Integers

CONSTANTS
    Handlers,        \* concurrent executions of turn()
    Keys,            \* idempotency keys
    Conversations,   \* identifiers the database can allocate, in order
    WebConversations,  \* those that a web conversation is bound to
    Requests,        \* the requests callers send
    Proposals,       \* control actions the model may propose, or None
    AdminModes,      \* modes the dashboard sets
    NoKey,           \* a request without x-idempotency-key and without eventId
    ByIdentity,      \* no conversationId: found through the sender's identity
    None,            \* no row, or SQL NULL
    DeletionWindow,  \* lifetime of a deletion request, in clock ticks
    MaxRuns,         \* bound on executions of the pipeline
    MaxTime          \* bound on the clock

(***************************************************************************)
(* Types                                                                   *)
(***************************************************************************)
Commands == {"REQUEST_HUMAN_HANDOFF", "RETURN_TO_AI",
             "REQUEST_CONVERSATION_DELETION", "CONFIRM_CONVERSATION_DELETION"}
ControlActions == {"HUMAN_HANDOFF", "RETURN_TO_AI",
                   "REQUEST_CONVERSATION_DELETION", "CONFIRM_CONVERSATION_DELETION"}
Modes == {"AI", "HUMAN", "PAUSED"}

\* What nadimTurnRequestHash digests: the request without its key.
Body == [target : Conversations \cup {ByIdentity}, command : Commands \cup {None}]
Request == [key : Keys \cup {NoKey}, body : Body]

\* A response: the execution that composed it and the request it was composed for.
Outcome == [run : Nat, key : Keys \cup {NoKey}, hash : Body,
            conv : Conversations, deleted : BOOLEAN]

ConversationRow == [lifecycle : {"absent", "live", "softDeleted", "gone"},
                    mode : Modes, until : Nat, state : Nat]
TurnRow == [id : Nat, conv : Conversations, hash : Body,
            code : {"IN_PROGRESS", "FAILED", "NULL"}, payload : Outcome \cup {None}]
ReceiptRow == [hash : Body, payload : Outcome]

Steps == {"idle", "lookup", "lookupReceipt", "resolve", "create", "claim",
          "relookup", "relookupReceipt", "decide", "tools", "record", "delete",
          "fail"}
HandlerState == [pc : Steps, req : Request \cup {None}, at : Conversations \cup {None},
                 seen : ConversationRow, run : Nat]

\* Runs and tombstones as TurnLedger, the abstract specification, sees them.
LedgerRun == [run : Nat, scope : Conversations, body : Body,
              status : {"running", "answered", "failed"}]
LedgerTomb == [run : Nat, scope : Conversations, body : Body]

ASSUME RequestsAssumption == Requests \subseteq Request
ASSUME ProposalsAssumption == Proposals \subseteq ControlActions \cup {None}
ASSUME ModesAssumption == AdminModes \subseteq Modes
ASSUME ConversationsAssumption == Conversations \subseteq Nat
ASSUME NoneAssumption ==
    /\ None \notin Conversations /\ None \notin Commands /\ None \notin ControlActions
    /\ None \notin Request /\ None \notin Outcome
    /\ None \notin TurnRow /\ None \notin ReceiptRow
    /\ None \notin LedgerRun /\ None \notin LedgerTomb
    /\ NoKey \notin Keys
    /\ ByIdentity \notin Conversations
ASSUME BoundsAssumption == DeletionWindow \in Nat /\ MaxRuns \in Nat /\ MaxTime \in Nat

VARIABLES
    conversation,  \* table NadimConversation
    turns,         \* table NadimTurn, by its unique (channel, idempotencyKey)
    receipts,      \* table NadimDeletionReceipt, by the same key
    lastRun,       \* the last turn id handed out
    clock,
    handler,       \* the locals of each running turn()
    answer,        \* observed: the latest successful answer a caller was given
    claimed        \* history: the executions that were let in, tools and actions included

database == <<conversation, turns, receipts, lastRun>>
history == <<answer, claimed>>
vars == <<conversation, turns, receipts, lastRun, clock, handler, answer, claimed>>

Row(lifecycle) == [lifecycle |-> lifecycle, mode |-> "AI", until |-> 0, state |-> 0]
Idle == [pc |-> "idle", req |-> None, at |-> None, seen |-> Row("absent"), run |-> 0]

TypeOK ==
    /\ conversation \in [Conversations -> ConversationRow]
    /\ turns \in [Keys -> TurnRow \cup {None}]
    /\ receipts \in [Keys -> ReceiptRow \cup {None}]
    /\ lastRun \in Nat
    /\ clock \in Nat
    /\ handler \in [Handlers -> HandlerState]
    /\ answer \in [asked : Body, outcome : Outcome] \cup {None}
    /\ claimed \in SUBSET Outcome

Init ==
    /\ conversation = [c \in Conversations |-> Row("absent")]
    /\ turns = [k \in Keys |-> None]
    /\ receipts = [k \in Keys |-> None]
    /\ lastRun = 0
    /\ clock = 0
    /\ handler = [h \in Handlers |-> Idle]
    /\ answer = None
    /\ claimed = {}

(***************************************************************************)
(* Helpers                                                                 *)
(***************************************************************************)
KeyOf(h) == handler[h].req.key
BodyOf(h) == handler[h].req.body
At(h) == handler[h].at
Keyed(h) == KeyOf(h) # NoKey
Exists(c) == conversation[c].lifecycle \in {"live", "softDeleted"}

Goto(h, pc) == handler' = [handler EXCEPT ![h].pc = pc]
Leave(h) == handler' = [handler EXCEPT ![h] = Idle]

\* The row this handler claimed, as long as its conversation was not deleted.
OwnsRow(h) == /\ turns[KeyOf(h)] # None
              /\ turns[KeyOf(h)].id = handler[h].run

OutcomeOf(h, deleted) ==
    [run |-> handler[h].run, key |-> KeyOf(h), hash |-> BodyOf(h),
     conv |-> At(h), deleted |-> deleted]

(***************************************************************************)
(* turn(), up to the claim                                                 *)
(***************************************************************************)
Receive(h) ==
    /\ handler[h].pc = "idle"
    /\ \E r \in Requests :
          handler' = [handler EXCEPT ![h] =
                         [@ EXCEPT !.pc = IF r.key = NoKey THEN "resolve" ELSE "lookup",
                                   !.req = r]]
    /\ UNCHANGED <<database, clock, history>>

SameRequestUnchecked(h, row) == TRUE
SameRequest(h, row) == row.hash = BodyOf(h)

\* A stored turn or receipt answers the caller: a different body is refused
\* (IDEMPOTENCY_CONFLICT), a recorded response is replayed, and without one
\* the caller is refused (TURN_IN_PROGRESS, IDEMPOTENT_TURN_FAILED).
Replay(h, row) ==
    /\ answer' = IF SameRequest(h, row) /\ row.payload # None
                 THEN [asked |-> BodyOf(h), outcome |-> row.payload]
                 ELSE answer
    /\ Leave(h)

\* replayIdempotent reads the turn first and the receipt after it.  It is
\* called before the conversation is resolved, and again when the claim finds
\* the key taken; there, finding nothing rethrows the unique violation.
LookupTurn(h) ==
    /\ handler[h].pc \in {"lookup", "relookup"}
    /\ \/ /\ turns[KeyOf(h)] # None
          /\ Replay(h, turns[KeyOf(h)])
       \/ /\ turns[KeyOf(h)] = None
          /\ Goto(h, IF handler[h].pc = "lookup" THEN "lookupReceipt" ELSE "relookupReceipt")
          /\ UNCHANGED answer
    /\ UNCHANGED <<database, clock, claimed>>

LookupReceipt(h) ==
    /\ handler[h].pc \in {"lookupReceipt", "relookupReceipt"}
    /\ \/ /\ receipts[KeyOf(h)] # None
          /\ Replay(h, receipts[KeyOf(h)])
       \/ /\ receipts[KeyOf(h)] = None
          /\ IF handler[h].pc = "lookupReceipt" THEN Goto(h, "resolve") ELSE Leave(h)
          /\ UNCHANGED answer
    /\ UNCHANGED <<database, clock, claimed>>

StartIn(h, c, row) ==
    handler' = [handler EXCEPT ![h] = [@ EXCEPT !.pc = "claim", !.at = c, !.seen = row]]

\* resolve() reads the conversation the rest of the turn works from: mode,
\* pending deletion and state stay as they were at this moment.  Which of several
\* conversations of a sender it finds is left open.
Resolve(h) ==
    /\ handler[h].pc = "resolve"
    /\ \/ \E c \in Conversations :
             /\ BodyOf(h).target \in {c, ByIdentity}
             /\ conversation[c].lifecycle = "live"
             /\ StartIn(h, c, conversation[c])
       \/ /\ BodyOf(h).target = ByIdentity
          /\ \A c \in Conversations : conversation[c].lifecycle # "live"
          /\ Goto(h, "create")
       \/ /\ BodyOf(h).target \in Conversations    \* NADIM_CONVERSATION_NOT_FOUND
          /\ conversation[BodyOf(h).target].lifecycle # "live"
          /\ Leave(h)
    /\ UNCHANGED <<database, clock, history>>

\* The conversation is created after, and not atomically with, the search.
CreateConversation(h) ==
    /\ handler[h].pc = "create"
    /\ \E c \in Conversations :
          /\ conversation[c].lifecycle = "absent"
          /\ \A d \in Conversations : conversation[d].lifecycle = "absent" => c <= d
          /\ conversation' = [conversation EXCEPT ![c] = Row("live")]
          /\ StartIn(h, c, Row("live"))
    /\ UNCHANGED <<turns, receipts, lastRun, clock, history>>

\* The unique index over (channel, idempotencyKey) refuses a second row.
TakenUnindexed(h) == FALSE
Taken(h) == Keyed(h) /\ turns[KeyOf(h)] # None

\* claimIdempotent inserts the turn before any work is done.  The unique index
\* sends a second claimant back to the replay; the foreign key refuses a turn of
\* a deleted conversation.  An unkeyed turn claims nothing; its number only
\* names the execution.
Claim(h) ==
    /\ handler[h].pc = "claim"
    /\ \/ /\ Taken(h)
          /\ Goto(h, "relookup")
          /\ UNCHANGED <<turns, lastRun, claimed>>
       \/ /\ Keyed(h) /\ ~Taken(h) /\ ~Exists(At(h))
          /\ Leave(h)
          /\ UNCHANGED <<turns, lastRun, claimed>>
       \/ /\ lastRun < MaxRuns
          /\ ~Taken(h) /\ (Keyed(h) => Exists(At(h)))
          /\ lastRun' = lastRun + 1
          /\ handler' = [handler EXCEPT ![h] = [@ EXCEPT !.pc = "decide", !.run = lastRun + 1]]
          /\ claimed' = claimed \cup
                {[run |-> lastRun + 1, key |-> KeyOf(h), hash |-> BodyOf(h),
                  conv |-> At(h), deleted |-> FALSE]}
          /\ turns' = IF Keyed(h)
                      THEN [turns EXCEPT ![KeyOf(h)] =
                               [id |-> lastRun + 1, conv |-> At(h), hash |-> BodyOf(h),
                                code |-> "IN_PROGRESS", payload |-> None]]
                      ELSE turns
    /\ UNCHANGED <<conversation, receipts, clock, answer>>

(***************************************************************************)
(* Understanding and control                                               *)
(***************************************************************************)
\* A command outranks what the model proposes.
RequestedAction(command, proposed) ==
    IF command = "REQUEST_HUMAN_HANDOFF" THEN "HUMAN_HANDOFF"
    ELSE IF command # None THEN command ELSE proposed

\* prisma.nadimConversation.update by id: P2025 when the row is gone.
UpdateThenRecord(h, row) ==
    IF Exists(At(h))
    THEN conversation' = [conversation EXCEPT ![At(h)] = row] /\ Goto(h, "record")
    ELSE Goto(h, "fail") /\ UNCHANGED conversation

Continue(h, pc) == Goto(h, pc) /\ UNCHANGED conversation

PendingIsAssumed(h) == TRUE
PendingIsActive(h) == handler[h].seen.until > clock

\* ConversationControlService.apply.  Only a turn that applied no control action
\* goes on to requirements, tools and external actions.
ApplyControl(h, action) ==
    LET seen == handler[h].seen
        row == conversation[At(h)]
    IN  \/ /\ seen.mode = "HUMAN" /\ action # "RETURN_TO_AI"
           /\ Continue(h, "tools")
        \/ /\ seen.mode = "HUMAN" /\ action = "RETURN_TO_AI"
           /\ UpdateThenRecord(h, [row EXCEPT !.mode = "AI"])
        \/ /\ seen.mode # "HUMAN" /\ action = None
           /\ Continue(h, "tools")
        \/ /\ seen.mode # "HUMAN" /\ action = "HUMAN_HANDOFF"
           /\ UpdateThenRecord(h, [row EXCEPT !.mode = "HUMAN"])
        \/ /\ seen.mode # "HUMAN" /\ action = "RETURN_TO_AI"
           /\ Continue(h, "record")
        \/ /\ seen.mode # "HUMAN" /\ action = "REQUEST_CONVERSATION_DELETION"
           /\ UpdateThenRecord(h, [row EXCEPT !.until = clock + DeletionWindow])
        \/ /\ seen.mode # "HUMAN" /\ action = "CONFIRM_CONVERSATION_DELETION"
           /\ Continue(h, IF PendingIsActive(h) /\ Keyed(h) THEN "delete" ELSE "record")

\* In HUMAN mode the model is asked only whether the customer returns the
\* conversation to Nadim; otherwise the turn is recorded without a reply.
\* proposed is the first control action among the model's proposals.
Decide(h) ==
    /\ handler[h].pc = "decide"
    /\ \E proposed \in Proposals, returns \in BOOLEAN :
          /\ returns => proposed # None
          /\ IF /\ handler[h].seen.mode = "HUMAN"
                /\ BodyOf(h).command # "RETURN_TO_AI"
                /\ ~returns
             THEN Continue(h, "record")
             ELSE ApplyControl(h, RequestedAction(BodyOf(h).command, proposed))
    /\ UNCHANGED <<turns, receipts, lastRun, clock, history>>

(***************************************************************************)
(* Recording the turn                                                      *)
(***************************************************************************)
\* What follows a commit: the response is returned; or the process dies first; or
\* the acknowledgement of the commit is lost and the catch block runs.
Conclude(h, outcome) ==
    \/ /\ answer' = [asked |-> BodyOf(h), outcome |-> outcome]
       /\ Leave(h)
    \/ UNCHANGED answer /\ Leave(h)
    \/ UNCHANGED answer /\ Goto(h, "fail")

RecordedWhole(h) == [handler[h].seen EXCEPT !.state = handler[h].run]
Recorded(h) == [conversation[At(h)] EXCEPT !.state = handler[h].run]

\* After the tools and actions, if any, one transaction overwrites the state of
\* the conversation with the one computed from the snapshot, and completes the
\* claimed turn by its id.
Persist(h) ==
    /\ handler[h].pc \in {"tools", "record"}
    /\ \/ /\ ~Exists(At(h)) \/ (Keyed(h) /\ ~OwnsRow(h))
          /\ Goto(h, "fail")
          /\ UNCHANGED <<conversation, turns, answer>>
       \/ /\ Exists(At(h)) /\ (Keyed(h) => OwnsRow(h))
          /\ conversation' = [conversation EXCEPT ![At(h)] = Recorded(h)]
          /\ turns' = IF Keyed(h)
                      THEN [turns EXCEPT ![KeyOf(h)].payload = OutcomeOf(h, FALSE),
                                         ![KeyOf(h)].code = "NULL"]
                      ELSE turns
          /\ Conclude(h, OutcomeOf(h, FALSE))
    /\ UNCHANGED <<receipts, lastRun, clock, claimed>>

NoCascade(c) == turns
\* Deleting a conversation deletes its turns (ON DELETE CASCADE).
CascadeTurns(c) ==
    [k \in Keys |-> IF turns[k] # None /\ turns[k].conv = c THEN None ELSE turns[k]]

Receipt(h) == [hash |-> BodyOf(h), payload |-> OutcomeOf(h, TRUE)]

\* deleteConfirmed: in one transaction the receipt is created and the
\* conversation deleted; a conversation that is gone already is left alone.
DeleteConfirmed(h) ==
    /\ handler[h].pc = "delete"
    /\ \/ /\ ~Exists(At(h))
          /\ Conclude(h, OutcomeOf(h, TRUE))
          /\ UNCHANGED <<conversation, turns, receipts>>
       \/ /\ Exists(At(h)) /\ receipts[KeyOf(h)] # None    \* unique violation
          /\ Goto(h, "fail")
          /\ UNCHANGED <<conversation, turns, receipts, answer>>
       \/ /\ Exists(At(h)) /\ receipts[KeyOf(h)] = None
          /\ receipts' = [receipts EXCEPT ![KeyOf(h)] = Receipt(h)]
          /\ conversation' = [conversation EXCEPT ![At(h)] = Row("gone")]
          /\ turns' = CascadeTurns(At(h))
          /\ Conclude(h, OutcomeOf(h, TRUE))
    /\ UNCHANGED <<lastRun, clock, claimed>>

\* Any awaited call after the claim may throw.
Throw(h) ==
    /\ handler[h].pc \in {"decide", "tools", "record", "delete"}
    /\ Goto(h, "fail")
    /\ UNCHANGED <<database, clock, history>>

ReleasedRow(row) == None
RestartedRow(row) == [row EXCEPT !.code = "FAILED", !.payload = None]
FailedRow(row) == [row EXCEPT !.code = "FAILED"]

\* markIdempotentFailed updates by turn id; its own failure is ignored.
MarkFailed(h) ==
    /\ handler[h].pc = "fail"
    /\ turns' = IF Keyed(h) /\ OwnsRow(h)
                THEN [turns EXCEPT ![KeyOf(h)] = FailedRow(turns[KeyOf(h)])]
                ELSE turns
    /\ Leave(h)
    /\ UNCHANGED <<conversation, receipts, lastRun, clock, history>>

\* The process dies, an error before the claim is rethrown, or the update in
\* MarkFailed fails: nothing more is written.
Crash(h) ==
    /\ handler[h].pc # "idle"
    /\ Leave(h)
    /\ UNCHANGED <<database, clock, history>>

(***************************************************************************)
(* Dashboard, jobs and time                                                *)
(***************************************************************************)
\* setConversationMode checks that the row is not deleted and then updates it by
\* id, so that the update may also reach a row soft deleted in between.
AdminSetMode(c, m) ==
    /\ Exists(c)
    /\ conversation' = [conversation EXCEPT ![c].mode = m]
    /\ UNCHANGED <<turns, receipts, lastRun, clock, handler, history>>

\* deleteConversation of the dashboard keeps the row and pauses it.
AdminDelete(c) ==
    /\ conversation[c].lifecycle = "live"
    /\ conversation' = [conversation EXCEPT ![c].lifecycle = "softDeleted", ![c].mode = "PAUSED"]
    /\ UNCHANGED <<turns, receipts, lastRun, clock, handler, history>>

\* ConversationsService.remove: the owner of a web conversation deletes it, and its
\* turns with it, in one transaction; nobody asks again and no receipt is left.
OwnerRemove(c) ==
    /\ c \in WebConversations
    /\ Exists(c)
    /\ conversation' = [conversation EXCEPT ![c] = Row("gone")]
    /\ turns' = CascadeTurns(c)
    /\ UNCHANGED <<receipts, lastRun, clock, handler, history>>

\* releaseStaleHuman updates only rows still in HUMAN mode; like setConversationMode
\* it looks at deletedAt only when it selects them.
ReleaseStaleHuman(c) ==
    /\ Exists(c)
    /\ conversation[c].mode = "HUMAN"
    /\ conversation' = [conversation EXCEPT ![c].mode = "AI"]
    /\ UNCHANGED <<turns, receipts, lastRun, clock, handler, history>>

Tick ==
    /\ clock < MaxTime
    /\ clock' = clock + 1
    /\ UNCHANGED <<database, handler, history>>

TurnStep(h) ==
    \/ Receive(h) \/ LookupTurn(h) \/ LookupReceipt(h) \/ Resolve(h)
    \/ CreateConversation(h) \/ Claim(h) \/ Decide(h) \/ Persist(h)
    \/ DeleteConfirmed(h) \/ Throw(h) \/ MarkFailed(h) \/ Crash(h)

Next ==
    \/ \E h \in Handlers : TurnStep(h)
    \/ \E c \in Conversations, m \in AdminModes : AdminSetMode(c, m)
    \/ \E c \in Conversations : AdminDelete(c) \/ ReleaseStaleHuman(c) \/ OwnerRemove(c)
    \/ Tick

Spec == Init /\ [][Next]_vars

(***************************************************************************)
(* Correctness                                                             *)
(***************************************************************************)
Working == {"decide", "tools", "record", "delete"}

\* Until it is recorded, a keyed turn holds the row it claimed (unless its
\* conversation is deleted under it), that row is unanswered, and no two turns
\* run as the same execution: what claimIdempotent is for.
ClaimExclusive ==
    /\ \A h \in Handlers :
          handler[h].pc \in Working /\ Keyed(h) /\ Exists(At(h)) =>
              /\ OwnsRow(h)
              /\ turns[KeyOf(h)].conv = At(h)
              /\ turns[KeyOf(h)].hash = BodyOf(h)
              /\ turns[KeyOf(h)].payload = None
    /\ \A h, g \in Handlers :
          h # g /\ handler[h].pc \in Working \cup {"fail"}
                /\ handler[g].pc \in Working \cup {"fail"}
              => handler[h].run # handler[g].run

\* Turns live exactly as long as the conversation they belong to, receipts only
\* after the one they deleted: what the cascade and deleteConfirmed's transaction
\* keep together while other turns and the dashboard write.
NoOrphans ==
    \A k \in Keys :
        /\ turns[k] # None => Exists(turns[k].conv)
        /\ receipts[k] # None => conversation[receipts[k].payload.conv].lifecycle = "gone"

\* A caller is given a response only if it was composed for the request the caller
\* sent, whether it is fresh or replayed from a turn or a receipt.
ReplayFaithful == answer # None => answer.asked = answer.outcome.hash

\* Two executions are let in under one key only if the conversation of one of them
\* has been deleted: a retry never repeats tools and external actions, whatever
\* failed or crashed in the first attempt.
RerunOnlyAfterDeletion ==
    \A o, p \in claimed :
        o.key = p.key /\ o.key # NoKey /\ o.run # p.run =>
            \/ conversation[o.conv].lifecycle = "gone"
            \/ conversation[p.conv].lifecycle = "gone"

\* A turn deletes a conversation only if it found a deletion request already
\* committed when it resolved that conversation: asking and confirming in a chat
\* are always two messages (ConversationControlService.apply).
DeletionStep ==
    \A h \in Handlers, c \in Conversations :
        handler'[h] # handler[h] /\ Exists(c) /\ ~Exists(c)' =>
            /\ handler[h].pc = "delete"
            /\ At(h) = c
            /\ handler[h].seen.until > 0
DeletionIsTwoStep == [][DeletionStep]_vars

\* Once a conversation is deleted, no caller is given a response composed in it
\* other than the confirmation of its deletion: no turn in flight and no replay
\* brings it back.
ErasureStep ==
    answer' # answer =>
        \/ conversation[answer'.outcome.conv].lifecycle # "gone"
        \/ answer'.outcome.deleted
ErasedStaysErased == [][ErasureStep]_vars

\* A turn gives a conversation back to the AI only if it found it owned by a
\* human: a turn that started before the takeover (or the pause) never undoes it,
\* neither by a control action nor by recording its result.
TakeoverStep ==
    \A h \in Handlers, c \in Conversations :
        /\ handler'[h] # handler[h]
        /\ conversation[c].mode # "AI" /\ conversation'[c].mode = "AI"
        /\ Exists(c)'
        => At(h) = c /\ handler[h].seen.mode = "HUMAN"
TakeoverSurvivesOlderTurns == [][TakeoverStep]_vars

\* The tables implement TurnLedger: the response decides whether a turn was
\* answered, whatever its error code says.
SlotOf(row) ==
    IF row = None THEN None
    ELSE [run |-> row.id, scope |-> row.conv, body |-> row.hash,
          status |-> IF row.payload # None THEN "answered"
                     ELSE IF row.code = "FAILED" THEN "failed" ELSE "running"]
TombOf(receipt) ==
    IF receipt = None THEN None
    ELSE [run |-> receipt.payload.run, scope |-> receipt.payload.conv, body |-> receipt.hash]
Erased == {c \in Conversations : conversation[c].lifecycle = "gone"}

Ledger == INSTANCE TurnLedger WITH
    Scopes <- Conversations,
    Bodies <- Body,
    slot <- [k \in Keys |-> SlotOf(turns[k])],
    tomb <- [k \in Keys |-> TombOf(receipts[k])],
    erased <- Erased,
    runs <- lastRun

\* Claim, persist, markIdempotentFailed and deleteConfirmed together keep the
\* promise of TurnLedger.
LedgerHolds == Ledger!LedgerSpec

\* In a conversation owned by a human, a turn does not reach tools and actions.
HumanOwnershipSilencesTools ==
    \A h \in Handlers : handler[h].pc = "tools" => handler[h].seen.mode # "HUMAN"

\* Whoever is told that the conversation was deleted can be told so again: the
\* key of the confirmation has a receipt.
DeletionLeavesReceipt ==
    answer # None /\ answer.outcome.deleted =>
        /\ receipts[answer.outcome.key] # None
        /\ receipts[answer.outcome.key].payload = answer.outcome

(***************************************************************************)
(* The inductive invariant behind these properties                         *)
(***************************************************************************)
Claimed == Working \cup {"fail"}

HandlersWellFormed ==
    \A h \in Handlers :
        /\ handler[h].pc # "idle" => handler[h].req \in Request
        /\ handler[h].pc \in {"lookup", "lookupReceipt", "relookup", "relookupReceipt",
                              "delete"} => KeyOf(h) \in Keys
        /\ handler[h].pc \in {"claim"} \cup Claimed =>
              At(h) \in Conversations /\ conversation[At(h)].lifecycle # "absent"

RunsAreFresh ==
    /\ \A h \in Handlers : handler[h].pc \in Claimed => handler[h].run <= lastRun
    /\ \A k \in Keys : turns[k] # None => turns[k].id <= lastRun
    /\ \A o \in claimed : o.run <= lastRun

RowsAreFaithful ==
    \A k \in Keys :
        /\ turns[k] # None /\ turns[k].payload # None =>
              /\ turns[k].payload.hash = turns[k].hash
              /\ turns[k].payload.conv = turns[k].conv
        /\ receipts[k] # None =>
              /\ receipts[k].payload.hash = receipts[k].hash
              /\ receipts[k].payload.deleted

\* The row of a working turn is in progress: no other turn has marked it.
WorkIsInProgress ==
    \A h \in Handlers :
        handler[h].pc \in Working /\ Keyed(h) /\ Exists(At(h)) =>
            turns[KeyOf(h)].code = "IN_PROGRESS"

\* Whoever was let in under a key still holds it, or its conversation is gone.
ClaimsAreKept ==
    \A o \in claimed :
        o.key # NoKey =>
            \/ conversation[o.conv].lifecycle = "gone"
            \/ /\ turns[o.key] # None
               /\ turns[o.key].id = o.run
               /\ turns[o.key].conv = o.conv

DeletionWasRequested ==
    \A h \in Handlers : handler[h].pc = "delete" => handler[h].seen.until > 0

AbsentIsBlank ==
    \A c \in Conversations : conversation[c].lifecycle = "absent" => conversation[c].mode = "AI"

\* Every step preserves the conjunction: a deletion spares the rows of other
\* conversations only because rows and claims agree on theirs, and MarkFailed
\* spares the rows of other turns only because no two turns are the same run.
Inv ==
    /\ TypeOK
    /\ HandlersWellFormed
    /\ RunsAreFresh
    /\ ClaimExclusive
    /\ WorkIsInProgress
    /\ NoOrphans
    /\ RowsAreFaithful
    /\ ClaimsAreKept
    /\ DeletionWasRequested
    /\ AbsentIsBlank
    /\ ReplayFaithful
=============================================================================
