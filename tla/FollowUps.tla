----------------------------- MODULE FollowUps ------------------------------
(***************************************************************************)
(* Follow-up tasks of CustomerLifecycleService: created by turns under a   *)
(* deduplication key, leased to workers that poll claim-due, reported sent *)
(* or failed, recovered when a lease runs out, and cancelled when the      *)
(* dashboard deletes their conversation.  The workers are external (n8n):  *)
(* they may be slow, crash, lose a response and repeat a report.           *)
(*                                                                         *)
(* Abstractions: a task is named by its deduplication key, which digests   *)
(* its conversation; dueAt and the page size of claim-due are left to the  *)
(* choice of a subset of the claimable tasks; no code writes               *)
(* safeDuringHuman or maxAttempts, which keep their defaults (false and 3, *)
(* the same 3 that claimDue spells out); claimedBy is never read.          *)
(***************************************************************************)
EXTENDS Integers

CONSTANTS
    Conversations,
    Tasks,         \* deduplication keys
    ConversationOf,  \* the conversation each of them digests
    Workers,
    Turns,         \* turns that create follow-ups
    MaxAttempts,   \* FollowUpTask.maxAttempts, 3
    Lease,         \* 15 minutes, in clock ticks
    None,
    MaxTime        \* bound on the clock

Statuses == {"PENDING", "CLAIMED", "SENT", "FAILED", "CANCELLED"}
Final == {"SENT", "FAILED", "CANCELLED"}

\* claimedAt is meaningful in a CLAIMED row only.
TaskRow == [status : Statuses, attempts : 0..MaxAttempts, claimedAt : Nat]

\* "cancelled" is "deleted" once the dashboard has also cancelled the follow-ups; no
\* query tells the two apart.
ConversationRow == [lifecycle : {"live", "deleted", "cancelled", "gone"}, human : BOOLEAN]

WorkerState == [pc : {"idle", "list", "modes", "claim", "work", "fail"},
                page : SUBSET Tasks,       \* listed, not yet claimed
                hand : SUBSET Tasks,       \* handed to the worker
                job : Tasks \cup {None}, retryable : BOOLEAN]

ASSUME ConversationAssumption == ConversationOf \in [Tasks -> Conversations]
ASSUME BoundsAssumption == MaxAttempts \in Nat /\ Lease \in Nat /\ MaxTime \in Nat
ASSUME NoTaskAssumption == None \notin Tasks /\ None \notin TaskRow

VARIABLES
    conversation,  \* table NadimConversation, as far as follow-ups depend on it
    tasks,         \* table FollowUpTask, by its unique dedupeKey
    clock,
    creating,      \* per turn: the follow-up it is about to insert
    worker,        \* the locals of a worker and of the claim-due request it waits for
    leases,        \* history: the leases handed out and not given up by a report
    freed          \* history: tasks whose latest lease ended by a reported failure

vars == <<conversation, tasks, clock, creating, worker, leases, freed>>
history == <<leases, freed>>

Resting == [pc |-> "idle", page |-> {}, hand |-> {}, job |-> None, retryable |-> FALSE]

TypeOK ==
    /\ conversation \in [Conversations -> ConversationRow]
    /\ tasks \in [Tasks -> TaskRow \cup {None}]
    /\ clock \in Nat
    /\ creating \in [Turns -> Tasks \cup {None}]
    /\ worker \in [Workers -> WorkerState]
    /\ leases \in SUBSET [worker : Workers, task : Tasks, at : Nat]
    /\ freed \in SUBSET Tasks

Init ==
    /\ conversation = [c \in Conversations |-> [lifecycle |-> "live", human |-> FALSE]]
    /\ tasks = [t \in Tasks |-> None]
    /\ clock = 0
    /\ creating = [u \in Turns |-> None]
    /\ worker = [w \in Workers |-> Resting]
    /\ leases = {}
    /\ freed = {}

(***************************************************************************)
(* Helpers                                                                 *)
(***************************************************************************)
Conversation(t) == conversation[ConversationOf[t]]
Status(t) == IF tasks[t] = None THEN "none" ELSE tasks[t].status

HasAttemptsPastCap(t) == tasks[t].attempts <= MaxAttempts
HasAttempts(t) == tasks[t].attempts < MaxAttempts

LeaseExpired(t) == tasks[t].claimedAt + Lease <= clock

(***************************************************************************)
(* createFollowUp, called by ActionPolicyService during a turn             *)
(***************************************************************************)
\* conversationTimezone and ensureCustomer find the conversation not deleted.
BeginFollowUp(u, t) ==
    /\ creating[u] = None
    /\ Conversation(t).lifecycle = "live"
    /\ creating' = [creating EXCEPT ![u] = t]
    /\ UNCHANGED <<conversation, tasks, clock, worker, history>>

\* A task with the same key is returned as it is, whether it is found first or the
\* unique index finds it; the foreign key refuses a conversation that is gone.
InsertFollowUp(u) ==
    /\ creating[u] # None
    /\ LET t == creating[u]
       IN  tasks' = IF tasks[t] = None /\ Conversation(t).lifecycle # "gone"
                    THEN [tasks EXCEPT ![t] = [status |-> "PENDING", attempts |-> 0, claimedAt |-> 0]]
                    ELSE tasks
    /\ creating' = [creating EXCEPT ![u] = None]
    /\ UNCHANGED <<conversation, clock, worker, history>>

(***************************************************************************)
(* claimDue                                                                *)
(***************************************************************************)
\* The first statement puts expired leases back, except those of the last attempt.
Poll(w) ==
    /\ worker[w].pc = "idle"
    /\ worker' = [worker EXCEPT ![w].pc = "list"]
    /\ tasks' = [t \in Tasks |->
                    IF Status(t) = "CLAIMED" /\ LeaseExpired(t) /\ HasAttempts(t)
                    THEN [tasks[t] EXCEPT !.status = "PENDING"] ELSE tasks[t]]
    /\ UNCHANGED <<conversation, clock, creating, history>>

DueInAnyConversation(t) ==
    Status(t) = "PENDING" /\ HasAttempts(t) /\ ~Conversation(t).human
Due(t) ==
    /\ Status(t) = "PENDING"
    /\ HasAttempts(t)
    /\ Conversation(t).lifecycle = "live"
    /\ ~Conversation(t).human

\* The second one lists a page of the tasks that are due,
List(w) ==
    /\ worker[w].pc = "list"
    /\ \E page \in SUBSET {t \in Tasks : Due(t)} :
          worker' = [worker EXCEPT ![w] = [@ EXCEPT !.pc = "modes", !.page = page]]
    /\ UNCHANGED <<conversation, tasks, clock, creating, history>>

\* and a third one reads the modes of their conversations, failing when one is gone.
ReadModes(w) ==
    /\ worker[w].pc = "modes"
    /\ worker' = [worker EXCEPT ![w] =
          IF \E t \in worker[w].page : Conversation(t).lifecycle = "gone" THEN Resting
          ELSE [@ EXCEPT !.pc = "claim",
                         !.page = {t \in worker[w].page : ~Conversation(t).human}]]
    /\ UNCHANGED <<conversation, tasks, clock, creating, history>>

ClaimableUnguarded(t) == tasks[t] # None /\ HasAttempts(t)
Claimable(t) == Status(t) = "PENDING" /\ HasAttempts(t)

\* Every task of the page is leased by a conditional update of its own.
ClaimTask(w) ==
    /\ worker[w].pc = "claim"
    /\ \E t \in worker[w].page :
          IF Claimable(t)
          THEN /\ tasks' = [tasks EXCEPT ![t] = [status |-> "CLAIMED", claimedAt |-> clock,
                                                attempts |-> tasks[t].attempts + 1]]
               /\ worker' = [worker EXCEPT ![w].page = worker[w].page \ {t}, ![w].hand = worker[w].hand \cup {t}]
               /\ leases' = {l \in leases : l.worker # w \/ l.task # t}
                               \cup {[worker |-> w, task |-> t, at |-> clock]}
               /\ freed' = freed \ {t}
          ELSE /\ worker' = [worker EXCEPT ![w].page = @ \ {t}]
               /\ UNCHANGED <<tasks, history>>
    /\ UNCHANGED <<conversation, clock, creating>>

HandOver(w) ==
    /\ worker[w].pc = "claim"
    /\ worker[w].page = {}
    /\ worker' = [worker EXCEPT ![w].pc = IF worker[w].hand = {} THEN "idle" ELSE "work"]
    /\ UNCHANGED <<conversation, tasks, clock, creating, history>>

(***************************************************************************)
(* markSent and markFailed                                                 *)
(***************************************************************************)
\* The worker is told the result and goes on, or it is not and repeats the report.
Reported(w, t) ==
    \E kept \in {{}, {t}} :
        worker' = [worker EXCEPT ![w] =
            LET hand == (worker[w].hand \ {t}) \cup kept
            IN  IF hand = {} THEN Resting
                ELSE [Resting EXCEPT !.pc = "work", !.hand = hand]]

GiveUp(w, t) == leases' = {l \in leases : l.worker # w \/ l.task # t}

ReportableUnlessSent(t) == tasks[t] # None /\ Status(t) # "SENT"
Reportable(t) == Status(t) = "CLAIMED"

\* The reads around this conditional update only choose the response.
MarkSent(w) ==
    /\ worker[w].pc = "work"
    /\ \E t \in worker[w].hand :
          /\ tasks' = IF Reportable(t) THEN [tasks EXCEPT ![t].status = "SENT"] ELSE tasks
          /\ Reported(w, t)
          /\ GiveUp(w, t)
    /\ UNCHANGED <<conversation, clock, creating, freed>>

\* markFailed decides on the attempts it reads whether the task may be retried,
ReadForFailure(w) ==
    /\ worker[w].pc = "work"
    /\ \E t \in worker[w].hand :
          IF Status(t) \in {"none", "SENT", "FAILED"}
          THEN Reported(w, t)
          ELSE worker' = [worker EXCEPT ![w] =
                  [@ EXCEPT !.pc = "fail", !.job = t, !.retryable = HasAttempts(t)]]
    /\ UNCHANGED <<conversation, tasks, clock, creating, history>>

\* and updates whatever lease the task is under by then.
MarkFailed(w) ==
    /\ worker[w].pc = "fail"
    /\ LET t == worker[w].job
       IN  /\ IF Reportable(t)
              THEN /\ tasks' = [tasks EXCEPT ![t].status =
                                  IF worker[w].retryable THEN "PENDING" ELSE "FAILED"]
                   /\ freed' = freed \cup {t}
              ELSE UNCHANGED <<tasks, freed>>
           /\ Reported(w, t)
           /\ GiveUp(w, t)
    /\ UNCHANGED <<conversation, clock, creating>>

\* The worker stops, or the request it waits for fails half way.
Crash(w) ==
    /\ worker[w].pc # "idle"
    /\ worker' = [worker EXCEPT ![w] = Resting]
    /\ UNCHANGED <<conversation, tasks, clock, creating, history>>

(***************************************************************************)
(* Conversations and time                                                  *)
(***************************************************************************)
\* A human takes the conversation over, or it returns to the AI.
ChangeOwner(c) ==
    /\ conversation[c].lifecycle # "gone"
    /\ conversation' = [conversation EXCEPT ![c].human = ~@]
    /\ UNCHANGED <<tasks, clock, creating, worker, history>>

\* deleteConversation of the dashboard: one statement deletes and pauses,
SoftDelete(c) ==
    /\ conversation[c].lifecycle = "live"
    /\ conversation' = [conversation EXCEPT ![c] = [lifecycle |-> "deleted", human |-> FALSE]]
    /\ UNCHANGED <<tasks, clock, creating, worker, history>>

\* and another one, unless the process dies before, cancels what is open.
CancelTasks(c) ==
    /\ conversation[c].lifecycle = "deleted"
    /\ conversation' = [conversation EXCEPT ![c].lifecycle = "cancelled"]
    /\ tasks' = [t \in Tasks |->
                    IF ConversationOf[t] = c /\ Status(t) \in {"PENDING", "CLAIMED"}
                    THEN [tasks[t] EXCEPT !.status = "CANCELLED"] ELSE tasks[t]]
    /\ UNCHANGED <<clock, creating, worker, history>>

\* A conversation deleted by its customer takes its tasks along (ON DELETE CASCADE).
HardDelete(c) ==
    /\ conversation[c].lifecycle # "gone"
    /\ conversation' = [conversation EXCEPT ![c] = [lifecycle |-> "gone", human |-> FALSE]]
    /\ tasks' = [t \in Tasks |-> IF ConversationOf[t] = c THEN None ELSE tasks[t]]
    /\ UNCHANGED <<clock, creating, worker, history>>

Tick ==
    /\ clock < MaxTime
    /\ clock' = clock + 1
    /\ UNCHANGED <<conversation, tasks, creating, worker, history>>

WorkerStep(w) ==
    \/ Poll(w) \/ List(w) \/ ReadModes(w) \/ ClaimTask(w) \/ HandOver(w)
    \/ MarkSent(w) \/ ReadForFailure(w) \/ MarkFailed(w) \/ Crash(w)

Next ==
    \/ \E u \in Turns : InsertFollowUp(u) \/ \E t \in Tasks : BeginFollowUp(u, t)
    \/ \E w \in Workers : WorkerStep(w)
    \/ \E c \in Conversations : ChangeOwner(c) \/ SoftDelete(c) \/ CancelTasks(c) \/ HardDelete(c)
    \/ Tick

Spec == Init /\ [][Next]_vars

(***************************************************************************)
(* Correctness                                                             *)
(***************************************************************************)
\* A task that was sent, failed for good or cancelled never changes again, however
\* late a report, a recovery or a claim arrives (the conditional updates); and a task
\* fails for good only after its last attempt, although markFailed decides that on
\* attempts it read earlier.
FailedIsExhausted ==
    \A t \in Tasks : Status(t) = "FAILED" => tasks[t].attempts = MaxAttempts
FinalStep ==
    /\ \A t \in Tasks :
          Status(t) \in Final => tasks'[t] \in {tasks[t], None}
    /\ FailedIsExhausted'
FinalIsFinal == [][FinalStep]_vars

\* A task is leased again only after the lease before it ran out or a failure was
\* reported for it: two workers that listed the same page never both get a task.
ClaimedAgain(t) == Status(t)' = "CLAIMED" /\ tasks'[t].attempts # tasks[t].attempts
TakeoverStep ==
    \A t \in Tasks :
        tasks[t] # None /\ ClaimedAgain(t) =>
            \/ t \in freed
            \/ \A l \in leases : l.task = t => l.at + Lease <= clock
TakeoverIsJustified == [][TakeoverStep]_vars

\* Once the dashboard has deleted a conversation and cancelled its follow-ups, none of
\* them is leased, not even one created after the cancellation.
DeletionStep ==
    \A t \in Tasks :
        tasks[t] # None /\ ClaimedAgain(t) =>
            Conversation(t).lifecycle \in {"live", "deleted"}
DeletionStopsClaims == [][DeletionStep]_vars

\* Two workers never hold running leases of one task.
Running(l) == l.at + Lease > clock
LeasedOnce ==
    \A k, l \in leases : k.task = l.task /\ Running(k) /\ Running(l) => k = l
=============================================================================
