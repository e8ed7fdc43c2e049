--------------------------- MODULE FollowUps_proofs ---------------------------
(***************************************************************************)
(* Proofs about FollowUps, for any number of conversations, tasks, workers *)
(* and turns, any number of attempts and any lease.  What the properties   *)
(* say of one step rests on four facts about every state: what markFailed  *)
(* has read stays true (Decided), a task that waits has no running lease   *)
(* (LeasesEnd), a listed task of a cancelled conversation is final         *)
(* (PagesStand), and a conversation that is gone has no tasks.             *)
(***************************************************************************)
EXTENDS FollowUps, TLAPS

Gone(t) == Conversation(t).lifecycle = "gone"

\* markFailed gives a task up for good on attempts it read before.
DecidedBy(w) ==
  worker[w].pc = "fail" =>
    /\ worker[w].job \in Tasks
    /\ ~worker[w].retryable =>
         IF tasks[worker[w].job] = None THEN Gone(worker[w].job)
         ELSE tasks[worker[w].job].attempts = MaxAttempts

LeaseEnded(t) ==
  /\ tasks[t] = None => Gone(t) \/ \A l \in leases : l.task # t
  /\ Status(t) = "PENDING" => t \in freed \/ \A l \in leases : l.task = t => l.at + Lease <= clock
  /\ Status(t) = "CLAIMED" => \A l \in leases : l.task = t => l.at <= tasks[t].claimedAt

PageStands(w) ==
  \A t \in worker[w].page :
    /\ tasks[t] = None => Gone(t)
    /\ Conversation(t).lifecycle = "cancelled" => Status(t) \in Final

Decided == \A w \in Workers : DecidedBy(w)
LeasesEnd == (\A t \in Tasks : LeaseEnded(t)) /\ (\A l \in leases : l.at <= clock)
PagesStand == \A w \in Workers : PageStands(w)
GoneIsEmpty == \A t \in Tasks : Gone(t) => tasks[t] = None

Inv == TypeOK /\ FailedIsExhausted /\ Decided /\ LeasesEnd /\ PagesStand /\ GoneIsEmpty

(***************************************************************************)
(* How a worker moves                                                       *)
(***************************************************************************)
LEMMA NoneIsNoTask == \A r \in TaskRow : r # None
  BY NoTaskAssumption

\* The worker of a report goes on to rest or to its other tasks.
LEMMA ReportedMoves ==
  ASSUME NEW w \in Workers, NEW t \in Tasks, TypeOK, t \in worker[w].hand, Reported(w, t)
  PROVE  /\ worker' \in [Workers -> WorkerState]
         /\ \A v \in Workers : v # w => worker'[v] = worker[v]
         /\ worker'[w].pc \in {"idle", "work"} /\ worker'[w].page = {}
<1>1. PICK kept \in {{}, {t}} :
        worker' = [worker EXCEPT ![w] =
          LET hand == (worker[w].hand \ {t}) \cup kept
          IN  IF hand = {} THEN Resting ELSE [Resting EXCEPT !.pc = "work", !.hand = hand]]
  BY DEF Reported
<1> DEFINE hand == (worker[w].hand \ {t}) \cup kept
<1>2. hand \in SUBSET Tasks
  BY DEF TypeOK, WorkerState
<1>3. Resting \in WorkerState /\ [Resting EXCEPT !.pc = "work", !.hand = hand] \in WorkerState
  BY <1>2 DEF Resting, WorkerState
<1>. QED  BY <1>1, <1>3 DEF TypeOK, Resting

LEMMA InitInv == Init => Inv
<1> SUFFICES ASSUME Init PROVE Inv
  OBVIOUS
<1>1. TypeOK
  BY DEF Init, TypeOK, Resting, WorkerState, ConversationRow
<1>2. FailedIsExhausted /\ Decided /\ LeasesEnd /\ PagesStand /\ GoneIsEmpty
  BY DEF Init, FailedIsExhausted, Status, Decided, DecidedBy, LeasesEnd, LeaseEnded, PagesStand,
         PageStands, GoneIsEmpty, Resting
<1>. QED  BY <1>1, <1>2 DEF Inv

(***************************************************************************)
(* Steps that write no task, lease or conversation                         *)
(***************************************************************************)
\* A worker moves on: it stays out of "fail", and its page only shrinks.
LEMMA WorkerMoves ==
  ASSUME Inv, NEW w \in Workers, worker' \in [Workers -> WorkerState],
         \A v \in Workers : v # w => worker'[v] = worker[v],
         worker'[w].pc # "fail", worker'[w].page \subseteq worker[w].page,
         UNCHANGED <<conversation, tasks, clock, creating, history>>
  PROVE  Inv'
<1>1. TypeOK' /\ FailedIsExhausted' /\ LeasesEnd' /\ GoneIsEmpty'
  BY DEF Inv, TypeOK, FailedIsExhausted, LeasesEnd, LeaseEnded, GoneIsEmpty, Gone, Conversation, Status,
         history
<1>2. ASSUME NEW v \in Workers PROVE DecidedBy(v)'
  BY DEF Inv, Decided, DecidedBy, Gone, Conversation
<1>3. ASSUME NEW v \in Workers PROVE PageStands(v)'
  BY DEF Inv, PagesStand, PageStands, Gone, Conversation, Status
<1>. QED  BY <1>1, <1>2, <1>3 DEF Inv, Decided, PagesStand

LEMMA ListInv ==
  ASSUME Inv, NEW w \in Workers, List(w)
  PROVE  Inv'
<1>1. PICK page \in SUBSET {t \in Tasks : Due(t)} :
        worker' = [worker EXCEPT ![w] = [@ EXCEPT !.pc = "modes", !.page = page]]
  BY DEF List
<1>2. worker' \in [Workers -> WorkerState]
  BY <1>1 DEF Inv, TypeOK, WorkerState
<1>3. TypeOK' /\ FailedIsExhausted' /\ LeasesEnd' /\ GoneIsEmpty'
  BY <1>2 DEF List, Inv, TypeOK, FailedIsExhausted, LeasesEnd, LeaseEnded, GoneIsEmpty, Gone, Conversation,
              Status, history
<1>4. ASSUME NEW v \in Workers PROVE DecidedBy(v)'
  BY <1>1, <1>2 DEF List, Inv, TypeOK, WorkerState, Decided, DecidedBy, Gone, Conversation
<1>5. ASSUME NEW v \in Workers PROVE PageStands(v)'
  <2>1. CASE v = w
    <3>1. worker'[v].page = page
      BY <1>1, <2>1 DEF Inv, TypeOK, WorkerState
    <3>. QED  BY <3>1 DEF List, PageStands, Due, Status, Gone, Conversation
  <2>2. CASE v # w
    BY <1>1, <2>2 DEF List, Inv, TypeOK, PagesStand, PageStands, Gone, Conversation, Status
  <2>. QED  BY <2>1, <2>2
<1>. QED  BY <1>3, <1>4, <1>5 DEF Inv, Decided, PagesStand

LEMMA MovesInv ==
  ASSUME Inv, NEW w \in Workers, ReadModes(w) \/ HandOver(w) \/ Crash(w)
  PROVE  Inv'
<1>1. Resting \in WorkerState
  BY DEF Resting, WorkerState
<1>2. CASE ReadModes(w)
  <2>1. CASE \E t \in worker[w].page : Conversation(t).lifecycle = "gone"
    BY <1>1, <1>2, <2>1, WorkerMoves DEF ReadModes, Resting, Inv, TypeOK
  <2>2. CASE ~\E t \in worker[w].page : Conversation(t).lifecycle = "gone"
    <3> DEFINE kept == {t \in worker[w].page : ~Conversation(t).human}
               moved == [worker[w] EXCEPT !.pc = "claim", !.page = kept]
    <3>1. worker' = [worker EXCEPT ![w] = moved]
      BY <1>2, <2>2 DEF ReadModes
    <3>2. kept \subseteq worker[w].page
      OBVIOUS
    <3> HIDE DEF kept
    <3>3. moved \in WorkerState /\ moved.pc = "claim" /\ moved.page = kept
      BY <3>2 DEF Inv, TypeOK, WorkerState
    <3>4. /\ worker' \in [Workers -> WorkerState] /\ worker'[w] = moved
          /\ \A v \in Workers : v # w => worker'[v] = worker[v]
      BY <3>1, <3>3 DEF Inv, TypeOK
    <3>. QED  BY <1>2, <3>2, <3>3, <3>4, WorkerMoves DEF ReadModes
  <2>. QED  BY <2>1, <2>2
<1>3. CASE HandOver(w)
  <2> DEFINE moved == [worker[w] EXCEPT !.pc = IF worker[w].hand = {} THEN "idle" ELSE "work"]
  <2>1. moved \in WorkerState /\ moved.pc # "fail" /\ moved.page = worker[w].page
    BY DEF Inv, TypeOK, WorkerState
  <2>2. worker' = [worker EXCEPT ![w] = moved]
    BY <1>3 DEF HandOver
  <2>. QED  BY <1>3, <2>1, <2>2, WorkerMoves DEF HandOver, Inv, TypeOK
<1>4. CASE Crash(w)
  BY <1>1, <1>4, WorkerMoves DEF Crash, Resting, Inv, TypeOK
<1>. QED  BY <1>2, <1>3, <1>4

LEMMA ReadForFailureInv ==
  ASSUME Inv, NEW w \in Workers, ReadForFailure(w)
  PROVE  Inv'
<1>1. PICK t \in worker[w].hand :
        IF Status(t) \in {"none", "SENT", "FAILED"} THEN Reported(w, t)
        ELSE worker' = [worker EXCEPT ![w] = [@ EXCEPT !.pc = "fail", !.job = t, !.retryable = HasAttempts(t)]]
  BY DEF ReadForFailure
<1>2. t \in Tasks
  BY DEF Inv, TypeOK, WorkerState
<1>3. CASE Status(t) \in {"none", "SENT", "FAILED"}
  BY <1>1, <1>2, <1>3, ReportedMoves, WorkerMoves DEF ReadForFailure, Inv
<1>4. CASE Status(t) \notin {"none", "SENT", "FAILED"}
  <2> DEFINE again == HasAttempts(t)
             moved == [worker[w] EXCEPT !.pc = "fail", !.job = t, !.retryable = again]
  <2>2. worker' = [worker EXCEPT ![w] = moved]
    BY <1>1, <1>4
  <2>0. again \in BOOLEAN /\ (again <=> HasAttempts(t))
    BY DEF HasAttempts
  <2> HIDE DEF again
  <2>1. /\ moved \in WorkerState /\ moved.page = worker[w].page
        /\ moved.pc = "fail" /\ moved.job = t /\ moved.retryable = again
    BY <1>2, <2>0 DEF Inv, TypeOK, WorkerState
  <2>3. worker' \in [Workers -> WorkerState]
    BY <2>1, <2>2 DEF Inv, TypeOK
  <2>4. TypeOK' /\ FailedIsExhausted' /\ LeasesEnd' /\ GoneIsEmpty'
    BY <2>3 DEF ReadForFailure, Inv, TypeOK, FailedIsExhausted, LeasesEnd, LeaseEnded, GoneIsEmpty, Gone,
                Conversation, Status, history
  <2>5. tasks[t] \in TaskRow /\ tasks[t] # None
    BY <1>2, <1>4 DEF Status, Inv, TypeOK
  <2>6. ~HasAttempts(t) => tasks[t].attempts = MaxAttempts
    BY <2>5, BoundsAssumption DEF HasAttempts, TaskRow
  <2>7. ASSUME NEW v \in Workers PROVE DecidedBy(v)'
    <3>1. CASE v = w
      <4>1. worker'[v] = moved
        BY <2>2, <3>1 DEF Inv, TypeOK
      <4>. QED  BY <1>2, <2>0, <2>1, <2>5, <2>6, <4>1 DEF DecidedBy, ReadForFailure
    <3>2. CASE v # w
      BY <2>2, <3>2 DEF ReadForFailure, Inv, TypeOK, Decided, DecidedBy, Gone, Conversation
    <3>. QED  BY <3>1, <3>2
  <2>8. ASSUME NEW v \in Workers PROVE PageStands(v)'
    BY <2>1, <2>2 DEF ReadForFailure, Inv, TypeOK, PagesStand, PageStands, Gone, Conversation, Status
  <2>. QED  BY <2>4, <2>7, <2>8 DEF Inv, Decided, PagesStand
<1>. QED  BY <1>3, <1>4

(***************************************************************************)
(* Steps that write tasks                                                  *)
(***************************************************************************)
LEMMA BeginFollowUpInv ==
  ASSUME Inv, NEW u \in Turns, NEW t \in Tasks, BeginFollowUp(u, t)
  PROVE  Inv'
<1>1. creating' \in [Turns -> Tasks \cup {None}]
  BY DEF BeginFollowUp, Inv, TypeOK
<1>. QED
  BY <1>1 DEF BeginFollowUp, Inv, TypeOK, FailedIsExhausted, Decided, DecidedBy, LeasesEnd, LeaseEnded, PagesStand,
              PageStands, GoneIsEmpty, Gone, Conversation, Status, history

LEMMA InsertFollowUpInv ==
  ASSUME Inv, NEW u \in Turns, InsertFollowUp(u)
  PROVE  Inv'
<1>0. creating[u] \in Tasks
  BY DEF InsertFollowUp, Inv, TypeOK
<1> SUFFICES ASSUME NEW t \in Tasks, t = creating[u] PROVE Inv'
  BY <1>0
<1> DEFINE new == [status |-> "PENDING", attempts |-> 0, claimedAt |-> 0]
<1>1. new \in TaskRow /\ new # None
  BY NoTaskAssumption, BoundsAssumption DEF TaskRow, Statuses
<1>2. CASE tasks[t] = None /\ ~Gone(t)
  <2>1. tasks' = [tasks EXCEPT ![t] = new]
    BY <1>2 DEF InsertFollowUp, Gone
  <2>2. tasks' \in [Tasks -> TaskRow \cup {None}] /\ creating' \in [Turns -> Tasks \cup {None}]
    BY <1>1, <2>1 DEF InsertFollowUp, Inv, TypeOK
  <2>3. /\ tasks'[t] = new /\ Status(t)' = "PENDING"
        /\ \A k \in Tasks : k # t => tasks'[k] = tasks[k] /\ Status(k)' = Status(k)
    BY <1>1, <2>1 DEF Inv, TypeOK, Status
  <2>4. TypeOK' /\ FailedIsExhausted' /\ GoneIsEmpty'
    BY <1>1, <1>2, <2>2, <2>3 DEF InsertFollowUp, Inv, TypeOK, FailedIsExhausted, GoneIsEmpty, Gone, Conversation,
                                  history
  <2>5. ASSUME NEW k \in Tasks PROVE LeaseEnded(k)'
    <3>1. CASE k = t
      BY <1>1, <1>2, <2>3, <3>1 DEF InsertFollowUp, Inv, LeasesEnd, LeaseEnded, history
    <3>2. CASE k # t
      BY <2>3, <3>2 DEF InsertFollowUp, Inv, LeasesEnd, LeaseEnded, Gone, Conversation, history
    <3>. QED  BY <3>1, <3>2
  <2>6. ASSUME NEW w \in Workers PROVE DecidedBy(w)'
    BY <1>2, <2>3 DEF InsertFollowUp, Inv, Decided, DecidedBy, Gone, Conversation
  <2>7. ASSUME NEW w \in Workers PROVE PageStands(w)'
    BY <1>2, <2>3 DEF InsertFollowUp, Inv, TypeOK, WorkerState, PagesStand, PageStands, Gone, Conversation
  <2>. QED  BY <2>4, <2>5, <2>6, <2>7 DEF InsertFollowUp, Inv, Decided, LeasesEnd, PagesStand, history
<1>3. CASE ~(tasks[t] = None /\ ~Gone(t))
  <2>1. UNCHANGED tasks /\ creating' \in [Turns -> Tasks \cup {None}]
    BY <1>3 DEF InsertFollowUp, Inv, TypeOK, Gone
  <2>. QED
    BY <2>1 DEF InsertFollowUp, Inv, TypeOK, FailedIsExhausted, Decided, DecidedBy, LeasesEnd, LeaseEnded, PagesStand,
                PageStands, GoneIsEmpty, Gone, Conversation, Status, history
<1>. QED  BY <1>2, <1>3

LEMMA PollInv ==
  ASSUME Inv, NEW w \in Workers, Poll(w)
  PROVE  Inv'
<1> DEFINE recovered(t) == Status(t) = "CLAIMED" /\ LeaseExpired(t) /\ HasAttempts(t)
<1>1. \A t \in Tasks : tasks'[t] = IF recovered(t) THEN [tasks[t] EXCEPT !.status = "PENDING"] ELSE tasks[t]
  BY DEF Poll
<1>2. \A t \in Tasks : recovered(t) => tasks[t] \in TaskRow /\ tasks[t].status = "CLAIMED"
  BY DEF Status, Inv, TypeOK
<1>3. ASSUME NEW t \in Tasks, recovered(t)
      PROVE  /\ tasks'[t] \in TaskRow /\ tasks'[t] # None /\ tasks'[t].status = "PENDING"
             /\ tasks'[t].attempts = tasks[t].attempts /\ tasks[t].attempts < MaxAttempts
             /\ Status(t) = "CLAIMED" /\ Status(t)' = "PENDING"
  BY <1>1, <1>2, <1>3, NoTaskAssumption DEF TaskRow, Statuses, Status, HasAttempts
<1>4. \A t \in Tasks : ~recovered(t) => tasks'[t] = tasks[t] /\ Status(t)' = Status(t)
  BY <1>1 DEF Status
<1>5. worker' \in [Workers -> WorkerState]
  BY DEF Poll, Inv, TypeOK, WorkerState
<1>6. tasks' \in [Tasks -> TaskRow \cup {None}]
  <2>1. \A t \in Tasks : tasks'[t] \in TaskRow \cup {None}
    BY <1>3, <1>4 DEF Inv, TypeOK
  <2>. QED  BY <2>1 DEF Poll
<1>7. TypeOK' /\ FailedIsExhausted' /\ GoneIsEmpty'
  <2>1. TypeOK'
    BY <1>5, <1>6 DEF Poll, Inv, TypeOK, history
  <2>2. FailedIsExhausted'
    BY <1>3, <1>4 DEF Inv, FailedIsExhausted
  <2>3. GoneIsEmpty'
    BY <1>2, <1>4, NoTaskAssumption DEF Poll, Inv, GoneIsEmpty, Gone, Conversation
  <2>. QED  BY <2>1, <2>2, <2>3
<1>8. ASSUME NEW t \in Tasks PROVE LeaseEnded(t)'
  <2>1. CASE recovered(t)
    <3>1. \A l \in leases : l.task = t => l.at \in Nat /\ l.at <= tasks[t].claimedAt
      BY <1>3, <2>1 DEF Inv, TypeOK, LeasesEnd, LeaseEnded
    <3>2. tasks[t].claimedAt \in Nat /\ tasks[t].claimedAt + Lease <= clock
      BY <1>2, <2>1 DEF TaskRow, LeaseExpired
    <3>3. \A l \in leases : l.task = t => l.at + Lease <= clock
      BY <3>1, <3>2, BoundsAssumption DEF Inv, TypeOK
    <3>. QED  BY <1>3, <2>1, <3>3 DEF Poll, LeaseEnded, history
  <2>2. CASE ~recovered(t)
    BY <1>4, <2>2 DEF Poll, Inv, LeasesEnd, LeaseEnded, Gone, Conversation, history
  <2>. QED  BY <2>1, <2>2
<1>9. ASSUME NEW v \in Workers PROVE DecidedBy(v)'
  <2>1. worker'[v].pc = "fail" => worker'[v] = worker[v]
    BY DEF Poll, Inv, TypeOK, WorkerState
  <2>. QED  BY <1>2, <1>3, <1>4, <2>1, NoTaskAssumption DEF Poll, Inv, Decided, DecidedBy, Gone, Conversation
<1>10. ASSUME NEW v \in Workers PROVE PageStands(v)'
  <2>1. worker'[v].page = worker[v].page /\ worker[v].page \subseteq Tasks
    BY DEF Poll, Inv, TypeOK, WorkerState
  <2>2. \A t \in Tasks : recovered(t) => Status(t) \notin Final
    BY DEF Final
  <2>3. ASSUME NEW t \in worker[v].page
        PROVE  /\ tasks'[t] = None => Gone(t)
               /\ Conversation(t).lifecycle = "cancelled" => Status(t)' \in Final
    <3>1. t \in Tasks /\ PageStands(v)
      BY <2>1 DEF Inv, PagesStand
    <3>2. CASE recovered(t)
      BY <1>3, <2>2, <3>1, <3>2 DEF PageStands
    <3>3. CASE ~recovered(t)
      BY <1>4, <3>1, <3>3 DEF PageStands
    <3>. QED  BY <3>2, <3>3
  <2>4. \A t \in Tasks : Conversation(t)' = Conversation(t) /\ (Gone(t)' <=> Gone(t))
    BY DEF Poll, Conversation, Gone
  <2>. QED  BY <2>1, <2>3, <2>4 DEF PageStands
<1>. QED  BY <1>7, <1>8, <1>9, <1>10 DEF Poll, Inv, Decided, LeasesEnd, PagesStand, history

LEMMA ClaimTaskInv ==
  ASSUME Inv, NEW w \in Workers, ClaimTask(w)
  PROVE  Inv'
<1>1. PICK t \in worker[w].page :
        IF Claimable(t)
        THEN /\ tasks' = [tasks EXCEPT ![t] = [status |-> "CLAIMED", claimedAt |-> clock,
                                              attempts |-> tasks[t].attempts + 1]]
             /\ worker' = [worker EXCEPT ![w].page = worker[w].page \ {t}, ![w].hand = worker[w].hand \cup {t}]
             /\ leases' = {l \in leases : l.worker # w \/ l.task # t}
                             \cup {[worker |-> w, task |-> t, at |-> clock]}
             /\ freed' = freed \ {t}
        ELSE /\ worker' = [worker EXCEPT ![w].page = @ \ {t}]
             /\ UNCHANGED <<tasks, history>>
  BY DEF ClaimTask
<1>2. t \in Tasks /\ worker[w] \in WorkerState /\ worker[w].pc = "claim"
  BY DEF ClaimTask, Inv, TypeOK, WorkerState
<1>3. CASE Claimable(t)
  <2> DEFINE new == [status |-> "CLAIMED", claimedAt |-> clock, attempts |-> tasks[t].attempts + 1]
             moved == [worker[w] EXCEPT !.page = worker[w].page \ {t}, !.hand = worker[w].hand \cup {t}]
  <2>1. tasks[t] \in TaskRow /\ tasks[t].attempts < MaxAttempts /\ tasks[t].status = "PENDING"
    BY <1>2, <1>3 DEF Claimable, HasAttempts, Status, Inv, TypeOK
  <2>2. new \in TaskRow /\ new # None
    BY <2>1, BoundsAssumption, NoTaskAssumption DEF TaskRow, Statuses, Inv, TypeOK
  <2>3. /\ tasks' \in [Tasks -> TaskRow \cup {None}]
        /\ tasks'[t] = new /\ Status(t)' = "CLAIMED"
        /\ \A k \in Tasks : k # t => tasks'[k] = tasks[k] /\ Status(k)' = Status(k)
    BY <1>1, <1>2, <1>3, <2>2 DEF Inv, TypeOK, Status
  <2>4. /\ moved \in WorkerState /\ moved.page \subseteq worker[w].page /\ moved.pc = "claim"
    BY <1>2 DEF WorkerState
  <2>5. worker' = [worker EXCEPT ![w] = moved]
    BY <1>1, <1>2, <1>3 DEF WorkerState
  <2>6. /\ worker' \in [Workers -> WorkerState] /\ worker'[w] = moved
        /\ \A v \in Workers : v # w => worker'[v] = worker[v]
    BY <2>4, <2>5 DEF Inv, TypeOK
  <2>7. /\ leases' \in SUBSET [worker : Workers, task : Tasks, at : Nat]
        /\ \A l \in leases' : l \in leases \/ (l.task = t /\ l.at = clock)
    BY <1>1, <1>2, <1>3 DEF Inv, TypeOK
  <2>8. TypeOK'
    BY <1>1, <1>3, <2>3, <2>6, <2>7 DEF ClaimTask, Inv, TypeOK
  <2>9. FailedIsExhausted' /\ GoneIsEmpty'
    BY <2>1, <2>3, NoTaskAssumption DEF ClaimTask, Inv, FailedIsExhausted, GoneIsEmpty, Gone, Conversation
  <2>10. \A l \in leases' : l.at <= clock'
    BY <2>7 DEF ClaimTask, Inv, TypeOK, LeasesEnd
  <2>11. ASSUME NEW k \in Tasks PROVE LeaseEnded(k)'
    <3>1. CASE k = t
      <4>1. \A l \in leases' : l.at <= clock
        BY <2>10 DEF ClaimTask
      <4>. QED  BY <2>2, <2>3, <3>1, <4>1 DEF LeaseEnded
    <3>2. CASE k # t
      <4>1. \A l \in leases' : l.task = k => l \in leases
        BY <2>7, <3>2
      <4>2. freed' = freed \ {t}
        BY <1>1, <1>3
      <4>. QED  BY <2>3, <3>2, <4>1, <4>2 DEF ClaimTask, Inv, LeasesEnd, LeaseEnded, Gone, Conversation
    <3>. QED  BY <3>1, <3>2
  <2>12. ASSUME NEW v \in Workers PROVE DecidedBy(v)'
    <3>1. CASE v = w
      BY <2>4, <2>6, <3>1 DEF DecidedBy
    <3>2. CASE v # w
      BY <2>1, <2>3, <2>6, <3>2, BoundsAssumption, NoTaskAssumption DEF ClaimTask, Inv, Decided, DecidedBy, Gone,
                                                                        Conversation, TaskRow
    <3>. QED  BY <3>1, <3>2
  <2>13. ASSUME NEW v \in Workers PROVE PageStands(v)'
    <3>1. worker'[v].page \subseteq worker[v].page /\ worker[v].page \subseteq Tasks
      BY <2>4, <2>6 DEF Inv, TypeOK, WorkerState
    <3>2. Conversation(t).lifecycle # "cancelled"
      BY <1>1, <1>3 DEF Claimable, Final, Inv, PagesStand, PageStands
    <3>3. \A k \in Tasks : Conversation(k)' = Conversation(k) /\ (Gone(k)' <=> Gone(k))
      BY DEF ClaimTask, Conversation, Gone
    <3>. QED  BY <2>2, <2>3, <3>1, <3>2, <3>3 DEF Inv, PagesStand, PageStands
  <2>. QED  BY <2>8, <2>9, <2>10, <2>11, <2>12, <2>13 DEF Inv, Decided, LeasesEnd, PagesStand
<1>4. CASE ~Claimable(t)
  <2> DEFINE moved == [worker[w] EXCEPT !.page = worker[w].page \ {t}]
  <2>1. moved \in WorkerState /\ moved.page \subseteq worker[w].page /\ moved.pc = "claim"
    BY <1>2 DEF WorkerState
  <2>2. worker' = [worker EXCEPT ![w] = moved]
    BY <1>1, <1>4
  <2>. QED  BY <1>1, <1>4, <2>1, <2>2, WorkerMoves DEF ClaimTask, Inv, TypeOK
<1>. QED  BY <1>3, <1>4

\* A report removes leases of the reporting worker only.
LEMMA GiveUpEnds ==
  ASSUME NEW w \in Workers, NEW t \in Tasks, GiveUp(w, t)
  PROVE  leases' \subseteq leases
  BY DEF GiveUp

\* A report that ends a task, or changes nothing.
LEMMA ReportInv ==
  ASSUME Inv, NEW w \in Workers, NEW t \in Tasks,
         worker' \in [Workers -> WorkerState], worker'[w].pc # "fail", worker'[w].page = {},
         \A v \in Workers : v # w => worker'[v] = worker[v],
         leases' \subseteq leases, UNCHANGED <<conversation, clock, creating>>,
         NEW status \in {"PENDING", "SENT", "FAILED"},
         IF Status(t) = "CLAIMED" THEN tasks' = [tasks EXCEPT ![t].status = status] ELSE UNCHANGED tasks,
         IF Status(t) = "CLAIMED" /\ status # "SENT" THEN freed' = freed \cup {t} ELSE UNCHANGED freed,
         Status(t) = "CLAIMED" /\ status = "FAILED" => tasks[t].attempts = MaxAttempts
  PROVE  Inv'
<1>1. /\ tasks' \in [Tasks -> TaskRow \cup {None}]
      /\ \A k \in Tasks : k # t \/ Status(t) # "CLAIMED" => tasks'[k] = tasks[k] /\ Status(k)' = Status(k)
      /\ Status(t) = "CLAIMED" => /\ tasks[t] \in TaskRow /\ tasks'[t] \in TaskRow /\ tasks'[t] # None
                                 /\ tasks'[t].attempts = tasks[t].attempts
                                 /\ tasks'[t].status = status /\ Status(t)' = status
  <2>1. CASE Status(t) = "CLAIMED"
    <3> DEFINE new == [tasks[t] EXCEPT !.status = status]
    <3>1. tasks[t] \in TaskRow
      BY <2>1 DEF Status, Inv, TypeOK
    <3>2. new \in TaskRow /\ new # None /\ new.attempts = tasks[t].attempts /\ new.status = status
      BY <3>1, NoTaskAssumption DEF TaskRow, Statuses
    <3>3. tasks' = [tasks EXCEPT ![t] = new]
      BY <2>1
    <3>. QED  BY <2>1, <3>1, <3>2, <3>3 DEF Status, Inv, TypeOK
  <2>2. CASE Status(t) # "CLAIMED"
    BY <2>2 DEF Status, Inv, TypeOK
  <2>. QED  BY <2>1, <2>2
<1>2. TypeOK' /\ FailedIsExhausted' /\ GoneIsEmpty'
  <2>1. TypeOK'
    BY <1>1 DEF Inv, TypeOK
  <2>2. FailedIsExhausted'
    BY <1>1 DEF Inv, FailedIsExhausted
  <2>3. GoneIsEmpty'
    BY <1>1, NoTaskAssumption DEF Inv, GoneIsEmpty, Gone, Conversation
  <2>. QED  BY <2>1, <2>2, <2>3
<1>3. ASSUME NEW k \in Tasks PROVE LeaseEnded(k)'
  <2>1. CASE k = t /\ Status(t) = "CLAIMED"
    BY <1>1, <2>1 DEF LeaseEnded
  <2>2. CASE ~(k = t /\ Status(t) = "CLAIMED")
    BY <1>1, <2>2 DEF Inv, LeasesEnd, LeaseEnded, Gone, Conversation
  <2>. QED  BY <2>1, <2>2
<1>4. ASSUME NEW v \in Workers PROVE DecidedBy(v)'
  BY <1>1, NoTaskAssumption DEF Inv, Decided, DecidedBy, Gone, Conversation
<1>5. ASSUME NEW v \in Workers PROVE PageStands(v)'
  <2>1. worker'[v].page \subseteq worker[v].page /\ worker[v].page \subseteq Tasks
    BY DEF Inv, TypeOK, WorkerState
  <2>2. \A k \in Tasks : Conversation(k)' = Conversation(k) /\ (Gone(k)' <=> Gone(k))
    BY DEF Conversation, Gone
  <2>3. Status(t) = "CLAIMED" => Status(t) \notin Final
    BY DEF Final
  <2>. QED  BY <1>1, <2>1, <2>2, <2>3 DEF Inv, PagesStand, PageStands
<1>. QED  BY <1>2, <1>3, <1>4, <1>5 DEF Inv, TypeOK, Decided, LeasesEnd, PagesStand

LEMMA MarkSentInv ==
  ASSUME Inv, NEW w \in Workers, MarkSent(w)
  PROVE  Inv'
<1>1. PICK t \in worker[w].hand :
        /\ tasks' = IF Reportable(t) THEN [tasks EXCEPT ![t].status = "SENT"] ELSE tasks
        /\ Reported(w, t) /\ GiveUp(w, t)
  BY DEF MarkSent
<1>2. t \in Tasks /\ TypeOK
  BY DEF Inv, TypeOK, WorkerState
<1>3. /\ worker' \in [Workers -> WorkerState] /\ worker'[w].pc # "fail" /\ worker'[w].page = {}
      /\ \A v \in Workers : v # w => worker'[v] = worker[v]
  BY <1>1, <1>2, ReportedMoves
<1>. QED  BY <1>1, <1>2, <1>3, GiveUpEnds, ReportInv DEF MarkSent, Reportable

LEMMA MarkFailedInv ==
  ASSUME Inv, NEW w \in Workers, MarkFailed(w)
  PROVE  Inv'
<1> DEFINE ending == IF worker[w].retryable THEN "PENDING" ELSE "FAILED"
<1>1. worker[w].job \in Tasks /\ worker[w] \in WorkerState
  BY DEF MarkFailed, Inv, TypeOK, Decided, DecidedBy
<1> SUFFICES ASSUME NEW t \in Tasks, t = worker[w].job PROVE Inv'
  BY <1>1
<1>2. Reported(w, t) /\ GiveUp(w, t)
  BY DEF MarkFailed
<1>3. /\ worker' \in [Workers -> WorkerState] /\ worker'[w].pc \in {"idle", "work"} /\ worker'[w].page = {}
      /\ \A v \in Workers : v # w => worker'[v] = worker[v]
  <2>1. PICK kept \in {{}, {t}} :
          worker' = [worker EXCEPT ![w] =
            LET hand == (worker[w].hand \ {t}) \cup kept
            IN  IF hand = {} THEN Resting ELSE [Resting EXCEPT !.pc = "work", !.hand = hand]]
    BY <1>2 DEF Reported
  <2> DEFINE hand == (worker[w].hand \ {t}) \cup kept
  <2>2. Resting \in WorkerState /\ [Resting EXCEPT !.pc = "work", !.hand = hand] \in WorkerState
    BY <1>1 DEF Resting, WorkerState
  <2>. QED  BY <2>1, <2>2 DEF Inv, TypeOK, Resting
<1>4. IF Status(t) = "CLAIMED" THEN tasks' = [tasks EXCEPT ![t].status = ending] /\ freed' = freed \cup {t}
      ELSE UNCHANGED <<tasks, freed>>
  BY DEF MarkFailed, Reportable
<1>5. Status(t) = "CLAIMED" /\ ending = "FAILED" => tasks[t].attempts = MaxAttempts
  <2>1. Status(t) = "CLAIMED" => tasks[t] # None
    BY DEF Status
  <2>. QED  BY <2>1 DEF MarkFailed, Inv, Decided, DecidedBy
<1>6. leases' \subseteq leases /\ UNCHANGED <<conversation, clock, creating>>
  BY <1>2, GiveUpEnds DEF MarkFailed
<1>. QED  BY <1>3, <1>4, <1>5, <1>6, ReportInv

(***************************************************************************)
(* Conversations and time                                                  *)
(***************************************************************************)
LEMMA ConversationInv ==
  ASSUME Inv, NEW c \in Conversations, ChangeOwner(c) \/ SoftDelete(c)
  PROVE  Inv'
<1>1. conversation' \in [Conversations -> ConversationRow]
  <2>1. CASE ChangeOwner(c)
    <3> DEFINE other == ~conversation[c].human
               moved == [conversation[c] EXCEPT !.human = other]
    <3>1. conversation' = [conversation EXCEPT ![c] = moved]
      BY <2>1 DEF ChangeOwner
    <3>2. other \in BOOLEAN
      OBVIOUS
    <3> HIDE DEF other
    <3>3. moved \in ConversationRow
      BY <3>2 DEF Inv, TypeOK, ConversationRow
    <3>. QED  BY <3>1, <3>3 DEF Inv, TypeOK
  <2>2. CASE SoftDelete(c)
    BY <2>2 DEF SoftDelete, Inv, TypeOK, ConversationRow
  <2>. QED  BY <2>1, <2>2
<1>2. \A t \in Tasks :
        /\ Gone(t)' <=> Gone(t)
        /\ Conversation(t)'.lifecycle = "cancelled" => Conversation(t).lifecycle = "cancelled"
  BY ConversationAssumption DEF ChangeOwner, SoftDelete, Gone, Conversation, Inv, TypeOK, ConversationRow
<1>3. UNCHANGED <<tasks, clock, creating, worker, leases, freed>> /\ \A t \in Tasks : Status(t)' = Status(t)
  BY DEF ChangeOwner, SoftDelete, history, Status
<1>4. TypeOK' /\ FailedIsExhausted' /\ GoneIsEmpty'
  BY <1>1, <1>2, <1>3 DEF Inv, TypeOK, FailedIsExhausted, GoneIsEmpty
<1>5. ASSUME NEW t \in Tasks PROVE LeaseEnded(t)'
  BY <1>2, <1>3 DEF Inv, LeasesEnd, LeaseEnded
<1>6. ASSUME NEW v \in Workers PROVE DecidedBy(v)' /\ PageStands(v)'
  BY <1>2, <1>3 DEF Inv, TypeOK, WorkerState, Decided, DecidedBy, PagesStand, PageStands
<1>. QED  BY <1>3, <1>4, <1>5, <1>6 DEF Inv, Decided, LeasesEnd, PagesStand

LEMMA CancelTasksInv ==
  ASSUME Inv, NEW c \in Conversations, CancelTasks(c)
  PROVE  Inv'
<1> DEFINE open(t) == ConversationOf[t] = c /\ Status(t) \in {"PENDING", "CLAIMED"}
<1>1. conversation' \in [Conversations -> ConversationRow]
  BY DEF CancelTasks, Inv, TypeOK, ConversationRow
<1>2. ASSUME NEW t \in Tasks, open(t)
      PROVE  /\ tasks[t] \in TaskRow /\ tasks'[t] \in TaskRow /\ tasks[t] # None /\ tasks'[t] # None
             /\ tasks'[t].attempts = tasks[t].attempts /\ tasks'[t].status = "CANCELLED"
             /\ Status(t)' = "CANCELLED"
  <2>1. tasks[t] \in TaskRow
    BY <1>2 DEF Status, Inv, TypeOK
  <2>2. tasks'[t] = [tasks[t] EXCEPT !.status = "CANCELLED"]
    BY <1>2 DEF CancelTasks
  <2>. QED  BY <2>1, <2>2, NoTaskAssumption DEF TaskRow, Statuses, Status
<1>3. \A t \in Tasks : ~open(t) => tasks'[t] = tasks[t] /\ Status(t)' = Status(t)
  BY DEF CancelTasks, Status
<1>4. tasks' \in [Tasks -> TaskRow \cup {None}]
  <2>1. \A t \in Tasks : tasks'[t] \in TaskRow \cup {None}
    BY <1>2, <1>3 DEF Inv, TypeOK
  <2>. QED  BY <2>1 DEF CancelTasks
<1>5. \A t \in Tasks :
        /\ Gone(t)' <=> Gone(t)
        /\ Conversation(t)'.lifecycle = "cancelled" =>
             (ConversationOf[t] = c /\ ~Gone(t)) \/ Conversation(t).lifecycle = "cancelled"
  BY ConversationAssumption DEF CancelTasks, Gone, Conversation, Inv, TypeOK, ConversationRow
<1>6. UNCHANGED <<clock, creating, worker, leases, freed>>
  BY DEF CancelTasks, history
<1>7. TypeOK' /\ FailedIsExhausted' /\ GoneIsEmpty'
  <2>1. TypeOK'
    BY <1>1, <1>4, <1>6 DEF Inv, TypeOK
  <2>2. FailedIsExhausted'
    BY <1>2, <1>3 DEF Inv, FailedIsExhausted
  <2>3. GoneIsEmpty'
    BY <1>2, <1>3, <1>5 DEF Inv, GoneIsEmpty
  <2>. QED  BY <2>1, <2>2, <2>3
<1>8. ASSUME NEW t \in Tasks PROVE LeaseEnded(t)'
  BY <1>2, <1>3, <1>5, <1>6 DEF Inv, LeasesEnd, LeaseEnded
<1>9. ASSUME NEW v \in Workers PROVE DecidedBy(v)'
  BY <1>2, <1>3, <1>5, <1>6 DEF Inv, Decided, DecidedBy
<1>10. ASSUME NEW v \in Workers PROVE PageStands(v)'
  <2>1. ASSUME NEW t \in worker[v].page
        PROVE  /\ tasks'[t] = None => Gone(t)
               /\ Conversation(t)'.lifecycle = "cancelled" => Status(t)' \in Final
    <3>1. t \in Tasks /\ PageStands(v)
      BY DEF Inv, TypeOK, WorkerState, PagesStand
    <3>2. CASE open(t)
      BY <1>2, <3>1, <3>2 DEF Final
    <3>3. CASE ~open(t)
      <4>1. tasks[t] # None => Status(t) \in Statuses
        BY <3>1 DEF Status, Inv, TypeOK, TaskRow
      <4>. QED  BY <1>3, <1>5, <3>1, <3>3, <4>1 DEF PageStands, Final, Statuses
    <3>. QED  BY <3>2, <3>3
  <2>2. worker[v].page \subseteq Tasks
    BY DEF Inv, TypeOK, WorkerState
  <2>. QED  BY <1>5, <1>6, <2>1, <2>2 DEF PageStands
<1>. QED  BY <1>6, <1>7, <1>8, <1>9, <1>10 DEF Inv, Decided, LeasesEnd, PagesStand

LEMMA HardDeleteInv ==
  ASSUME Inv, NEW c \in Conversations, HardDelete(c)
  PROVE  Inv'
<1>1. conversation' \in [Conversations -> ConversationRow]
  BY DEF HardDelete, Inv, TypeOK, ConversationRow
<1>2. \A t \in Tasks : ConversationOf[t] = c => tasks'[t] = None /\ Gone(t)' /\ Status(t)' = "none"
  BY DEF HardDelete, Status, Gone, Conversation, Inv, TypeOK
<1>3. \A t \in Tasks : ConversationOf[t] # c =>
        /\ tasks'[t] = tasks[t] /\ Status(t)' = Status(t)
        /\ Conversation(t)' = Conversation(t) /\ (Gone(t)' <=> Gone(t))
  BY ConversationAssumption DEF HardDelete, Status, Gone, Conversation, Inv, TypeOK
<1>4. tasks' \in [Tasks -> TaskRow \cup {None}]
  BY DEF HardDelete, Inv, TypeOK
<1>5. UNCHANGED <<clock, creating, worker, leases, freed>>
  BY DEF HardDelete, history
<1>6. TypeOK' /\ FailedIsExhausted' /\ GoneIsEmpty'
  BY <1>1, <1>2, <1>3, <1>4, <1>5 DEF Inv, TypeOK, FailedIsExhausted, GoneIsEmpty
<1>7. ASSUME NEW t \in Tasks PROVE LeaseEnded(t)'
  BY <1>2, <1>3, <1>5 DEF Inv, LeasesEnd, LeaseEnded
<1>8. ASSUME NEW v \in Workers PROVE DecidedBy(v)'
  BY <1>2, <1>3, <1>5 DEF Inv, Decided, DecidedBy
<1>9. ASSUME NEW v \in Workers PROVE PageStands(v)'
  <2>1. \A t \in Tasks : ConversationOf[t] = c => Conversation(t)'.lifecycle # "cancelled"
    BY <1>2 DEF Gone
  <2>. QED  BY <1>2, <1>3, <1>5, <2>1 DEF Inv, TypeOK, WorkerState, PagesStand, PageStands
<1>. QED  BY <1>5, <1>6, <1>7, <1>8, <1>9 DEF Inv, Decided, LeasesEnd, PagesStand

LEMMA TickInv ==
  ASSUME Inv, Tick
  PROVE  Inv'
<1>1. clock' \in Nat /\ clock' = clock + 1 /\ UNCHANGED <<conversation, tasks, creating, worker, leases, freed>>
  BY DEF Tick, Inv, TypeOK, history
<1>2. \A t \in Tasks : Status(t)' = Status(t) /\ Conversation(t)' = Conversation(t) /\ (Gone(t)' <=> Gone(t))
  BY <1>1 DEF Status, Conversation, Gone
<1>3. TypeOK' /\ FailedIsExhausted' /\ GoneIsEmpty'
  BY <1>1, <1>2 DEF Inv, TypeOK, FailedIsExhausted, GoneIsEmpty
<1>4. \A l \in leases : l.at \in Nat
  BY DEF Inv, TypeOK
<1>5. ASSUME NEW t \in Tasks PROVE LeaseEnded(t)'
  <2>1. \A l \in leases : l.at + Lease <= clock => l.at + Lease <= clock'
    BY <1>1, <1>4, BoundsAssumption DEF Inv, TypeOK
  <2>. QED  BY <1>1, <1>2, <2>1 DEF Inv, LeasesEnd, LeaseEnded
<1>6. \A l \in leases : l.at <= clock'
  BY <1>1, <1>4 DEF Inv, TypeOK, LeasesEnd
<1>7. ASSUME NEW v \in Workers PROVE DecidedBy(v)' /\ PageStands(v)'
  BY <1>1, <1>2 DEF Inv, TypeOK, WorkerState, Decided, DecidedBy, PagesStand, PageStands
<1>. QED  BY <1>1, <1>3, <1>5, <1>6, <1>7 DEF Inv, Decided, LeasesEnd, PagesStand

(***************************************************************************)
(* The theorems                                                            *)
(***************************************************************************)
LEMMA WorkerStepInv ==
  ASSUME Inv, NEW w \in Workers, WorkerStep(w)
  PROVE  Inv'
  BY PollInv, ListInv, MovesInv, ClaimTaskInv, MarkSentInv, ReadForFailureInv, MarkFailedInv DEF WorkerStep

LEMMA StepInv == Inv /\ [Next]_vars => Inv'
<1> SUFFICES ASSUME Inv, [Next]_vars PROVE Inv'
  OBVIOUS
<1>1. CASE UNCHANGED vars
  BY <1>1 DEF vars, Inv, TypeOK, FailedIsExhausted, Decided, DecidedBy, LeasesEnd, LeaseEnded, PagesStand, PageStands,
              GoneIsEmpty, Gone, Conversation, Status
<1>2. ASSUME NEW u \in Turns, InsertFollowUp(u) \/ \E t \in Tasks : BeginFollowUp(u, t) PROVE Inv'
  BY <1>2, BeginFollowUpInv, InsertFollowUpInv
<1>3. ASSUME NEW c \in Conversations, ChangeOwner(c) \/ SoftDelete(c) \/ CancelTasks(c) \/ HardDelete(c) PROVE Inv'
  BY <1>3, ConversationInv, CancelTasksInv, HardDeleteInv
<1>. QED  BY <1>1, <1>2, <1>3, WorkerStepInv, TickInv DEF Next

\* The inductive invariant: what markFailed read, leases, listed tasks and cancelled
\* conversations stay consistent under every interleaving of workers and deletions.
THEOREM FollowUpsInv == Spec => []Inv
  BY InitInv, StepInv, PTL DEF Spec

\* The rows and the locals of workers keep their types; attempts never pass their cap.
THEOREM FollowUpsTyped == Spec => []TypeOK
  BY FollowUpsInv, PTL DEF Inv

\* What a step does to a task that was sent, failed for good or cancelled.
LEMMA FinalStays == Inv /\ Next => \A t \in Tasks : Status(t) \in Final => tasks'[t] \in {tasks[t], None}
<1> SUFFICES ASSUME Inv, Next, NEW t \in Tasks, Status(t) \in Final PROVE tasks'[t] \in {tasks[t], None}
  OBVIOUS
<1>1. Status(t) \notin {"PENDING", "CLAIMED", "none"} /\ tasks[t] # None
  BY DEF Final, Status
<1>2. ASSUME NEW u \in Turns, InsertFollowUp(u) PROVE tasks'[t] = tasks[t]
  BY <1>1, <1>2 DEF InsertFollowUp, Inv, TypeOK
<1>3. ASSUME NEW w \in Workers, Poll(w) \/ ClaimTask(w) PROVE tasks'[t] = tasks[t]
  BY <1>1, <1>3 DEF Poll, ClaimTask, Claimable, Inv, TypeOK
<1>4. ASSUME NEW w \in Workers, MarkSent(w) \/ MarkFailed(w) PROVE tasks'[t] = tasks[t]
  BY <1>1, <1>4 DEF MarkSent, MarkFailed, Reportable, Inv, TypeOK
<1>5. ASSUME NEW w \in Workers, List(w) \/ ReadModes(w) \/ HandOver(w) \/ ReadForFailure(w) \/ Crash(w)
      PROVE  tasks'[t] = tasks[t]
  BY <1>5 DEF List, ReadModes, HandOver, ReadForFailure, Crash
<1>6. ASSUME NEW c \in Conversations, CancelTasks(c) \/ HardDelete(c) PROVE tasks'[t] \in {tasks[t], None}
  BY <1>1, <1>6 DEF CancelTasks, HardDelete
<1>7. ASSUME NEW c \in Conversations, ChangeOwner(c) \/ SoftDelete(c) PROVE tasks'[t] = tasks[t]
  BY <1>7 DEF ChangeOwner, SoftDelete
<1>8. ASSUME NEW u \in Turns, NEW k \in Tasks, BeginFollowUp(u, k) PROVE tasks'[t] = tasks[t]
  BY <1>8 DEF BeginFollowUp
<1>9. Tick => tasks'[t] = tasks[t]
  BY DEF Tick
<1>. QED  BY <1>2, <1>3, <1>4, <1>5, <1>6, <1>7, <1>8, <1>9 DEF Next, WorkerStep

\* A task that was sent, failed for good or cancelled never changes again, and a task fails for
\* good only after its last attempt (claimDue, markSent, markFailed, deleteConversation).
THEOREM FinalTasksStay == Spec => FinalIsFinal
<1>1. Inv /\ Inv' /\ [Next]_vars => [FinalStep]_vars
  <2> SUFFICES ASSUME Inv, Inv', [Next]_vars, vars' # vars PROVE FinalStep
    OBVIOUS
  <2>. QED  BY FinalStays DEF FinalStep, Inv
<1>. QED  BY <1>1, FollowUpsInv, PTL DEF Spec, FinalIsFinal

\* Only the conditional update of claimDue leases a task.
LEMMA OnlyClaims ==
  ASSUME Inv, Next, NEW t \in Tasks, tasks[t] # None, ClaimedAgain(t)
  PROVE  \E w \in Workers : ClaimTask(w) /\ t \in worker[w].page /\ Status(t) = "PENDING"
<1>1. tasks'[t].attempts # tasks[t].attempts /\ Status(t)' = "CLAIMED" /\ tasks[t] \in TaskRow
  BY DEF ClaimedAgain, Inv, TypeOK
<1>2. tasks'[t] # tasks[t] /\ tasks'[t] # None
  BY <1>1 DEF Status
<1>3. ASSUME NEW w \in Workers, ClaimTask(w) PROVE t \in worker[w].page /\ Status(t) = "PENDING"
  <2>1. PICK k \in worker[w].page :
          IF Claimable(k)
          THEN tasks' = [tasks EXCEPT ![k] = [status |-> "CLAIMED", claimedAt |-> clock,
                                              attempts |-> tasks[k].attempts + 1]]
          ELSE UNCHANGED tasks
    BY <1>3 DEF ClaimTask
  <2>2. k = t /\ Claimable(k)
    BY <1>2, <2>1 DEF Inv, TypeOK
  <2>. QED  BY <2>2 DEF Claimable
<1>4. ASSUME NEW w \in Workers, Poll(w) PROVE FALSE
  BY <1>1, <1>4 DEF Poll, TaskRow
<1>5. ASSUME NEW w \in Workers, MarkSent(w) \/ MarkFailed(w) PROVE FALSE
  BY <1>1, <1>5 DEF MarkSent, MarkFailed, TaskRow, Inv, TypeOK
<1>6. ASSUME NEW w \in Workers, List(w) \/ ReadModes(w) \/ HandOver(w) \/ ReadForFailure(w) \/ Crash(w) PROVE FALSE
  BY <1>2, <1>6 DEF List, ReadModes, HandOver, ReadForFailure, Crash
<1>7. ASSUME NEW c \in Conversations, CancelTasks(c) \/ HardDelete(c) PROVE FALSE
  BY <1>1, <1>2, <1>7 DEF CancelTasks, HardDelete, TaskRow
<1>8. ASSUME NEW c \in Conversations, ChangeOwner(c) \/ SoftDelete(c) PROVE FALSE
  BY <1>2, <1>8 DEF ChangeOwner, SoftDelete
<1>9. ASSUME NEW u \in Turns, InsertFollowUp(u) \/ \E k \in Tasks : BeginFollowUp(u, k) PROVE FALSE
  BY <1>2, <1>9 DEF BeginFollowUp, InsertFollowUp, Inv, TypeOK
<1>10. Tick => FALSE
  BY <1>2 DEF Tick
<1>. QED  BY <1>3, <1>4, <1>5, <1>6, <1>7, <1>8, <1>9, <1>10 DEF Next, WorkerStep

\* A task is leased again only after the lease before it ran out or its failure was reported:
\* claimDue's listing may be stale, its conditional update is not.
THEOREM TakeoversAreJustified == Spec => TakeoverIsJustified
<1>1. Inv /\ [Next]_vars => [TakeoverStep]_vars
  <2> SUFFICES ASSUME Inv, Next, NEW t \in Tasks, tasks[t] # None, ClaimedAgain(t)
               PROVE  t \in freed \/ \A l \in leases : l.task = t => l.at + Lease <= clock
    BY DEF TakeoverStep
  <2>1. Status(t) = "PENDING"
    BY OnlyClaims
  <2>. QED  BY <2>1 DEF Inv, LeasesEnd, LeaseEnded
<1>. QED  BY <1>1, FollowUpsInv, PTL DEF Spec, TakeoverIsJustified

\* No follow-up of a conversation the dashboard has deleted and cancelled is leased any more, not
\* one that was listed before or created after (deleteConversation, claimDue).
THEOREM DeletionEndsClaims == Spec => DeletionStopsClaims
<1>1. Inv /\ [Next]_vars => [DeletionStep]_vars
  <2> SUFFICES ASSUME Inv, Next, NEW t \in Tasks, tasks[t] # None, ClaimedAgain(t)
               PROVE  Conversation(t).lifecycle \in {"live", "deleted"}
    BY DEF DeletionStep
  <2>1. PICK w \in Workers : ClaimTask(w) /\ t \in worker[w].page /\ Status(t) = "PENDING"
    BY OnlyClaims
  <2>2. Conversation(t).lifecycle # "cancelled"
    BY <2>1 DEF Inv, PagesStand, PageStands, Final
  <2>3. Conversation(t).lifecycle # "gone"
    BY DEF Inv, GoneIsEmpty, Gone
  <2>4. Conversation(t) \in ConversationRow
    BY ConversationAssumption DEF Conversation, Inv, TypeOK
  <2>. QED  BY <2>2, <2>3, <2>4 DEF ConversationRow
<1>. QED  BY <1>1, FollowUpsInv, PTL DEF Spec, DeletionStopsClaims
=============================================================================
