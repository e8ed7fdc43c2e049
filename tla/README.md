# TLA+ models of Capital Gate AI

These modules model the stateful core of the repository: the idempotent turn pipeline of
Nadim V2 with its dialogue, follow-up tasks and shared conversations; the inventory imports
and the catalogue they write; the cached property search and the plans it offers; the
automation API; and the first chat with its web page. TLC checks them on small instances;
TLAPS proves the main results for every value of the constants. `PROJECT.json` lists
components, runs, mutants (a plausible bug per property, which TLC must catch), hazards,
theorems, and the source lines each definition translates.

Run a model with `tlc -config Services.cfg MCServices.tla`; check proofs with
`tlapm Imports_proofs.tla`. Section 11 says what is proved and how, section 12 what
is only model-checked, section 13 what is not modelled.

## 1. The system

A Next.js web app and an n8n/WhatsApp gateway send customer turns to a NestJS API. The API
interprets them with language models, searches the property catalogue, persists everything
in PostgreSQL through Prisma, and sends lead actions to a second NestJS service, the
automation API. Any number of API processes may run; nothing but the database orders them.
Isolation is the PostgreSQL default, READ COMMITTED: each statement sees what committed
before it, a conditional `updateMany` is atomic, a read followed by a write is not.

### Components, their state and what makes them correct

| Component | State | Operations | Hard behaviour | Correct when |
|---|---|---|---|---|
| Turn pipeline (`nadim-v2.service.ts`, `nadim-conversation.service.ts`) | `NadimConversation`, `NadimTurn`, `NadimDeletionReceipt` | lookup, resolve, claim, record, delete, mark failed | duplicate deliveries, retries, crashes, thrown errors, lost acknowledgements, deletion under running turns | one execution per key; replays are faithful; what is deleted stays deleted |
| Conversation control and human ownership (`conversation-control.service.ts`, `lead-crm.service.ts`) | mode, pending deletion, human activity of a conversation | hand-off, return, request and confirm deletion | decides on a snapshot; command and model disagree | two-step deletion; takeovers survive; HUMAN mode silences tools |
| Conversation state, requirements, reservations (`state-engine.service.ts`, `customer-lifecycle.service.ts`) | conversation state, `PropertyRequirement`, `Customer` | apply operations, activate and save a requirement, save a contact, reserve | a turn fails between its statements; several currencies; ordinals | ordinals name current results; budgets agree; reservations are for what was chosen |
| Dialogue understanding, tool loop, policy, reply (`brain/`, `personality/`) | none beyond a turn | ask providers, merge, run tools, execute actions, compose | outages, bounded loops, a model's claims | what was said outright stands; nothing is claimed that was not done |
| Follow-up tasks (`customer-lifecycle.service.ts`, `follow-up-time.ts`) | `FollowUpTask` | create, claim-due, sent, failed, recover, cancel | external workers: slow, crashing, repeating; leases expire; clocks change | one lease at a time; finished tasks stay finished; deleted conversations send nothing; due when asked |
| Share and hand-off tokens, joins (`customer-lifecycle.service.ts`, `web-chat-persistence.service.ts`, `conversations.service.ts`) | `ConversationShareToken`, `ConversationParticipant`, web `Conversation` | create, validate, consume, revoke, join, remove | read-then-write counters; joins in several transactions | use limits and finality of tokens; bindings match participations; members cannot erase |
| Automation API (`apps/automation-api`) | `AutomationActionExecution`, `Customer`, `CustomerChannelIdentity`, `Lead` | claim, resolve identity, upsert, complete, fail | concurrent events of one customer; crash after a claim | a key acts once, for the customer it names |
| Imports (`imports/`) | `DataImport`, its sheets, issues, changes, corrections; phase aliases | upload, map, correct, preview, confirm, roll back | stale previews, concurrent confirmations, crash while IMPORTING | only what was previewed is written; rollback restores and keeps manual work |
| Catalogue administration (`admin/catalog.controller.ts`, `admin/real-estate.controller.ts`, `admin/project-structure.controller.ts`) | units, projects, phases, buildings, images, plans, gates, profiles | check, then write | rows move or go between check and write | units stay inside their project; one of each; what is published was ready |
| Knowledge base (`knowledge/`) | `ProjectKnowledge`, its items | upload, paste, approve | approval of whatever is pending by then | customers are told what an admin decided on |
| Property search, application cache, FX rates | process memory | get, load, invalidate, evict | a load that started before an invalidation ends after it; overlapping fetches | answers meet the requirement; the cache converges; no rate is too old |
| Payment plans | `PaymentPlan` | quote, choose, present | plans change between reads | the offered plan meets the wish and adds up |
| First chat (`chat.service.ts`, `conversation/`, `providers/`) | conversation state, `Lead`, trust alerts | plan, search, hand off, assess, answer | turns overlap unclaimed; streams break | selection is current; verdicts stand; one voice |
| Web adapter and page (`apps/web`) | page state | index, history, poll, send, remove | responses overtake each other | nothing twice, nothing lost |
| Storage, maps, auth, Android | files, cookies | input and output | none of their own | see `components` in `PROJECT.json` |

**Interactions.** A turn is called by the gateway with an idempotency key; it may redeem a
hand-off token before it is claimed, creates follow-ups and tokens as actions, and calls
the automation API. The dashboard changes modes and soft deletes conversations; the owner of
a web conversation hard deletes; a job releases stale HUMAN ownership; follow-up workers
poll. All of them meet in the rows of `NadimConversation` and of what hangs off it by
`ON DELETE CASCADE` (turns, tasks, tokens, participants) or `SET NULL` (web conversations).

The hazards this gives rise to are listed, each at its source line, in `PROJECT.json`.

## 2. The project

| Modules | Part | Run | Proofs |
|---|---|---|---|
| `NadimTurns`, abstract `TurnLedger` | turn pipeline, conversation control, ownership | `NadimTurns`, `NadimOwnership` | `NadimTurns_proofs` |
| `FollowUps` | leased tasks | `FollowUps` | `FollowUps_proofs` |
| `ConversationSharing` | tokens, joins, removals | `ConversationSharing` | `ConversationSharing_proofs` |
| `ImportWorkflow` | imports with stored tables | `Imports` | `Imports_proofs` |
| `FlatImport`, `ImportPhases` | imports without tables; phases of rows | `Imports` | `Imports_proofs` |
| `TurnDialogue` | state, requirements, search and reservation of a conversation | `Services` | `Dialogue_proofs` |
| `UnitPlacement` | units, phases, buildings, master plan | `Services` | `Catalogue_proofs` |
| `AutomationLeads` | the automation API | `Services` | `Services_proofs` |
| `FxRates` | exchange rates | `Services` | `Services_proofs` |
| `LegacyChat` | the first chat | `Services` | `Services_proofs` |
| `FollowUpTimes`, `SearchConstraints` | when a task is due; constraints of a search in the first chat | `Services` | `Services_proofs` |
| `NadimReply` | actions, and what the reply claims of them | `Services` | `Services_proofs` |
| `TurnUnderstanding` | what a message means | `Services` | `Dialogue_proofs` |
| `PropertySearch`, which `PaymentOffers` extends | cached search; plans offered with a unit | `Services` | `Dialogue_proofs` |
| `ProjectContent`, which extends `ProjectKnowledge` | images, plans, gates, publication; knowledge items | `Services` | `Catalogue_proofs` |
| `WebChat` | the page of the first chat and its store | `Services` | `Services_proofs` |
| `AnswerProviders` | the models of the first chat | `Services` | `Dialogue_proofs` |
| `ImportParts`, `ServiceParts` | the parts of imports, and of services, as one: their type invariants | `Imports`, `Services` | `Imports_proofs`, `ServiceParts_proofs` |
| `Lists` | a sequence filtered | | `Dialogue_proofs` |

Each module takes its sizes as CONSTANTS and has one action per handler, or per database
statement of a handler that others can come between; none declares a RECURSIVE operator, so
each can be proved about. `MCNadimTurns`, `MCFollowUps`, `MCConversationSharing`,
`MCImportWorkflow`, `MCServices` and `MCTurnDialogue` are their instances for TLC.

`MCImportWorkflow` and `MCServices` put parts side by side that share no state in the
models: in a behaviour one part runs and the others stay as they start. Interleaving them
would multiply the states and show nothing; what parts do share (the conversation's row, the
unit's row) is modelled within one module. Deadlock checking is off in `Imports`, `Services`
and `BriefIndependence`, where the parts stop when their bounds are used up, and on elsewhere.

Order of work: the turn pipeline, then follow-ups and sharing, then the dialogue, imports and
catalogue, then the rest; proofs in the same order. What the plan has left is what section 12
lists, and the components `PROJECT.json` calls partly modelled.

## 3. NadimTurns: the turn pipeline

| State | Code |
|---|---|
| `conversation` | `NadimConversation`: `lifecycle` (`deletedAt` gives `softDeleted`, a deleted row `gone`), `mode`, `until` (`pendingDeletion.expiresAt`), `state` named by the execution that wrote it |
| `turns` | `NadimTurn` by its unique `(channel, idempotencyKey)`: `id`, `conv`, `hash` (`requestHash`), `code` (`errorCode`), `payload` (`responsePayload`) |
| `receipts` | `NadimDeletionReceipt` by the same key |
| `handler` | locals of each running `turn()`: the step it is at, its request, the conversation it resolved and the row it saw then (`seen`), its turn id |
| `lastRun`, `clock` | generated ids, time |
| `answer`, `claimed` | history: the last answer a caller got, the executions let in |

One action stands for the code between two database round trips that another turn can come
between: `Receive`, `LookupTurn`, `LookupReceipt` (`replayIdempotent`, before the turn and
after a lost claim), `Resolve`, `CreateConversation`, `Claim` (`claimIdempotent`), `Decide`
(model, command, `apply()`), `Persist` (the commit), `DeleteConfirmed`, `Throw`,
`MarkFailed` (catch block), `Crash`. Around them act `AdminSetMode`, `AdminDelete`,
`OwnerRemove`, `ReleaseStaleHuman` and `Tick`. `Conclude` says what may follow a commit: the answer
arrives, the process dies, or the acknowledgement is lost and the catch block runs.

Abstractions: one channel and one sender; the request hash is the body; what the model reads
out of a message is a free choice in `Decide` (so every property holds whatever the model
says); tools and external actions are a step without effect on these tables; customers
and requirements belong to later modules; which of several conversations of a sender
`Resolve` finds is left open.

`TurnLedger` is what the pipeline promises: a key has one run at a time; runs have fresh
numbers, end once, answered or failed, and stay so; only erasing the conversation frees a
key, and a run that erases its own leaves a tombstone. `LedgerHolds` maps turns to slots,
receipts to tombstones and gone conversations to erased scopes.

Properties: `ClaimExclusive`, `ReplayFaithful`, `RerunOnlyAfterDeletion`
(invariants); `DeletionIsTwoStep`, `ErasedStaysErased`, `TakeoverSurvivesOlderTurns` (what a
step may not do); `LedgerHolds` (refinement). Each is stated in a comment above it.

### Runs

| Run | Instance | Distinct states | Shows |
|---|---|---|---|
| `NadimTurns` | 2 handlers, 2 keys, 2 conversations (one on the web), a request and a confirmation of deletion, one key with two bodies, 3 executions | 457 thousand | idempotency, deletion and refinement |
| `NadimOwnership` | 2 handlers, 1 key, 1 conversation, unkeyed requests, all proposals, a clock with 2 values, 2 executions | 747 thousand | the inductive invariant `Inv`, and ownership |
| `HumanOwnership` (violation) | as above | stops early | a HUMAN conversation reaches the tools |
| `DeletionReceipt` (violation) | two confirmations under two keys | stops early | a deletion is confirmed to a key without receipt |

*Why these bounds.* A fault of idempotency needs two executions under one key and one that
removes the row between them: two handlers, a second key for the deletion, and three
executions. Two conversations let a freed key be claimed again elsewhere. Two clock values
with a deletion window of one tick let a deletion request be active and expired. The bounds
`MaxRuns` and `MaxTime` are guards of `Claim` and `Tick`; the proofs do not depend on them.
Deadlock is checked: `Receive` is always possible.

The specification states no fairness: the code has no job that finishes an abandoned turn, and
a caller who never retries is legal, so no liveness is claimed of turns.

### Disagreements found

* `HumanOwnership`: in HUMAN mode `turn()` lets a turn pass because the model proposes
  RETURN_TO_AI, and `apply()` then decides on something else (a command, or an earlier
  proposal), does nothing, and the turn runs on. `ai-brain-architecture.spec.ts:287` says
  that such inbound suppresses tools.
* `DeletionReceipt`: of two confirmations under two keys the second finds the conversation
  gone and answers "deleted" without a receipt, so its retry is not replayed
  (`README.md:184` of the repository).

## 4. FollowUps: leased tasks

| State | Code |
|---|---|
| `tasks` | `FollowUpTask` by its unique `dedupeKey`: `status`, `attempts`, `claimedAt` |
| `conversation` | `deletedAt`, `mode` and existence of the conversation |
| `creating` | a turn between the checks and the insert of `createFollowUp` |
| `worker` | a worker and the `claim-due` request it waits for: the page listed, the tasks in hand |
| `leases`, `freed` | history: leases handed out and not reported on, tasks whose last lease ended in a failure |

`claimDue` is split at its statements: `Poll` (recover expired leases), `List`, `ReadModes`,
`ClaimTask` (a conditional update for each task), `HandOver`. `markSent` is one conditional
update; `markFailed` reads first (`ReadForFailure`) and updates later (`MarkFailed`). A
report may be lost and repeated (`Reported`), a worker may stop anywhere (`Crash`). The
dashboard's deletion is two statements (`SoftDelete`, `CancelTasks`); the customer's erases
the tasks (`HardDelete`). Page size and due dates are a choice of a subset of the due tasks.

* `FollowUps` (pass, 155 thousand states): one task with its three attempts, two workers, a
  turn, four clock values with a lease of one tick. `FinalIsFinal`, `TakeoverIsJustified`,
  `DeletionStopsClaims`; `FinalIsFinal` also says that a task fails for good only after its last
  attempt. One task is enough: no statement relates two,
  and the properties speak of one; four clock values let a lease expire before each retry.
* `FollowUpLease` (violation of `LeasedOnce`): `markFailed` does not compare the worker or
  the lease it reports on, so a late report ends another worker's running lease
  (`customer-lifecycle.spec.ts:43`: "due follow-ups are leased once ...").

Not claimed, because nothing in the repository promises it: a task whose third attempt dies
stays CLAIMED, and a stale retry may leave PENDING a task without attempts. Deadlock is checked.
There is no fairness: workers are external.

## 5. ConversationSharing: tokens, joins and removals

| State | Code |
|---|---|
| `token`, `issued` | `ConversationShareToken` by its hash, and the hashes drawn so far |
| `participant`, `joins` | `ConversationParticipant`: role, status and the order of `joinedAt` |
| `web` | web `Conversation`: absent, unbound, removed, or the conversation it is bound to |
| `conversation` | lifecycle of `NadimConversation` |
| `request` | locals of the requests in progress |
| `redeemed`, `spent`, `misled` | history: redemptions of each token, tokens that reached their limit, hand-offs spent in vain |

`consumeToken` is a read (`ReadToken`) and a write (`UseToken`: count, participant and commit,
between which the row is locked), used by three callers: a join over a shared link (`BeginJoin`
to `Bind`, with its clean-up), a WhatsApp turn (`BeginRedeem` to `ResolveTurn`) and the
gateway. `BeginRemove` and `Remove` are `ConversationsService.remove`. `EraseByChat` and
`DashboardDelete` are the other two deletions.

* `ConversationSharing` (pass, 391 thousand states): one web conversation, two people who may
  join, a WhatsApp sender, a link with two uses or a hand-off with one, two requests at once,
  three redemptions, two clock values. `BoundIsActive`, `SpentIsFinal`,
  `MemberLeavesQuietly`. Three redemptions are what a stale count needs to overwrite a spent one.
* `ShareUseLimit` (violation): two joins over a link with one use (`README.md:183`).
* `HandoffBack` (violation): a sender who continued two web conversations in WhatsApp cannot
  go back to the first: the token is spent and `resolve()` refuses the turn.

Customers (and the conflicts among them that `resolve()` reports), and the messages copied by
a join, are left out. Deadlock is checked: a sender can always present a token.

## 6. TurnDialogue: state, requirements, search and reservation

Turns of one conversation in order (that they may overlap is `NadimTurns`' subject); each is the
statements the handler commits one by one and may fail after any of them, which loses the state
but not the rows already written.

| State | Code |
|---|---|
| `saved`, `active` | `NadimConversation.state` and `activeRequirementId` |
| `rows` | `PropertyRequirement` in the order of creation, each with its criteria and the context to return to |
| `contact` | `Customer.name`, `normalizedPhone` |
| `turn` | the turn in progress: its step, the state it works on, the query it sends |
| `bookings` | reservation requests the automation API has committed |
| `topic`, `chosen`, `failed` | history: what the customer talks about, the units pointed at, whether a turn failed |

`Understand` applies the message (`ApplyOperations`, `ResolveOrdinals`, `SyncBudgetConstraint`);
`SaveContact`, `SaveBrief`, `Search`, `LookUp`, `Reserve`, `UpdateRequirementContext` and
`Persist` are the writes in the order of `turn()`; `ToolFails` and `Throw` end them early. A
search is a place (a criterion stored as a list) and a budget (scalars); an amount in EGP is
written as the pair that was converted. `Reserve` includes a commit of the automation API whose
answer is lost to the client's time limit (`automation-action.client.ts:54`). What the model
understands is an input, with at most two operations in a message.

* `ResultsAreCurrent`, `BudgetSound`, `BookedAsChosen` in `Services`: three turns, two units, one
  place, one amount in two currencies, two requirements. Three turns let a search, a second
  request and a return to the first follow each other.
* `BriefIndependence` (violation of `BriefsIndependent`): "another request" without criteria
  clears the search but opens no row; after a greeting the brief that follows is written over the
  first requirement (`customer-lifecycle.spec.ts:84`, `README.md:147` of the repository).

Left out: follow-up transitions, language style, the extra tools of the model's continuation,
`lastExecutionStatus`, `queryObjective`.

## 7. Around a turn

**TurnUnderstanding.** One message: explicit patterns, the chain of dialogue providers (`Decide`,
`NextProvider`, `Outage`), the merge of both (`Merged`), the plan of tools and the loop of at most
four calls with at most one question more to the model (`RunTool`, `Continue`), the proposed
actions. `ExplicitStands`: what the customer said outright is what the search goes by. The code
gives way for a question about the state, for small talk, and for an operation the model proposes
too, which then stands or falls with the model's confidence; the property names these. Left out:
`understand()` for older providers, texts, latencies.

**NadimReply.** The results of tools, the actions executed one by one (`Execute`, with refusals,
failures and lost answers), and the three ways to a reply: templates, a structured answer, a
model's words that are checked (`Safe`). A reply is the set of its claims. `NothingClaimedUndone`
says that the reply claims no action that was not done and nothing a tool did not find. What the
code lets pass is in the model and outside the property: a successful revocation is answered with
"contact request recorded" (`nadim-personality.ts:19`), a generic "saved" passes as soon as any
action succeeded, and a structured reply announces verified photos unchecked. Bounds: three kinds
of action, two proposals.

**FollowUpTimes.** `ResolveFollowUpDueAt` in hours, with clocks that are turned forward and back
on both sides of Greenwich. `DueAsAsked`: the task is due at the clock time asked for; in the gap
of a spring change it is off by what the clock skips. Minutes are rounded down.

## 8. Search, offers and rates

**PropertySearch.** `unit` is the catalogue, `entries` the `ApplicationCache` in LRU order,
`search` the readers between `getOrLoad`'s steps (`SearchProperties`, `Load`, `Store`,
`QueryFails`), `owed` the
handlers between their commit and their invalidation, which an audit record that fails never
reaches. The cache key names fewer criteria than the query, a loader overtaken by an invalidation
stores what it read, and the pool is cut by the first asker's limit. `AnswersMeetRequirement`
holds because every unit of a pool is validated again. `CacheConverges` is liveness: after the
last change the cache comes to serve only what the database says. Its fairness is weak fairness of
`EntriesAge` (time passes), `Load` and `Store` (a loader's promise settles and `getOrLoad` then stores,
`application-cache.ts:49-55`); nobody is obliged to ask, to change or to invalidate. Bounds: two
units, two prices, one reader, limit 1, life 1, two entries, two changes: enough for a load that
began before a change and is stored after it.

**PaymentOffers.** Plans of project, phase and unit are merged (`AttachEffectivePaymentPlans`),
quoted against the price read, quoted again to choose the best (`ChooseBestPaymentPlan`), and
computed once more for the customer (`PaymentPlanAmount`), while administrators change plans and
price. `OffersSuit` (in the run's `AnswersMeetRequirement`): the plan put forward meets the limits
on down and monthly payment whenever one plan meets both, but for a plan whose duration outweighs
them, and what is told of any plan adds up to its total. A limit that is met counts ten points
instead of minus ten, and a year of duration one (`payment-calculator.ts:98-120`), while durations
go up to 360 months (`catalog.controller.ts:142`): so a plan of thirty years passes over a limit
that a plan of one year meets. The proof found this; the property names it as twenty years. The
validator accepts a unit when each limit is met by some plan; wishes with a percentage are exempt,
since a plan without one counts as 999 away. Plans of the web designer have frequency CUSTOM.
Amounts are whole by assumption (`WholeAmounts`); maintenance, percentage schedules, fixed
discounts and currencies are left out. Bounds: five plans, one of them of 360 months, two prices,
one change.

**FxRates.** `GetRate`, `Quote`, `Arrive`, `Fail` and `Tick` are `getRate` with overlapping calls,
its abort and its provider. `RatesAreCurrent`: no answer is older than `Stale`. The age of a quote
counts from before its fetch, so an older response may overwrite a newer quote without making an
answer too old. The provider's own date is never checked by the code. Bounds: two callers, time to
5 with life 1, stale 2, timeout 1.

## 9. Imports and catalogue

**ImportWorkflow.** An admin's request runs in a worker; a transaction that reads and writes later
is two steps.

| State | Code |
|---|---|
| `imports` | `DataImport` with its `ImportSheet`: status, mapping, version, previewed version, issues, stored preview |
| `units` | `Unit`: content, `source` (the batch that created it), the batch and mapping version that wrote it last, media |
| `changes` | `ImportUnitChange`: before, after, reverted |
| `corrections` | `ImportCorrection` of a batch |
| `worker`, `requests` | where each request is, with what it read |
| `previewed`, `lost`, `touched` | history: mapping versions previewed; units over whose unseen write a transaction wrote; units edited by hand or by a correction |

Actions: upload (`Upload`, `StoreWorkbook`, `StoreFails`), edits of the table's meaning (`Edit`,
`EditWrite`, `EditIssues`), `Poll`/`Repair`/`Settle` of a status that is derived again, previews
(`PreviewSheet`, `PreviewVerdict`), confirmation (`ConfirmBegin`, `ConfirmCommit`, `ConfirmAbort`,
`ConfirmRecover`), removal in its modes (`RollbackBegin`, `RollbackCommit`, `DeleteUnfinished`,
`DeleteSourceRecord`, `Cancel`), corrections (`CorrectionPreview`, `CorrectionConfirm`,
`CorrectionApply`), the catalogue's own edits (`CreateUnit`, `UpdateUnit`, `AttachMedia`,
`DeleteUnit`), and `Crash` anywhere.

* `PreviewedMapping`: the inventory holds only what was previewed with exactly that meaning.
* `Traced` (with `Owned`): what an import wrote has an open change row of its batch.
* `Unwound`: when all changes of a unit are rolled back, in any order, it is what it was.
* `ManualKept`: a rollback removes no content typed by hand, except between its read and its
  write.

The history variable `lost` marks the one thing the code does not prevent: READ COMMITTED
transactions that write over what they had not read. Left out: payment plans, offers and price
history of a unit, the stale-issue clean-up, a poll while ANALYZING, duplicate sheet
initialisation.

**FlatImport.** A batch without stored tables (its file or tables could not be stored):
`resolve()`, preview, confirmation with the policies for missing rows and values, removal, while
units are edited, deleted and created again. What a transaction has read it writes by id, so it
fails when the unit was deleted meanwhile: `erased` counts how often, since a unit that is
created again has another id. No version ties a preview to the analysis; the unique index on batch and unit is
what keeps a batch from writing a unit twice. `Traceable`: every unit such a batch wrote has one
change row, and what that row would put back is never the batch's own work.

**ImportPhases.** Which phase a row goes to: names, aliases shared by all batches of a project,
groups kept in the sheet of a table with several projects. Preview and confirmation both resolve.
`PlacedAsPreviewed`: a confirmed row has the phase its preview resolved, of exactly this version
of the sheet; for a table with a phase column unless a phase or alias of the project changed since
(`drift`: every version there was, at such a change). `mapProjectValue` writes groups it read earlier, so of two words mapped at once one can
be lost: that is in the model (`MapProjectValue`).

*Bounds of `Imports`* (826 thousand states): two batches that list one unit, two mappings (one of
which makes a row invalid for one batch), two workers, four requests, two change rows, versions to
2; or one flat batch with two admins and four requests; or three tables, two units, two phases,
one word, five requests. Two batches and two change rows are what an order of rollbacks needs; two
workers and four requests let an upload or preview, two confirmations and a rollback overlap.

**UnitPlacement.** Projects, phases, buildings and units with the checks and writes of their
handlers apart (`BeginCreateUnit`/`CreateUnit`, `BeginDeletePhase`/`DeletePhase`, `BeginBackfill`,
`BeginAssignment`, `BeginBulkAssign`, `BeginLocate`, ...), edits that write at once, and the
vision model's late suggestion (`LocateUnit`). `moved` is history: units and buildings that
`updateUnit`, `bulkUnits` and `updateBuilding` place without checks. `InsideProject`: phase and
building of any other unit are of the unit's project. Bounds: two projects, one phase, one
building, one unit, two admins, seven requests.

**ProjectContent.** Images with their rules and covers, files, plans, gates, market profiles,
boundary and publication; most requests read, then write. `ContentStands`: one cover a gallery,
one main gate and one profile a segment, except where requests wrote past each other or a cover
came from outside of its order (`excused`); every listed image has its file; and what a published
project lacks it lost after its check began. Left out: offers, unit plans, amounts, geometry,
calibration, landmarks, competitors. Bounds: two images, one plan, two gates, two admins, three
requests.

**ProjectKnowledge.** Upload (stored before it is read), paste (category by category), approval in
two statements, decisions about items, requests that break off. `KnowledgeVetted` (in the run's
`ContentStands`): customers are told no item that was refused since its last approval, an item
stored after an approval waits for the next, and a document's items are there all or not at all.
Approving one record approves every pending item of its project, also those of other documents and
those stored between the two statements; the README's "must be approved before it becomes customer
truth" does not say otherwise. Bounds: two texts, three items, two admins, three requests.

## 10. Automation API, first chat and web page

**AutomationLeads.** `Claim`, `Repeat`, `Resolve` (the reads of a transaction), `Commit` (its
writes, against the unique indexes as they are by then), `Abort`, `FailCall`, `Crash`, and the
other writers of the tables (`WebLead`, `ChatCustomer`, `UpdateStatus`). `Applied`: a key is
applied at most once, what it replays was committed, and it went to the customer the request names
and the owner of its channel identity. A claim whose process died stays PENDING and refuses its
key for good; nothing in the repository promises otherwise. Bounds: two keys, two callers, two
customers, one lead, phone and channel. Callers and generated ids are interchangeable, so `Claim`
and `FreshId` take one of the free ones.

**LegacyChat.** `ChatService.prepare`: no claim orders the turns of a conversation; each computes
on the state it read first and overwrites it last. `SelectedIsCurrent`: a viewing is arranged for
a unit of the last search or one chosen after it. `VerdictStands`: what an admin decided about a
lead changes only by another review, or by a turn that had read the lead before. Bounds: one unit,
one phone, two turns, one lead, one alert, two messages.

**SearchConstraints.** How words change constraints: operations read from the words, the model's,
scopes to keep. `WordsDecide`: what a message keeps stays (unless it resets or widens the search),
what it drops goes, and a budget goes only when it or the search is dropped. A message that keeps
something removes nothing, and "reset, but keep the budget" resets the budget: both are so in the
code.

**AnswerProviders.** Groq models of the route, OpenAI if enabled, Workers AI; a stream is cut
anywhere and reasoning stripped. `OneVoice`: a customer hears one model and none of its reasoning.
The one mixture is OpenAI's stream that breaks after words and the answer that follows. Bounds:
one request, seven tokens, which is an opening tag, a thought, a closing tag and a word.

**WebChat.** The page, the store and the adapter between them; index, history, polls and turns in
flight. `ScreenStands`: nothing is shown twice or in another conversation, and a first message
stays. The code gives way where the adapter gives up after 30 s on a turn the store still commits,
where polls began before the turn was stored, and where the customer picks a conversation before
its creation was answered. Left out: titles, closed conversations, sharing, rate windows. Bounds:
two chats, one event, two loads.

*The run `Services`* checks these parts and those of sections 6 to 8 (940 thousand states).

## 11. Proofs

Seventy-three theorems in eight modules (`PROJECT.json` lists sixty), for every value of the
constants that their ASSUMEs allow: every property of a passing run but `CacheConverges`. TLC
evaluates each ASSUME, since a run's module extends the module that states it. Every component
follows one plan: an inductive invariant, first checked by TLC on the run's instance, one lemma
per action that preserves it, and the run's properties as its consequences. Bounds such as
`MaxRequests` are guards of the models; no proof relies on their values.

| Module | Inductive invariant | Properties proved | Assumed of the constants |
|---|---|---|---|
| `NadimTurns_proofs` | `Inv` | `ClaimExclusive`, `ReplayFaithful`, `RerunOnlyAfterDeletion`, `DeletionIsTwoStep`, `ErasedStaysErased`, `TakeoverSurvivesOlderTurns`, `LedgerHolds` (and types, `NoOrphans`) | null values differ from real ones; conversation ids and bounds are naturals |
| `FollowUps_proofs` | `Inv` | `TypeOK`, `FinalIsFinal`, `TakeoverIsJustified`, `DeletionStopsClaims` | every task has a conversation; bounds are naturals |
| `ConversationSharing_proofs` | `Inv` | `TypeOK`, `BoundIsActive`, `SpentIsFinal`, `MemberLeavesQuietly` | web identities are not senders; null values differ from real ones |
| `Services_proofs` | `FxInv` | `RatesAreCurrent` (and types) | `Timeout <= Ttl <= Stale`, as the code's constants are |
| | `ChatInv` | `SelectedIsCurrent`, `VerdictStands` (and that rows refer to rows) | `Absent` is no value |
| | `TimesInv` | `DueAsAsked` (and types) | a zone is put back by at most an hour; `Unsaid` is no day |
| | `ConstraintsInv` | `WordsDecide` (and types) | operations are records of strings; `Unset` is no value |
| | `ReplyInv` | `NothingClaimedUndone` (and types) | bounds are naturals, `Nil` is no outcome |
| | `WebInv` | `ScreenStands` | `Void` is no conversation, message or list of messages |
| | `LeadsInv` | `Applied` (and types) | requests are requests, no phone looks like a missing one, `Empty` is no value |
| `Dialogue_proofs` | `DialogueInv` | `ResultsAreCurrent`, `BudgetSound`, `BookedAsChosen` (and types) | null values differ from real ones; bounds are naturals |
| | `ThoughtInv`, `ThoughtRuns` | `ExplicitStands` (and that calls are bounded) | none |
| | `VoiceInv`, `AnswerInv` | `OneVoice` (and types) | none |
| | `SearchInv` | `AnswersMeetRequirement`, with `OfferInv` (and that the cache is bounded) | units are finitely many naturals; prices are naturals; the cache holds an entry |
| | `OfferInv` | `OffersSuit` (and types) | plans have the columns of the table, prices are positive, instalments are whole amounts (`WholeAmounts`), `NoTerm` is no number and no quote |
| `Catalogue_proofs` | `PlaceInv` | `InsideProject` (and types) | `Null` is no value of the tables |
| | `ContentInv`, `KnowledgeInv` | `ContentStands` (and that items have a text) | `Blank` is no image and no row; readings are lists of entries |
| `Imports_proofs` | `ImportInv` | `PreviewedMapping`, `Unwound`, `ManualKept`, `Owned` (and keys) | `ImportConstants`: what is typed by hand can be told from what a table holds |
| | `FlatInv`, `FlatKept` | `Traced` (with `Owned`), `ImportsTyped` (with the others) | units are finitely many, rows name units, workbooks are analyses, `Null` is no batch, unit or row |
| | `PhaseInv`, `VersionInv` | `PlacedAsPreviewed`, `ImportsTyped` (with the others) | finitely many admins; cells are words, phases and defaults are of the schema, null values differ from real ones |
| `ServiceParts_proofs` | those of its parts | `TypesOK` | those of its parts |

**NadimTurns.** The properties alone are not inductive: that a claim is exclusive needs that run
numbers are fresh and never shared (`RunsAreFresh`) and that a working handler's row is in
progress (`WorkIsInProgress`); that replays are faithful needs that every stored row is
(`RowsAreFaithful`); that reruns follow deletions needs that a claimed key keeps its row until its
conversation is gone (`ClaimsAreKept`); that deletion takes two steps needs that a handler at
`delete` saw a request (`DeletionWasRequested`). Most actions are *quiet* (lemma `QuietStep`):
they move one handler and write no table that `Inv` relates to another. Five write: `Claim`,
`MarkFailed`, `Persist`, and the erasures `DeleteConfirmed` and `OwnerRemove`, which share
`ErasureInv`. The refinement maps each of these to a step of `TurnLedger` and every other action
to a stutter (`LedgerSteps`).

**FollowUps.** What `markFailed` read stays true until it writes (`Decided`), a task that waits
has no running lease (`LeasesEnd`), a listed task of a cancelled conversation is final
(`PagesStand`), and a conversation that is gone has no tasks. `LeasedOnce` is false, so the
theorems say what holds without it: a task is leased again only after the lease ran out or a
failure was reported for it.

**ConversationSharing.** A join about to bind has made its bearer a participant (`BindSound`), a
removal that will erase is the owner's (`RemoveSound`, because owners started their conversations,
`OwnersStarted`), and a token once spent stays consumed or is gone, although a slower redemption
overwrites its count (`SpentStays`).

**FxRates.** Every quote was given at or after the moment its age counts from (`Counted`), so an
answer, from the cache, from the provider or for want of it, was given at most `Stale` before the
question (`CallSound`).

**LegacyChat.** Every context a conversation or a turn holds is sound: a selected unit is among
those suggested, and what a turn will write refers to rows that exist (`TalkSound`, `JobSound`).
Since leads and alerts are never deleted, what a turn read stays sound while others write
(`OthersStep`). That verdicts stand needs no invariant beyond the types: the alerts a turn
raises, resolves or escalates are never reviewed ones.

**FollowUpTimes.** The code guesses an instant and corrects it three times. `LocalToUtcFinds`:
the third guess reads as the time asked for, if any instant does. `LaterIsLater`: a later
hour on the clock is later in time, which is what the assumption about zones is for.

**SearchConstraints.** `TurnedAt` unfolds a turn at one constraint: what the message says of it, what
it clears or keeps, and only then what the model proposed; the clauses of `WordsDecide` follow.

**NadimReply.** What succeeded was done, whatever came before it in the turn (`SuccessIsDone`); the
rest is about the three ways to a reply, each of which says only what a result backs: a template
(`ToldIsTrue`, `DeterministicIsTrue`), a structured answer, but for its photos (`StructuredIsTrue`),
and a model's words past the checks (`SafeIsTrue`).

**WebChat.** A list the page shows has each message once, of its own conversation, with the store's
question only where the page's own is not (`ViewSound`); the store, and every history or poll in
flight, has stored messages only (`ItemsSound`), so it may replace what is shown. That the store
takes a turn once rests on where the turn is (`TurnSound`). A page that stays on a conversation it
created has no request in flight and shows that turn (`StaySound`), which is the turn `FirstTurnStands`
speaks of, because no two first messages create one conversation (`FirstsApart`). TLC checked `WebInv`
with two conversations and two turns on seven million states.

**TurnDialogue.** The invariant follows the state through the three places that keep it (the
conversation, the turn, the rows of the requirements): results carry the place they were found for
(`Current`); while no turn failed, amount, constraint and conversion agree, and every row's budget
is explained by a context it can be restored with (`BudgetsAlike`); and it says from which step of the
turn a request may carry a unit and a phone, which must be the customer's own past the contact
step (`Requests`).

**TurnUnderstanding.** Operations apply one after another, so the last one stands (`LastStands`); and
unless the model proposed it too, the last one of the merged list is the one the customer named
(`WordsLast`, `SetsLast`). `ThoughtInv` carries that from the decision through the loop of tools.
The operators are recursive functions over a sequence; that such a function exists and what it
computes (`AfterExists`, `FilteredIs`) follows from the least element of a set of naturals
(`LeastNatural`, `UpTo`), which takes the place of an induction theorem. The loop's count of
iterations is the number of calls made, each call leaves the queue for good (`ThoughtRuns`), so
there are no more than four. TLC checked `ExplicitStands` on the run's instance.

**AnswerProviders.** In the raw text of a stream a thought stands between the tags (`RawSound`), and
a chunk that may come keeps that (`SentSound`); what was said is a beginning of what is visible, so
no thought is said, whether the stream is cut before, inside or after a tag. While Groq models are
tried, what was heard is of the first model left, and nothing was heard while nothing was emitted
(`Trying`). Once a word is out the code either stops or, after OpenAI, goes to Workers AI
(`Spoken`), the one mixture that `OneVoice` allows. `AnswerInv` adds that as many words are heard
as were emitted and that a stream with anything visible has emitted something, so an answered
request has an answer.

**PropertySearch.** Every pool, in the cache or in a reader's hands, is a set of rows with one row
for a unit (`Pools`); an answer is the ranking of some pool for the reader's own requirement
(`ReaderSound`), whoever loaded it. The ranking is a strict order on a pool (`BeforeOrders`), so
each place has a unit (`RankExists`, `RankedIs`), and every unit at a place was validated for this
requirement: that is all the property needs, and why the cache's short key does no harm. Removing a
key and storing it again keeps keys apart (`FilteredKeys`, `WithKeeps`), which bounds the cache.

**PaymentOffers.** A quote quoted again is itself (`QuoteTwice`), so the best plan is one of the
list with the amounts of the list. A list has a greatest score (`Greatest`); a plan that misses a
limit loses twenty points to one that meets it and can make up for them with duration only, a
point a year (`LimitsFirst`): that is where the exception of twenty years came from. What is told
comes to the total because the quote divided the remainder by the same number of instalments
(`AmountAddsUp`).

**AutomationLeads.** The claim makes one caller the owner of a key until its row is decided
(`KeysHeld`, `KeysApart`); what that caller read of the identities stays true until it commits
(`PlansSound`), because identities are never reassigned and the unique indexes refuse a second
row.

**UnitPlacement.** `JobsSound` says what a waiting handler's check still is worth: phases and
buildings never change their project, units change theirs only with the mark `moved`, ids are
never used again (`Evolves`). From it every late write stays inside the project.

**ProjectContent.** What a request found when it began is still so when it writes, or `since` names
who wrote (`LookSound`): that a gallery has no image or the project no main gate, that a need is
met. That is why a second cover, a second main gate or a project published with something missing
always leaves a mark in `excused`; an order of images needs no such fact, unless its cover is from
outside. A file stays for its image because a file in upload has no row, a file to be removed has
lost its own, and no two requests mean the same (`NameSound`, `NamesApart`). TLC checked `ContentInv`
and `KnowledgeInv` on the run's instance.

**ProjectKnowledge.** The request that stores the items of a text is the only one that does
(`WorkApart`) and knows how many there are to be (`WorkSound`); what is stored is counted by a
bijection between new rows and categories (`ItemsAdded`, `NextCategory`). That no refused item is
told needs only that every step which approves an item looks at its status then.

**ImportWorkflow.** `RowsSound`: what imports wrote was previewed, and change rows hold their own
batch's writing, never hand-typed content. `InFlight`: what each waiting request still knows.
`Stack`: the open change rows of a unit are stacked, the unit holds what the highest wrote, and
each row's before is what the row below it wrote. `Bottoms`: below the lowest lies the initial
content. The stack is what a rollback needs: it changes a unit only if it still is as the
rollback's row left it, so that row is the highest (`UndoneOnTop`), and taking it off leaves the
unit as the next one left it, in whatever order batches are rolled back. `Stack` and `Bottoms`
except units in `lost` (a transaction wrote over what it had not read) and, at the bottom,
`touched`. TLC checked `ImportInv` on the run's instance and, with five requests and three change
rows, on 1.7 million states.

**FlatImport.** What a transaction reads may be old when it writes. `ReadSound`: of a unit that was
not deleted since, the batch that last wrote what was read is one that still has its change row
(`RowForWriter`, `KnownWriter`). A confirmation therefore meets the unique index when its batch
wrote the unit before, and the id that is gone when the unit was deleted; in every other case what
it stores to put back is another's work (`CommitInv`). A rollback finds the rows it read with the
same before, only marked (`OneRow`), so what it puts back has a known writer too
(`RemoveBatchInv`). TLC checked `FlatInv` with two batches and five requests on 18 million states.

**ImportPhases.** A request acts on a sheet it read some time ago, so the invariant speaks of every
row that was read, not of the stored one: a sheet whose preview counts gives the units phases that
were shown for its version, or the project changed since (`Shown`). It is kept because versions
only grow and groups change with the version (`SameGroups`), because a name or alias that changes
drifts every version there was, and because a word's phase, once deleted, shows nothing. TLC
checked `PhaseInv` with six requests on 1.9 million states. No version is unasked for: each
request that will write one was counted when it began, so a sheet's version and the requests under
way to write one are together at most one more than the requests made
(`VersionInv`, `OneMore`, `OneLess`).

**Parts run together.** `ImportParts` and `ServiceParts` conjoin the type invariants of parts that
share no variables. Each conjunct follows from the part's own inductive invariant (`FlatKeepsForm`
from the form of batch rows, `FlatKept`; `PhasesKeepForm`; `ServicesKeepForm`); a step of one part
leaves the others' variables alone, and PTL joins the boxes (`ImportsKeepForm`).

## 12. What is only model-checked

* *Liveness*: `CacheConverges`. TLAPS has no rules for ENABLED here, and fairness is stated by it.
* *Disagreements*: the six violation runs are counterexamples, not theorems.
* *Induction over data*: what a recursive function computes is proved only where the least element
  of a set of naturals could take the place of induction (`AfterExists`, `FilteredIs`, `PickIs`,
  `RankExists`).

## 13. What is not modelled

Prompts and the patterns that read a message, wording, style and languages; rates as numbers and
rounding; storage, maps, authentication, exports and the Android shell (pure input and output);
user interfaces other than the chat page; `sendHumanMessage` (it appends a message after a check
of the mode). Components modelled in part are listed with what is left out in `PROJECT.json`.
