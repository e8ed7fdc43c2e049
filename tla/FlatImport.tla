----------------------------- MODULE FlatImport -----------------------------
(***************************************************************************)
(* Imports of a batch that has no stored tables (imports/                  *)
(* importer.service.ts, the branches behind `item.sheets.length`): an      *)
(* upload whose file or tables could not be stored, and what older         *)
(* versions left.  Such a batch keeps one analysis of one table, which     *)
(* resolve() rewrites as a whole, and a preview that no version ties to    *)
(* the analysis.  As soon as an unfinished batch with a stored file is     *)
(* read, it is given tables and goes on as in ImportWorkflow.              *)
(***************************************************************************)
EXTENDS ImportWorkflow

CONSTANTS FlatBatches,      \* batches without tables
          FlatAdmins,       \* requests in flight
          Meanings,         \* contents the columns of the table can give a unit
          Unreadable,       \* the meanings under which some row has an invalid value
          Lacking,          \* units whose row lacks a value that has a row policy
          RowsOf,           \* the units in the rows of a batch's table
          Workbooks,        \* what the first analysis of an upload may say
          RowPolicies,      \* for rows that lack a value: LEAVE_EMPTY, EXCLUDE_ROWS, CONTACT_SALES
          MissingPolicies,  \* for units no row names: LEAVE_UNCHANGED, MARK_UNAVAILABLE, ARCHIVE
          MaxFlatRequests   \* bound on the requests about batches and units

ASSUME FlatConstants ==
  /\ Null \notin FlatBatches \cup Units /\ IsFiniteSet(Units)
  /\ RowsOf \in [FlatBatches -> SUBSET Units]

VARIABLES batch,      \* DataImport and its ImportIssue rows
          stock,      \* Unit
          erased,     \* how often a unit was deleted: one created again has another id
          change,     \* ImportUnitChange
          flatAdmin,  \* where each request in flight is
          flatAsked,  \* how many requests were made after uploads
          wrote       \* history: the batches that wrote a unit since it was created

flatVars == <<batch, stock, erased, change, flatAdmin, flatAsked, wrote>>

Ended == {"COMPLETED", "FAILED", "CANCELLED", "ROLLED_BACK"}
Context == {"projectId", "locationId"}
Needs == {"workbook:selection", "mapping:externalUnitId", "currency", "column"} \cup Context
Fields == Needs \cup {"policy", "missingUnitPolicy"}

\* What the analysis of a batch says: the table, its columns and context, the row policy.
Analysis ==
  [table : BOOLEAN, identity : BOOLEAN, currency : BOOLEAN, context : SUBSET Context,
   meaning : Meanings, policy : RowPolicies]

\* A unit as an import or an admin left it; `by` is the provenance an imported row stores.
StockRows == [value : Meanings \cup {"typed"}, status : {"AVAILABLE", "CONTACT_SALES", "UNAVAILABLE"},
             archived : BOOLEAN, by : FlatBatches \cup {Null}]
Typed == [value |-> "typed", status |-> "AVAILABLE", archived |-> FALSE, by |-> Null]

ASSUME FlatData == Workbooks \subseteq Analysis /\ Null \notin StockRows

FlatFree == [at |-> "free", batch |-> Null, read |-> Null, to |-> Null]

PutFlat(b, row) == batch' = [batch EXCEPT ![b] = row]
MoveFlat(p, job) == flatAdmin' = [flatAdmin EXCEPT ![p] = job]
Enter(p) == flatAdmin[p].at = "free" /\ flatAsked < MaxFlatRequests /\ flatAsked' = flatAsked + 1

\* What remembered columns, a chosen column, header row or policy may make of an analysis.
WithColumns(a, identities) ==
  {r \in Analysis : r.identity \in identities /\ r = [a EXCEPT !.meaning = r.meaning, !.identity = r.identity]}

\* getImportReadiness of a batch without tables.
ContextValid(a) == a.table /\ a.identity /\ a.currency /\ a.context = Context
CanPreviewFlat(row) == row.open = {} /\ ContextValid(row.analysis)
Derived(row) == IF row.status \in Ended THEN row.status
                ELSE IF CanPreviewFlat(row) THEN "READY" ELSE "NEEDS_INPUT"

\* The batches the branches of this module serve: finished ones, and those without a file.
Flat(b) == batch[b].status # "unused" /\ ~batch[b].tables /\ (batch[b].status \in Ended \/ ~batch[b].file)

-----------------------------------------------------------------------------
(* analyze *)

\* What is found in a workbook: a table, with the columns the developer's imports are
\* remembered by, and the context of the chosen project, its developer and its location.
FoundAnalysis(a) == a.policy = "LEAVE_EMPTY" /\ a.context \in {{}, {"projectId"}, Context}

\* An upload whose file, or whose tables, could not be stored: the batch is FAILED and has
\* its analysis, but no questions.  (One that succeeds is ImportWorkflow's.)
Analyze(p, b) ==
  /\ flatAdmin[p].at = "free" /\ batch[b].status = "unused"
  /\ \E a \in Workbooks, stored \in BOOLEAN, x \in MissingPolicies :
       /\ FoundAnalysis(a)
       /\ PutFlat(b, [status |-> "FAILED", file |-> stored, tables |-> FALSE, analysis |-> a,
                  open |-> {}, preview |-> "none", missing |-> x])
  /\ UNCHANGED <<stock, erased, change, flatAdmin, flatAsked, wrote>>

-----------------------------------------------------------------------------
(* get *)

\* A request ends with get(): an unfinished batch whose file is stored is given tables;
\* otherwise the status is derived, and written by id when it differs - or, when a request
\* refreshes the readiness, in any case.
Get(p) ==
  LET b == flatAdmin[p].batch  row == batch[b] IN
  /\ flatAdmin[p].at \in {"get", "refresh"}
  /\ \/ /\ ~row.tables /\ row.status \notin Ended /\ row.file
        /\ \E s \in {"READY", "NEEDS_INPUT"} :
             PutFlat(b, [row EXCEPT !.status = s, !.tables = TRUE, !.preview = "none"])
        /\ MoveFlat(p, FlatFree)
     \/ /\ row.tables \/ (Flat(b) /\ flatAdmin[p].at = "get" /\ Derived(row) = row.status)
        /\ MoveFlat(p, FlatFree) /\ UNCHANGED batch
     \/ /\ Flat(b) /\ (flatAdmin[p].at = "refresh" \/ Derived(row) # row.status)
        /\ MoveFlat(p, [flatAdmin[p] EXCEPT !.at = "repair", !.to = Derived(row)])
        /\ UNCHANGED batch
  /\ UNCHANGED <<stock, erased, change, flatAsked, wrote>>

RepairFlat(p) ==
  /\ flatAdmin[p].at = "repair"
  /\ PutFlat(flatAdmin[p].batch, [batch[flatAdmin[p].batch] EXCEPT !.status = flatAdmin[p].to])
  /\ MoveFlat(p, [flatAdmin[p] EXCEPT !.at = "get"])
  /\ UNCHANGED <<stock, erased, change, flatAsked, wrote>>

-----------------------------------------------------------------------------
(* resolve *)

\* The analyses an answer may make of the one the request has read.  A project comes with
\* its developer, may come with its location and with remembered columns.
ResolvedAnalysis(a, field) ==
  CASE field \in {"workbook:selection", "column"} -> WithColumns([a EXCEPT !.table = TRUE], {a.identity, TRUE})
    [] field = "mapping:externalUnitId" -> {[a EXCEPT !.identity = TRUE]}
    [] field = "currency" -> {[a EXCEPT !.currency = TRUE]}
    [] field = "projectId" -> {[r EXCEPT !.context = @ \cup {"projectId"} \cup x] :
                                 r \in WithColumns(a, {a.identity, TRUE}), x \in SUBSET {"locationId"}}
    [] field = "locationId" -> {[a EXCEPT !.context = @ \cup {"locationId"}]}
    [] field = "policy" -> {[a EXCEPT !.policy = x] : x \in RowPolicies}
    [] field = "missingUnitPolicy" -> {a}

\* The issues an answer closes: its own, and for a project those of what came with it.
Closes(field, r) == {field} \cup (IF field = "projectId" THEN r.context \cup {"column"} ELSE {})

BeginResolve(p, b) ==
  /\ Enter(p) /\ Flat(b)
  /\ MoveFlat(p, [FlatFree EXCEPT !.at = "resolve", !.batch = b, !.read = batch[b].analysis])
  /\ UNCHANGED <<batch, stock, erased, change, wrote>>

\* Analysis and issues in one transaction.  The policy for missing units and the columns
\* projectId and developerId of the row are written before it, in the same step here.
Resolve(p) ==
  LET b == flatAdmin[p].batch IN
  /\ flatAdmin[p].at = "resolve"
  /\ \E field \in Fields \ {"workbook:selection"}, x \in MissingPolicies :
     \E r \in ResolvedAnalysis(flatAdmin[p].read, field) :
       /\ field # "missingUnitPolicy" => x = batch[b].missing
       /\ PutFlat(b, [batch[b] EXCEPT !.analysis = r, !.open = @ \ Closes(field, r), !.missing = x])
  /\ MoveFlat(p, [flatAdmin[p] EXCEPT !.at = "refresh"])
  /\ UNCHANGED <<stock, erased, change, flatAsked, wrote>>

\* createIssues: a table that is not sure asks for nothing else; otherwise what the columns
\* and the context leave to ask.
NewIssues(a) ==
  {{"workbook:selection"}} \cup
  {{i \in {"mapping:externalUnitId"} : ~a.identity} \cup (Context \ a.context) \cup more :
     more \in SUBSET {"currency", "column"}}

\* A chosen header row: a new table, its issues, and the batch is unfinished again; it has a
\* file, so that the next read gives it tables.
ReselectWorkbookTable(p) ==
  LET b == flatAdmin[p].batch IN
  /\ flatAdmin[p].at = "resolve" /\ batch[b].file
  /\ \E r \in ResolvedAnalysis(flatAdmin[p].read, "workbook:selection") : \E open \in NewIssues(r) :
       PutFlat(b, [batch[b] EXCEPT !.analysis = r, !.status = "NEEDS_INPUT", !.open = open])
  /\ MoveFlat(p, [flatAdmin[p] EXCEPT !.at = "refresh"])
  /\ UNCHANGED <<stock, erased, change, flatAsked, wrote>>

\* No stored file, an unknown project, location, currency, column: nothing changes.
ResolveRefused(p) ==
  /\ flatAdmin[p].at = "resolve"
  /\ MoveFlat(p, FlatFree)
  /\ UNCHANGED <<batch, stock, erased, change, flatAsked, wrote>>

-----------------------------------------------------------------------------
(* preview *)

\* rowErrors: a row without identity, a value that cannot be read, or no currency.
AnalysisValid(a) == a.identity /\ a.currency /\ a.meaning \notin Unreadable

BeginPreviewFlat(p, b) ==
  /\ Enter(p) /\ Flat(b) /\ CanPreviewFlat(batch[b])
  /\ MoveFlat(p, [FlatFree EXCEPT !.at = "preview", !.batch = b, !.read = batch[b]])
  /\ UNCHANGED <<batch, stock, erased, change, wrote>>

\* The verdict is about the analysis that was read.  It is stored with the status, also
\* over a status that is final.
PreviewFlat(p) ==
  LET b == flatAdmin[p].batch  valid == AnalysisValid(flatAdmin[p].read.analysis) IN
  /\ flatAdmin[p].at = "preview"
  /\ PutFlat(b, [batch[b] EXCEPT !.preview = IF valid THEN "good" ELSE "blocked",
                             !.status = IF valid THEN "READY" ELSE "NEEDS_INPUT"])
  /\ MoveFlat(p, [flatAdmin[p] EXCEPT !.at = "get"])
  /\ UNCHANGED <<stock, erased, change, flatAsked, wrote>>

-----------------------------------------------------------------------------
(* confirm *)

\* Neither the status nor a version is compared: a good preview is enough.
BeginConfirmFlat(p, b) ==
  /\ Enter(p) /\ Flat(b) /\ batch[b].open = {} /\ batch[b].preview = "good"
  /\ MoveFlat(p, [FlatFree EXCEPT !.at = "importing", !.batch = b, !.read = batch[b]])
  /\ UNCHANGED <<batch, stock, erased, change, wrote>>

Importing(p) ==
  /\ flatAdmin[p].at = "importing"
  /\ PutFlat(flatAdmin[p].batch, [batch[flatAdmin[p].batch] EXCEPT !.status = "IMPORTING"])
  /\ MoveFlat(p, [flatAdmin[p] EXCEPT !.at = "rows"])
  /\ UNCHANGED <<stock, erased, change, flatAsked, wrote>>

\* A row that does not validate, or no context: the batch needs input again.
ConfirmInvalid(p) ==
  LET a == flatAdmin[p].read.analysis IN
  /\ flatAdmin[p].at = "rows" /\ ~(AnalysisValid(a) /\ a.context = Context)
  /\ PutFlat(flatAdmin[p].batch, [batch[flatAdmin[p].batch] EXCEPT !.status = "NEEDS_INPUT"])
  /\ MoveFlat(p, FlatFree)
  /\ UNCHANGED <<stock, erased, change, flatAsked, wrote>>

\* Rows without an identity or excluded by the policy are not imported ...
Taken(b, a) == {u \in RowsOf[b] : a.identity /\ (u \in Lacking => a.policy # "EXCLUDE_ROWS")}

\* ... and what a row makes of the unit.
RowWritten(b, a, u, old) ==
  [value |-> a.meaning,
   status |-> IF u \in Lacking /\ a.policy = "CONTACT_SALES" THEN "CONTACT_SALES"
              ELSE IF old = Null THEN "AVAILABLE" ELSE old.status,
   archived |-> old # Null /\ old.archived, by |-> b]

Differs(x, y) == x.value # y.value \/ x.status # y.status
ToWrite(b, a, seen) ==
  {u \in Taken(b, a) : seen[u] = Null \/ Differs(seen[u], RowWritten(b, a, u, seen[u]))}

\* Units of the project that no imported row names.
Missed(b, a, policy, seen) ==
  IF policy = "LEAVE_UNCHANGED" THEN {} ELSE {u \in Units \ Taken(b, a) : seen[u] # Null}
Withdrawn(policy, old) ==
  IF policy = "ARCHIVE" THEN [old EXCEPT !.archived = TRUE]
  ELSE [old EXCEPT !.status = "UNAVAILABLE"]

\* The transaction's reads ...
ReadUnits(p) ==
  LET a == flatAdmin[p].read.analysis IN
  /\ flatAdmin[p].at = "rows" /\ AnalysisValid(a) /\ a.context = Context
  /\ MoveFlat(p, [flatAdmin[p] EXCEPT !.at = "commit", !.to = [seen |-> stock, life |-> erased]])
  /\ UNCHANGED <<batch, stock, erased, change, flatAsked, wrote>>

\* Mutant: the unit is read again when its row is written.
RowReadLate(b, u, old, new) ==
  [batch |-> b, unit |-> u, linked |-> TRUE, reverted |-> FALSE, before |-> new, after |-> new,
   no |-> Cardinality(change)]

\* ... the change rows it adds ...
ChangeRow(b, u, old, new) ==
  [batch |-> b, unit |-> u, linked |-> TRUE, reverted |-> FALSE, before |-> old, after |-> new,
   no |-> Cardinality(change)]
RowOf(b, u) == \E c \in change : c.batch = b /\ c.unit = u /\ c.linked

\* ... and the unique indexes of units and change rows, which together with a unit that is
\* gone fail it.
Clash(b, u, read) == RowOf(b, u) \/ IF read.seen[u] = Null THEN stock[u] # Null ELSE erased[u] # read.life[u]

Outcome(p) ==
  LET b == flatAdmin[p].batch  a == flatAdmin[p].read.analysis  seen == flatAdmin[p].to.seen
      missing == flatAdmin[p].read.missing IN
  [u \in ToWrite(b, a, seen) \cup Missed(b, a, missing, seen) |->
     IF u \in Taken(b, a) THEN RowWritten(b, a, u, seen[u]) ELSE Withdrawn(missing, seen[u])]

\* An update only writes what the row gives: an archived unit stays archived, whoever did it.
Commit(p) ==
  LET b == flatAdmin[p].batch  seen == flatAdmin[p].to.seen  new == Outcome(p) IN
  /\ flatAdmin[p].at = "commit" /\ \A u \in DOMAIN new : ~Clash(b, u, flatAdmin[p].to)
  /\ stock' = [u \in Units |-> IF u \in DOMAIN new THEN new[u] ELSE stock[u]]
  /\ change' = change \cup {ChangeRow(b, u, seen[u], new[u]) : u \in DOMAIN new}
  /\ wrote' = [u \in Units |-> wrote[u] \cup (IF u \in DOMAIN new THEN {b} ELSE {})]
  /\ PutFlat(b, [batch[b] EXCEPT !.status = "COMPLETED"])
  /\ MoveFlat(p, [flatAdmin[p] EXCEPT !.at = "get"])
  /\ UNCHANGED <<erased, flatAsked>>

\* Any other failure: nothing is committed and the batch is marked FAILED.
ConfirmFlatFails(p) ==
  /\ flatAdmin[p].at = "commit"
  /\ \E u \in DOMAIN Outcome(p) : Clash(flatAdmin[p].batch, u, flatAdmin[p].to)
  /\ PutFlat(flatAdmin[p].batch, [batch[flatAdmin[p].batch] EXCEPT !.status = "FAILED"])
  /\ MoveFlat(p, FlatFree)
  /\ UNCHANGED <<stock, erased, change, flatAsked, wrote>>

-----------------------------------------------------------------------------
(* removeBatch: ROLLBACK_SAFE, DELETE_EXCLUSIVE_RECORDS *)

BeginRemoveBatch(p, b) ==
  /\ Enter(p) /\ Flat(b) /\ batch[b].status \in {"COMPLETED", "FAILED", "ROLLED_BACK"}
  /\ MoveFlat(p, [FlatFree EXCEPT !.at = "remove", !.batch = b])
  /\ UNCHANGED <<batch, stock, erased, change, wrote>>

\* rollbackConflict: a later import, a unit that is gone, or is not as the batch left it.
LaterChange(c) == \E d \in change : d.unit = c.unit /\ d.linked /\ ~d.reverted /\ d.batch # c.batch /\ d.no > c.no
Conflicting(c) == ~c.linked \/ LaterChange(c) \/ stock[c.unit] = Null \/ stock[c.unit] # c.after

\* The transaction's reads: the changes it will revert.  A unit with attached media is kept.
ReadChanges(p) ==
  /\ flatAdmin[p].at = "remove"
  /\ LET mine == {c \in change : c.batch = flatAdmin[p].batch /\ ~c.reverted /\ ~Conflicting(c)}
         created == {c \in mine : c.before = Null} IN
     \E mode \in {"ROLLBACK_SAFE", "DELETE_EXCLUSIVE_RECORDS"}, withMedia \in SUBSET created :
       MoveFlat(p, [flatAdmin[p] EXCEPT !.at = "revert",
                !.to = (IF mode = "ROLLBACK_SAFE" THEN mine ELSE created) \ withMedia])
  /\ UNCHANGED <<batch, stock, erased, change, flatAsked, wrote>>

\* A unit that is deleted leaves its change rows without it.
Unlinked(c, gone) == IF c.unit \in gone THEN [c EXCEPT !.linked = FALSE] ELSE c

\* The row of a change as it was read is there, and so is its unit.
Standing(c) == \E d \in change : d.linked /\ d = [c EXCEPT !.reverted = d.reverted]

\* Created units are deleted, the others are put back, whatever they are by now.
RemoveBatch(p) ==
  LET b == flatAdmin[p].batch  mine == flatAdmin[p].to
      gone == {c.unit : c \in {d \in mine : d.before = Null}} IN
  /\ flatAdmin[p].at = "revert" /\ \A c \in mine : Standing(c)
  /\ stock' = [u \in Units |-> IF \E c \in mine : c.unit = u
                               THEN (CHOOSE c \in mine : c.unit = u).before ELSE stock[u]]
  /\ change' = {Unlinked(IF c \in mine THEN [c EXCEPT !.reverted = TRUE] ELSE c, gone) : c \in change}
  /\ wrote' = [u \in Units |-> IF u \in gone THEN {} ELSE wrote[u]]
  /\ erased' = [u \in Units |-> IF u \in gone THEN erased[u] + 1 ELSE erased[u]]
  /\ PutFlat(b, [batch[b] EXCEPT !.status = "ROLLED_BACK"])
  /\ MoveFlat(p, [flatAdmin[p] EXCEPT !.at = "get"])
  /\ UNCHANGED flatAsked

\* A unit that went away fails the transaction.
RemoveBatchFails(p) ==
  /\ flatAdmin[p].at = "revert" /\ \E c \in flatAdmin[p].to : ~Standing(c)
  /\ MoveFlat(p, FlatFree)
  /\ UNCHANGED <<batch, stock, erased, change, flatAsked, wrote>>

-----------------------------------------------------------------------------
(* Admins at work on the units (admin/catalog.controller.ts) *)

EditUnit(u) ==
  /\ flatAsked < MaxFlatRequests /\ flatAsked' = flatAsked + 1
  /\ stock' = [stock EXCEPT ![u] = IF @ = Null THEN Typed ELSE [@ EXCEPT !.value = "typed"]]
  /\ UNCHANGED <<batch, erased, change, flatAdmin, wrote>>

\* DELETE_SAFE counts the change rows of a unit first ...
BeginRemoveUnit(p, u) ==
  /\ Enter(p) /\ stock[u] # Null /\ ~\E c \in change : c.unit = u /\ c.linked
  /\ MoveFlat(p, [FlatFree EXCEPT !.at = "delete", !.read = u, !.to = erased[u]])
  /\ UNCHANGED <<batch, stock, erased, change, wrote>>

\* ... and deletes the ids it was given: a unit created again meanwhile has another.
RemoveUnit(p) ==
  LET u == flatAdmin[p].read IN
  /\ flatAdmin[p].at = "delete"
  /\ IF erased[u] = flatAdmin[p].to
     THEN /\ stock' = [stock EXCEPT ![u] = Null]
          /\ erased' = [erased EXCEPT ![u] = erased[u] + 1]
          /\ change' = {Unlinked(c, {u}) : c \in change}
          /\ wrote' = [wrote EXCEPT ![u] = {}]
     ELSE UNCHANGED <<stock, erased, change, wrote>>
  /\ MoveFlat(p, FlatFree)
  /\ UNCHANGED <<batch, flatAsked>>

\* The process dies in the middle of a request.
CrashFlat(p) ==
  /\ flatAdmin[p].at # "free"
  /\ MoveFlat(p, FlatFree)
  /\ UNCHANGED <<batch, stock, erased, change, flatAsked, wrote>>

-----------------------------------------------------------------------------
\* Units typed in by hand, or none, and no batch.
FlatInit ==
  /\ batch = [b \in FlatBatches |->
       [status |-> "unused", file |-> FALSE, tables |-> FALSE, open |-> {}, preview |-> "none",
        analysis |-> Null, missing |-> Null]]
  /\ stock = [u \in Units |-> Null] /\ erased = [u \in Units |-> 0] /\ change = {} /\ wrote = [u \in Units |-> {}]
  /\ flatAdmin = [p \in FlatAdmins |-> FlatFree] /\ flatAsked = 0

FlatNext ==
  \/ \E u \in Units : EditUnit(u)
  \/ \E p \in FlatAdmins :
       \/ \E b \in FlatBatches :
            \/ Analyze(p, b) \/ BeginResolve(p, b) \/ BeginPreviewFlat(p, b) \/ BeginConfirmFlat(p, b)
            \/ BeginRemoveBatch(p, b)
       \/ \E u \in Units : BeginRemoveUnit(p, u)
       \/ Get(p) \/ RepairFlat(p) \/ Resolve(p) \/ ReselectWorkbookTable(p) \/ ResolveRefused(p)
       \/ PreviewFlat(p) \/ Importing(p) \/ ConfirmInvalid(p) \/ ReadUnits(p) \/ Commit(p) \/ ConfirmFlatFails(p)
       \/ ReadChanges(p) \/ RemoveBatch(p) \/ RemoveBatchFails(p) \/ RemoveUnit(p) \/ CrashFlat(p)

FlatSpec == FlatInit /\ [][FlatNext]_flatVars

-----------------------------------------------------------------------------
\* What is written keeps its form.
FlatTyped ==
  /\ \A b \in FlatBatches : batch[b].status # "unused" =>
       /\ batch[b].status \in Ended \cup {"IMPORTING", "READY", "NEEDS_INPUT"}
       /\ batch[b].analysis \in Analysis /\ batch[b].open \subseteq Needs
       /\ batch[b].missing \in MissingPolicies /\ batch[b].preview \in {"none", "good", "blocked"}
  /\ \A u \in Units : wrote[u] \subseteq FlatBatches /\ (stock[u] = Null => wrote[u] = {})

\* Whatever is confirmed again, rolled back and confirmed, edited or removed meanwhile: a
\* batch that wrote a unit that exists has one change row for it, and what that row would
\* put back is never the batch's own work.
Recorded == \A u \in Units : \A b \in wrote[u] : Cardinality({c \in change : c.batch = b /\ c.unit = u /\ c.linked}) = 1
NeverItsOwnBefore == \A c \in change : c.linked /\ c.before # Null => c.before.by # c.batch
Traceable == Recorded /\ NeverItsOwnBefore

\* Every row an import wrote can be traced to its batch: with tables (Owned) and without.
Traced == Owned /\ Traceable
=============================================================================
