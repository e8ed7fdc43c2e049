--------------------------- MODULE ImportWorkflow ---------------------------
(***************************************************************************)
(* Inventory imports (imports/importer.service.ts), the catalogue edits of *)
(* the same units (admin/catalog.controller.ts).                           *)
(*                                                                         *)
(* An admin request runs in a worker, one database statement or            *)
(* transaction at a time, so the requests of several admins interleave     *)
(* between statements.  A transaction that reads rows and writes them      *)
(* later (confirmation, rollback, correction) is two steps, since Postgres *)
(* runs it READ COMMITTED.  A batch has one table; leaving that table out  *)
(* (action IGNORE) is an incomplete mapping.                               *)
(***************************************************************************)
EXTENDS Integers, FiniteSets, TLC

CONSTANTS
  Imports,      \* import batches
  Units,        \* unit identities (developer, project, external id)
  Mappings,     \* meanings the columns and the context of a table can have
  Complete,     \* the mappings with an identity, project, phase, currency
  Decided,      \* the mappings that leave no column or value undecided
  Values,       \* contents of a unit
  Proposal,     \* the mapping the detection of a batch's table proposes
  Cell,         \* the content a batch gives a unit under a mapping
  Manual,       \* the content an admin types in by hand
  Initial,      \* the content of a unit before any import, Null when there is none
  Workers,      \* admin requests in flight
  Null,
  MaxRequests,  \* bound on the requests made
  MaxVersion,   \* bound on the version of a mapping that is edited again
  MaxChanges    \* bound on the change rows ever written

\* Besides a content, a cell may be missing (no such row) or not valid.
Absent  == "absent"
Invalid == "invalid"

\* A unit: its content, the batch that created it, the last import that wrote it.
Origins == [imp : Imports, version : Nat]
UnitRows == [value : Values, source : Imports \cup {Null},
             wrote : Origins \cup {Null}, media : BOOLEAN]

ASSUME ImportConstants ==
  /\ Complete \subseteq Mappings /\ Decided \subseteq Mappings
  /\ Proposal \in [Imports -> Mappings] /\ Null \notin Mappings \cup Imports \cup Units
  /\ Initial \in [Units -> Values \cup {Null}] /\ Null \notin Values \cup Origins \cup UnitRows
  /\ Cell \in [Imports -> [Mappings -> [Units -> Values \cup {Absent, Invalid}]]]
  /\ Manual \in Values /\ Absent \notin Values /\ Invalid \notin Values
  \* What is typed in by hand can be told from what the tables hold.
  /\ \A i \in Imports, m \in Mappings, u \in Units : Cell[i][m][u] # Manual
  /\ MaxRequests \in Nat /\ MaxVersion \in Nat /\ MaxChanges \in Nat

VARIABLES
  imports,      \* DataImport and its ImportSheet
  units,        \* Unit
  changes,      \* ImportUnitChange
  corrections,  \* the ImportCorrection of a batch
  worker,       \* where each request in flight is
  requests,     \* how many requests were made
  previewed,    \* history: the mapping versions a preview went through
  lost,         \* history: the units a transaction wrote over a write it had not seen
  touched       \* history: the units edited by hand or by a correction

db   == <<imports, units, changes, corrections>>
history == <<previewed, lost, touched>>
vars == <<db, worker, requests, history>>

Finished == {"COMPLETED", "FAILED", "CANCELLED", "ROLLED_BACK"}
Statuses == {"NONE", "ANALYZING", "NEEDS_INPUT", "READY", "IMPORTING", "DELETED"}
              \cup Finished

NoImport == [status |-> "NONE", mapping |-> Null, version |-> 0,
             previewVersion |-> 0, issues |-> FALSE, preview |-> Null]
NoCorrection == [state |-> "NONE", mapping |-> Null, items |-> {}]
\* A batch whose table was just read.
NewTable(i) == [status |-> "NEEDS_INPUT", mapping |-> Proposal[i], version |-> 1,
                previewVersion |-> 0, issues |-> Proposal[i] \notin Decided,
                preview |-> Null]
Idle     == [at |-> "idle", imp |-> Null, arg |-> Null,
             map |-> Null, version |-> 0, read |-> Null]

\* The row is in the database and its table was detected.
Stored(i) == imports[i].status \notin {"NONE", "ANALYZING", "DELETED"}

-----------------------------------------------------------------------------
\* Readiness, computed from one read of the batch

CanPreview(b) == ~b.issues /\ b.mapping \in Complete

\* Mutant: a preview of an earlier meaning of the table still counts.
PreviewExists(b) == b.preview # Null
PreviewValid(b) == b.preview # Null /\ b.previewVersion = b.version

CanConfirm(b) == CanPreview(b) /\ PreviewValid(b) /\ b.preview.canConfirm

DerivedStatus(b) ==
  IF b.status \in Finished THEN b.status
  ELSE IF CanPreview(b) THEN "READY" ELSE "NEEDS_INPUT"

\* The rows of a batch under a mapping.
Rows(i, m)      == {u \in Units : Cell[i][m][u] # Absent}
RowsValid(i, m) == m \in Mappings /\ \A u \in Rows(i, m) : Cell[i][m][u] # Invalid

ChangesOf(i) == {c \in changes : c.imp = i}

At(w, place) == worker[w].at = place
Go(w, rec)   == worker' = [worker EXCEPT ![w] = rec]
Goto(w, place) == Go(w, [worker[w] EXCEPT !.at = place])
Leave(w)     == Go(w, Idle)

\* A transaction sets the status of batch i.
Becomes(i, status) == imports' = [imports EXCEPT ![i] = [imports[i] EXCEPT !.status = status]]

-----------------------------------------------------------------------------
\* Reading a batch: get() repairs the stored status of an unfinished batch that
\* differs from the derived one.  The write names only the row: by then the
\* batch may have moved on.

NeedsRepair(b) == b.status \notin Finished /\ b.status # DerivedStatus(b)

\* A request that ends by reading batch i, whose row is now b.
EndWithGet(w, i, b) ==
  Go(w, IF NeedsRepair(b)
        THEN [Idle EXCEPT !.at = "repair", !.imp = i, !.arg = DerivedStatus(b)]
        ELSE Idle)

\* One statement on the row of the request's batch; without a row it fails.
Write(w, b) ==
  LET i == worker[w].imp
  IN  IF Stored(i) THEN imports' = [imports EXCEPT ![i] = b] ELSE UNCHANGED imports

WriteThenGet(w, b) ==
  /\ Write(w, b)
  /\ IF Stored(worker[w].imp) THEN EndWithGet(w, worker[w].imp, b) ELSE Leave(w)
  /\ UNCHANGED <<units, changes, corrections, history>>

Row(w) == imports[worker[w].imp]

Poll(w, i) ==
  /\ At(w, "idle") /\ Stored(i) /\ NeedsRepair(imports[i])
  /\ EndWithGet(w, i, imports[i])
  /\ UNCHANGED <<db, history>>

Repair(w) ==
  /\ At(w, "repair")
  /\ WriteThenGet(w, [Row(w) EXCEPT !.status = worker[w].arg])

\* refreshImportReadiness: get, write the status it returned, get again.
Settle(w) ==
  /\ At(w, "settle")
  /\ WriteThenGet(w, [Row(w) EXCEPT !.status = worker[w].arg])

ToSettle(w, b) ==
  Go(w, [Idle EXCEPT !.at = "settle", !.imp = worker[w].imp, !.arg = DerivedStatus(b)])

-----------------------------------------------------------------------------
\* Upload: the row first, the object in storage next, then the table.

Upload(w, i) ==
  /\ At(w, "idle") /\ imports[i].status = "NONE"
  /\ Becomes(i, "ANALYZING")
  /\ Go(w, [Idle EXCEPT !.at = "store", !.imp = i])
  /\ UNCHANGED <<units, changes, corrections, history>>

StoreFails(w) ==
  /\ At(w, "store")
  /\ Becomes(worker[w].imp, "FAILED")
  /\ Leave(w)
  /\ UNCHANGED <<units, changes, corrections, history>>

\* initializeImportSheets proposes a mapping, records the open issues of the
\* table, clears the preview and refreshes the readiness.
StoreWorkbook(w) ==
  /\ At(w, "store")
  /\ imports' = [imports EXCEPT ![worker[w].imp] = NewTable(worker[w].imp)]
  /\ ToSettle(w, NewTable(worker[w].imp))
  /\ UNCHANGED <<units, changes, corrections, history>>

-----------------------------------------------------------------------------
\* Editing the meaning of a table

\* kind: "sheet" (context, columns), "project" (a value of the project column),
\* "phase" (a value of the phase column: an alias of the project, which is in
\* ImportPhases; the sheet keeps its meaning).  Only the first two refuse a
\* completed batch.
EditKinds == {"sheet", "project", "phase"}

Edit(w, i, kind, m) ==
  /\ At(w, "idle") /\ Stored(i) /\ imports[i].version < MaxVersion
  /\ (kind = "phase") = (m = imports[i].mapping)
  /\ kind # "phase" => imports[i].status # "COMPLETED"
  /\ Go(w, [Idle EXCEPT !.at = "edit", !.imp = i, !.arg = kind, !.map = m])
  /\ UNCHANGED <<db, history>>

SheetEdited(b, m) == [b EXCEPT !.mapping = m, !.version = b.version + 1, !.previewVersion = 0]

\* A mapped value also clears the preview and asks for input.
ValueMapped(b, m) == [SheetEdited(b, m) EXCEPT !.preview = Null, !.status = "NEEDS_INPUT"]

EditWrite(w) ==
  /\ At(w, "edit")
  /\ LET r == worker[w]
         m == IF r.arg = "phase" THEN Row(w).mapping ELSE r.map
     IN  /\ Write(w, IF r.arg = "sheet" THEN SheetEdited(Row(w), m) ELSE ValueMapped(Row(w), m))
         /\ IF Stored(r.imp) THEN Go(w, [r EXCEPT !.at = "issues", !.map = m]) ELSE Leave(w)
  /\ UNCHANGED <<units, changes, corrections, history>>

\* rebuildSheetIssues, from the table as the request left it or finds it now, then
\* the refresh.
EditIssues(w) ==
  /\ At(w, "issues")
  /\ \E m \in {worker[w].map, Row(w).mapping} :
       LET b == [Row(w) EXCEPT !.issues = m \notin Decided]
       IN  /\ Write(w, b)
           /\ IF Stored(worker[w].imp) THEN ToSettle(w, b) ELSE Leave(w)
  /\ UNCHANGED <<units, changes, corrections, history>>

-----------------------------------------------------------------------------
\* Preview

\* No request below looks at the status of the batch, only at its readiness.
Preview(w, i) ==
  /\ At(w, "idle") /\ Stored(i) /\ CanPreview(imports[i])
  /\ Go(w, [Idle EXCEPT !.at = "preview", !.imp = i, !.map = imports[i].mapping,
                        !.version = imports[i].version])
  /\ UNCHANGED <<db, history>>

\* The table keeps the version the request read, not the one it has now.
PreviewSheet(w) ==
  /\ At(w, "preview")
  /\ LET r == worker[w] IN
     /\ Write(w, [Row(w) EXCEPT !.previewVersion = r.version])
     /\ IF Stored(r.imp)
        THEN /\ previewed' = [previewed EXCEPT ![r.imp] = previewed[r.imp] \cup {r.version}]
             /\ Goto(w, "verdict")
        ELSE UNCHANGED previewed /\ Leave(w)
  /\ UNCHANGED <<units, changes, corrections, lost, touched>>

PreviewVerdict(w) ==
  /\ At(w, "verdict")
  /\ LET r  == worker[w]
         ok == RowsValid(r.imp, r.map)
     IN  WriteThenGet(w, [Row(w) EXCEPT
           !.preview = [canConfirm |-> ok, version |-> r.version],
           !.status = IF ok THEN "READY" ELSE "NEEDS_INPUT"])

-----------------------------------------------------------------------------
\* Confirmation

Confirm(w, i) ==
  /\ At(w, "idle") /\ Stored(i) /\ CanConfirm(imports[i])
  /\ Go(w, [Idle EXCEPT !.at = "confirm", !.imp = i, !.map = imports[i].mapping,
                        !.version = imports[i].version])
  /\ UNCHANGED <<db, history>>

\* IMPORTING is written before the transaction, whose rows are read next.
ConfirmBegin(w) ==
  /\ At(w, "confirm")
  /\ Write(w, [Row(w) EXCEPT !.status = "IMPORTING"])
  /\ IF Stored(worker[w].imp)
     THEN Go(w, [worker[w] EXCEPT !.at = "commit", !.read = units])
     ELSE Leave(w)
  /\ UNCHANGED <<units, changes, corrections, history>>

\* The rows whose content differs from the unit the transaction has read.
Changed(r) == {u \in Rows(r.imp, r.map) :
                 r.read[u] = Null \/ r.read[u].value # Cell[r.imp][r.map][u]}

\* Mutant: no unique key on batch and unit.
RowGone(r, u) == (r.read[u] = Null) # (units[u] = Null)

\* A row fails on a unique key (unit identity; one change per batch and unit)
\* or on a unit that is gone.
RowConflict(r, u) ==
  \/ (r.read[u] = Null) # (units[u] = Null)
  \/ \E c \in changes : c.imp = r.imp /\ c.unit = u /\ c.linked

\* The clock of the change rows: later than every row there is.
Now(n) == (\A c \in changes : c.at < n) /\ n - 1 \in {0} \cup {c.at : c \in changes}

Written(r, u) ==
  LET old == units[u] IN
  [value  |-> Cell[r.imp][r.map][u],
   source |-> IF old = Null THEN r.imp ELSE old.source,
   wrote  |-> [imp |-> r.imp, version |-> r.version],
   media  |-> IF old = Null THEN FALSE ELSE old.media]

ConfirmCommit(w) ==
  /\ At(w, "commit")
  /\ LET r  == worker[w]
         us == Changed(r)
     IN  /\ Stored(r.imp) /\ RowsValid(r.imp, r.map)
         /\ \A u \in us : ~RowConflict(r, u)
         /\ Cardinality(changes) + Cardinality(us) <= MaxChanges
         /\ units' = [u \in Units |-> IF u \in us THEN Written(r, u) ELSE units[u]]
         /\ \E now \in 1..MaxRequests :
              /\ Now(now)
              /\ changes' = changes \cup
                   {[imp |-> r.imp, unit |-> u, before |-> r.read[u], after |-> Written(r, u),
                     at |-> now, linked |-> TRUE, reverted |-> FALSE,
                     conflict |-> FALSE] : u \in us}
         /\ Becomes(r.imp, "COMPLETED")
         /\ lost' = lost \cup {u \in us : units[u] # r.read[u]}
  /\ Leave(w)
  /\ UNCHANGED <<corrections, previewed, touched>>

\* A failed row, a timeout or a lost database rolls the transaction back.
ConfirmAbort(w) ==
  /\ At(w, "commit")
  /\ Go(w, [Idle EXCEPT !.at = "recover", !.imp = worker[w].imp])
  /\ UNCHANGED <<db, history>>

\* The handler of the failure makes the batch READY, whatever it is by then.
ConfirmRecover(w) ==
  /\ At(w, "recover")
  /\ Write(w, [Row(w) EXCEPT !.status = "READY"])
  /\ Leave(w)
  /\ UNCHANGED <<units, changes, corrections, history>>

-----------------------------------------------------------------------------
\* Removal of a batch

\* The status, the change rows and the inventory the batch is the source of are
\* looked at before the delete ...
DeleteUnfinished(w, i) ==
  /\ At(w, "idle") /\ Stored(i)
  /\ imports[i].status \notin {"COMPLETED", "ROLLED_BACK"} /\ ChangesOf(i) = {}
  /\ ~\E u \in Units : units[u] # Null /\ units[u].source = i
  /\ Go(w, [Idle EXCEPT !.at = "delete", !.imp = i])
  /\ UNCHANGED <<db, history>>

\* ... which takes the change rows and corrections along (CASCADE) and leaves the
\* units of the batch without a source (SET NULL).
Delete(w) ==
  /\ At(w, "delete")
  /\ LET i == worker[w].imp IN
     IF Stored(i)
     THEN /\ imports' = [imports EXCEPT ![i] = [NoImport EXCEPT !.status = "DELETED"]]
          /\ changes' = changes \ ChangesOf(i)
          /\ corrections' = [corrections EXCEPT ![i] = NoCorrection]
          /\ units' = [u \in Units |->
               IF units[u] # Null /\ units[u].source = i
               THEN [units[u] EXCEPT !.source = Null] ELSE units[u]]
     ELSE UNCHANGED db
  /\ Leave(w)
  /\ UNCHANGED history

DeleteSourceRecord(w, i) ==
  /\ At(w, "idle") /\ Stored(i) /\ ChangesOf(i) = {}
  /\ Go(w, [Idle EXCEPT !.at = "cancel", !.imp = i])
  /\ UNCHANGED <<db, history>>

Cancel(w) ==
  /\ At(w, "cancel")
  /\ Write(w, [Row(w) EXCEPT !.status = "CANCELLED"])
  /\ Leave(w)
  /\ UNCHANGED <<units, changes, corrections, history>>

Created(c) == c.before = Null

\* What the comparison of two states of a unit looks at.
SameContent(a, b) == a # Null /\ [a EXCEPT !.media = b.media] = b

\* Mutants: the unit is not compared with what the batch wrote; nor with later batches.
RollbackUncompared(c) ==
  \/ ~c.linked
  \/ \E d \in changes : /\ d.unit = c.unit /\ d.linked /\ d.imp # c.imp
                         /\ d.at > c.at /\ ~d.reverted
  \/ Created(c) /\ units[c.unit].media
RollbackUnchecked(c) == ~c.linked \/ (Created(c) /\ units[c.unit].media)

\* rollbackConflict, and the change whose unit is gone.
RollbackConflict(c) ==
  \/ ~c.linked
  \/ \E d \in changes : /\ d.unit = c.unit /\ d.linked /\ d.imp # c.imp
                         /\ d.at > c.at /\ ~d.reverted
  \/ Created(c) /\ units[c.unit].media
  \/ ~SameContent(units[c.unit], c.after)

\* The transaction reads the change rows and the units they are about ...
RollbackModes == {"DELETE_EXCLUSIVE_RECORDS", "ROLLBACK_SAFE"}

RollbackBegin(w, i, mode) ==
  /\ At(w, "idle") /\ imports[i].status \in {"COMPLETED", "FAILED", "ROLLED_BACK"}
  /\ LET open == {c \in ChangesOf(i) : ~c.reverted /\ (mode = "ROLLBACK_SAFE" \/ Created(c))}
     IN  Go(w, [Idle EXCEPT !.at = "undo", !.imp = i,
                            !.read = [seen |-> units,
                                      undo |-> {c \in open : ~RollbackConflict(c)},
                                      keep |-> {c \in open : RollbackConflict(c)}]])
  /\ UNCHANGED <<db, history>>

SameChange(c, d) == c.imp = d.imp /\ c.unit = d.unit /\ c.at = d.at
Among(c, S)      == \E d \in S : SameChange(c, d)
UnitsOf(S)       == {c.unit : c \in S}

Marked(c, undo, keep, gone) ==
  [c EXCEPT !.linked   = c.linked /\ c.unit \notin gone,
            !.reverted = c.reverted \/ Among(c, undo),
            !.conflict = (c.conflict \/ Among(c, keep)) /\ ~Among(c, undo)]

\* ... and writes them, by their ids.  A unit, a change row or a source that went
\* away meanwhile fails it.
RollbackCommit(w) ==
  /\ At(w, "undo")
  /\ LET i    == worker[w].imp
         undo == worker[w].read.undo
         keep == worker[w].read.keep
         gone == UnitsOf({c \in undo : Created(c)})
         possible == /\ Stored(i) /\ \A c \in keep : Among(c, changes)
                     /\ \A c \in undo : Among(c, {d \in changes : d.linked})
                     /\ \A c \in undo : ~Created(c) /\ c.before.source # Null
                                            => Stored(c.before.source)
     IN  IF possible
         THEN /\ changes' = {Marked(c, undo, keep, gone) : c \in changes}
              /\ units' = [u \in Units |->
                   IF u \in gone THEN Null
                   ELSE IF u \in UnitsOf(undo)
                   THEN [(CHOOSE c \in undo : c.unit = u).before
                           EXCEPT !.media = units[u].media]
                   ELSE units[u]]
              /\ Becomes(i, "ROLLED_BACK")
              /\ lost' = lost \cup {u \in UnitsOf(undo) : units[u] # worker[w].read.seen[u]}
         ELSE UNCHANGED <<imports, units, changes, lost>>
  /\ Leave(w)
  /\ UNCHANGED <<corrections, previewed, touched>>

-----------------------------------------------------------------------------
\* Corrections of a completed batch (the latest one is kept)

CorrectionCreate(i, m) ==
  /\ imports[i].status = "COMPLETED" /\ m # imports[i].mapping /\ RowsValid(i, m)
  /\ corrections' = [corrections EXCEPT ![i] =
                        [state |-> "DRAFT", mapping |-> m, items |-> {}]]
  /\ UNCHANGED <<imports, units, changes, worker, history>>

\* A unit the batch changed is in conflict when it was edited since.
CorrectionPreview(i) ==
  /\ corrections[i].state # "NONE"
  /\ LET m == corrections[i].mapping
         affected == {c \in ChangesOf(i) : /\ c.linked /\ c.unit \in Rows(i, m)
                                           /\ units[c.unit].value # Cell[i][m][c.unit]}
         items == {[unit |-> c.unit,
                    conflict |-> units[c.unit].value # c.after.value] : c \in affected}
     IN  corrections' = [corrections EXCEPT ![i] =
                          [state |-> "PREVIEW_READY", mapping |-> m, items |-> items]]
  /\ UNCHANGED <<imports, units, changes, worker, history>>

\* decision: what to do with the units in conflict.
CorrectionConfirm(w, i, decision) ==
  /\ At(w, "idle") /\ corrections[i].state = "PREVIEW_READY"
  /\ imports[i].version < MaxVersion
  /\ Go(w, [Idle EXCEPT !.at = "correct", !.imp = i, !.arg = decision,
                        !.read = corrections[i]])
  /\ UNCHANGED <<db, history>>

CorrectionApply(w) ==
  /\ At(w, "correct")
  /\ LET r == worker[w]
         us == {x.unit : x \in {y \in r.read.items :
                                  ~y.conflict \/ r.arg = "APPLY_CORRECTED"}}
         possible == /\ Stored(r.imp)
                     /\ \A u \in us : \E c \in ChangesOf(r.imp) : c.unit = u /\ c.linked
     IN  IF possible
         THEN /\ imports' = [imports EXCEPT ![r.imp] =
                   [imports[r.imp] EXCEPT !.mapping = r.read.mapping,
                                          !.version = imports[r.imp].version + 1]]
              /\ corrections' = [corrections EXCEPT ![r.imp] =
                   [corrections[r.imp] EXCEPT !.state = "CONFIRMED"]]
              /\ units' = [u \in Units |->
                   IF u \in us
                   THEN [units[u] EXCEPT !.value = Cell[r.imp][r.read.mapping][u]]
                   ELSE units[u]]
              /\ touched' = touched \cup us
         ELSE UNCHANGED <<imports, corrections, units, touched>>
  /\ Leave(w)
  /\ UNCHANGED <<changes, previewed, lost>>

-----------------------------------------------------------------------------
\* The catalogue's own edits of units, one statement each

Catalog(next, u) ==
  /\ units' = [units EXCEPT ![u] = next]
  /\ UNCHANGED <<imports, corrections, previewed, lost>>

ByHand(u) == touched' = touched \cup {u}
Blank(v)  == [value |-> v, source |-> Null, wrote |-> Null, media |-> FALSE]

CreateUnit(u) ==
  /\ units[u] = Null
  /\ Catalog(Blank(Manual), u) /\ ByHand(u)
  /\ UNCHANGED <<changes, worker>>

UpdateUnit(u) ==
  /\ units[u] # Null /\ units[u].value # Manual
  /\ Catalog([units[u] EXCEPT !.value = Manual], u) /\ ByHand(u)
  /\ UNCHANGED <<changes, worker>>

AttachMedia(u) ==
  /\ units[u] # Null /\ ~units[u].media
  /\ Catalog([units[u] EXCEPT !.media = TRUE], u)
  /\ UNCHANGED <<changes, worker, touched>>

\* DELETE_SAFE counts media and import provenance, then deletes.
DeleteUnit(w, u) ==
  /\ At(w, "idle") /\ units[u] # Null
  /\ ~units[u].media /\ ~\E c \in changes : c.unit = u /\ c.linked
  /\ Go(w, [Idle EXCEPT !.at = "drop", !.arg = u])
  /\ UNCHANGED <<db, history>>

DropUnit(w) ==
  /\ At(w, "drop")
  /\ LET u == worker[w].arg IN
     /\ Catalog(Null, u) /\ ByHand(u)
     /\ changes' = {[c EXCEPT !.linked = c.linked /\ c.unit # u] : c \in changes}
     /\ Leave(w)

\* The process restarts: requests and open transactions are lost.
Crash ==
  /\ \E w \in Workers : ~At(w, "idle")
  /\ worker' = [w \in Workers |-> Idle]
  /\ UNCHANGED <<db, history>>

-----------------------------------------------------------------------------
\* Some batches have their table and a first preview already.
FirstPreview(i) ==
  LET ok == RowsValid(i, Proposal[i])
  IN  [NewTable(i) EXCEPT !.previewVersion = 1, !.preview = [canConfirm |-> ok, version |-> 1],
                          !.status = IF ok THEN "READY" ELSE "NEEDS_INPUT"]

Init ==
  /\ \E S \in SUBSET {i \in Imports : CanPreview(NewTable(i))} :
       /\ imports = [i \in Imports |-> IF i \in S THEN FirstPreview(i) ELSE NoImport]
       /\ previewed = [i \in Imports |-> IF i \in S THEN {1} ELSE {}]
  /\ units = [u \in Units |-> IF Initial[u] = Null THEN Null ELSE Blank(Initial[u])]
  /\ changes = {}
  /\ corrections = [i \in Imports |-> NoCorrection]
  /\ worker = [w \in Workers |-> Idle]
  /\ requests = 0
  /\ lost = {} /\ touched = {}

\* A new request of an admin.
Arrive(w) ==
  \/ \E i \in Imports :
       \/ Upload(w, i) \/ Poll(w, i) \/ Preview(w, i) \/ Confirm(w, i)
       \/ DeleteUnfinished(w, i) \/ DeleteSourceRecord(w, i)
       \/ \E mode \in RollbackModes : RollbackBegin(w, i, mode)
       \/ \E kind \in EditKinds, m \in Mappings : Edit(w, i, kind, m)
       \/ \E d \in {"KEEP_CURRENT", "APPLY_CORRECTED"} : CorrectionConfirm(w, i, d)
  \/ \E u \in Units : DeleteUnit(w, u)

\* The next step of a request in flight.
Step(w) ==
  \/ StoreFails(w) \/ StoreWorkbook(w)
  \/ Repair(w) \/ Settle(w)
  \/ EditWrite(w) \/ EditIssues(w)
  \/ PreviewSheet(w) \/ PreviewVerdict(w)
  \/ ConfirmBegin(w) \/ ConfirmCommit(w) \/ ConfirmAbort(w) \/ ConfirmRecover(w)
  \/ Delete(w) \/ Cancel(w) \/ RollbackCommit(w) \/ CorrectionApply(w) \/ DropUnit(w)

Correct(i) == (\E m \in Mappings : CorrectionCreate(i, m)) \/ CorrectionPreview(i)

NewRequest ==
  \/ \E w \in Workers : Arrive(w)
  \/ \E i \in Imports : Correct(i)
  \/ \E u \in Units : CreateUnit(u) \/ UpdateUnit(u) \/ AttachMedia(u)

Next ==
  \/ requests < MaxRequests /\ NewRequest /\ requests' = requests + 1
  \/ (\E w \in Workers : Step(w)) /\ UNCHANGED requests
  \/ Crash /\ UNCHANGED requests

Spec == Init /\ [][Next]_vars

-----------------------------------------------------------------------------
ChangeRows == [imp : Imports, unit : Units, before : UnitRows \cup {Null}, after : UnitRows,
               at : Nat, linked : BOOLEAN, reverted : BOOLEAN, conflict : BOOLEAN]

\* The tables hold rows of the schema, foreign keys are respected and a batch
\* has one change row with a live unit per unit.
TypeOK ==
  /\ imports \in [Imports -> [status : Statuses, mapping : Mappings \cup {Null},
                    version : Nat, previewVersion : Nat, issues : BOOLEAN,
                    preview : [canConfirm : BOOLEAN, version : Nat] \cup {Null}]]
  /\ units \in [Units -> UnitRows \cup {Null}] /\ changes \subseteq ChangeRows
  /\ \A u \in Units : units[u] # Null /\ units[u].source # Null => Stored(units[u].source)
  /\ \A c \in changes : Stored(c.imp) /\ (c.linked => units[c.unit] # Null)
  /\ \A c, d \in changes : c.imp = d.imp /\ c.unit = d.unit /\ c.linked /\ d.linked => c = d
  /\ requests \in 0..MaxRequests

\* What a confirmation wrote to the inventory went through a preview with exactly
\* that meaning of the table, whatever edits, previews and confirmations of the
\* batch overlapped (confirmSheets runs on the sheets of its own first read).
PreviewedMapping ==
  \A u \in Units : units[u] # Null /\ units[u].wrote # Null
                    => units[u].wrote.version \in previewed[units[u].wrote.imp]

\* A unit that holds what a batch wrote has that batch's open change row, as long
\* as the batch is not deleted and no transaction wrote over a write it had not
\* seen: every applied row can be traced and rolled back.
Owned ==
  \A u \in Units \ lost :
    units[u] # Null /\ units[u].wrote # Null /\ Stored(units[u].wrote.imp)
    => \E c \in ChangesOf(units[u].wrote.imp) : c.unit = u /\ c.linked /\ ~c.reverted

\* Once every change of a unit is rolled back, in whatever order the batches were
\* applied and rolled back, the unit is what it was before all of them (unless it
\* was edited otherwise meanwhile or a batch was deleted).
Unwound ==
  \A u \in Units \ (lost \cup touched) :
    /\ \E c \in changes : c.unit = u
    /\ \A c \in changes : c.unit = u => c.reverted
    /\ \A i \in Imports : imports[i].status # "DELETED"
    => IF units[u] = Null THEN Initial[u] = Null
       ELSE [units[u] EXCEPT !.media = FALSE] = Blank(Initial[u])

ManualStays ==
  \A w \in Workers, u \in Units :
    At(w, "undo") /\ ~At(w, "undo")' /\ units[u] # Null /\ units[u].value = Manual
    /\ u \notin lost' => units'[u] # Null /\ units'[u].value = Manual

\* A rollback never removes content typed in by hand, unless that was typed while
\* the rollback was between its read and its write.
ManualKept == [][ManualStays]_vars

=============================================================================
