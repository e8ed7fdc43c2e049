---------------------------- MODULE Imports_proofs ----------------------------
(***************************************************************************)
(* Proofs about imports, for any number of batches, units, phases and      *)
(* requests in flight, one section each:                                   *)
(*                                                                         *)
(* ImportWorkflow: what confirmations write was previewed, every applied   *)
(* row can be traced to an open change row, rolled back units are what     *)
(* they were, and rollbacks keep what was typed by hand.  The invariant    *)
(* says what a waiting request still knows when it writes, and how the     *)
(* open change rows of a unit are stacked: each remembers the state that   *)
(* the open row below it wrote.                                            *)
(*                                                                         *)
(* FlatImport: a batch that wrote a unit that is still there has exactly   *)
(* one change row for it, and no change row would put back the batch's own *)
(* work.  A confirmation may have read a unit long before it writes it;    *)
(* what it read has a writer that is known as long as the unit was not     *)
(* deleted, and else the id it writes by is gone and it fails.             *)
(*                                                                         *)
(* ImportPhases: what a confirmation gives a unit was shown in a preview   *)
(* of that version, or the aliases or phases of the project changed since. *)
(* A request works on a sheet it read earlier, so what was shown is kept   *)
(* per version, and the groups of a sheet change with its version only;    *)
(* each request that will write a version was asked for, so versions and   *)
(* such requests together are no more than what was asked.                 *)
(***************************************************************************)
EXTENDS ImportParts, FiniteSetTheorems, TLAPS

-----------------------------------------------------------------------------
\* Tables

Places == {"idle", "store", "repair", "settle", "edit", "issues", "preview", "verdict",
           "confirm", "commit", "recover", "delete", "cancel", "undo", "correct", "drop"}

\* A request about a batch whose row was stored when it began.
Later == Places \ {"idle", "store", "drop"}

\* What a request may set a status to.
Settled == {"NEEDS_INPUT", "READY"} \cup Finished

Verdicts == [canConfirm : BOOLEAN, version : Nat]
BatchRows == [status : Statuses, mapping : Mappings \cup {Null}, version : Nat,
              previewVersion : Nat, issues : BOOLEAN, preview : Verdicts \cup {Null}]
Items    == [unit : Units, conflict : BOOLEAN]
Drafts   == [state : {"NONE", "DRAFT", "PREVIEW_READY", "CONFIRMED"},
             mapping : Mappings \cup {Null}, items : SUBSET Items]

\* A correction is about rows that are valid under its mapping.
DraftSound(i, c) == c.state # "NONE" =>
  /\ RowsValid(i, c.mapping)
  /\ \A x \in c.items : x.unit \in Rows(i, c.mapping)

\* What an import wrote was previewed with that meaning.
RowPreviewed(x) == x # Null /\ x.wrote # Null => x.wrote.version \in previewed[x.wrote.imp]

\* A change row holds what its batch wrote, which nobody typed in.
ChangeSound(c) ==
  /\ RowPreviewed(c.before) /\ RowPreviewed(c.after)
  /\ c.after.wrote # Null /\ c.after.wrote.imp = c.imp
  /\ c.after.value # Manual

\* A table that is mapped has a version; only stored tables were ever previewed.
BatchSound(i) ==
  /\ imports[i].mapping # Null => imports[i].version >= 1
  /\ imports[i].previewVersion # 0 => imports[i].previewVersion \in previewed[i]
  /\ imports[i].status \in {"NONE", "ANALYZING"} => previewed[i] = {}

Tables ==
  /\ imports \in [Imports -> BatchRows]
  /\ units \in [Units -> UnitRows \cup {Null}]
  /\ changes \subseteq ChangeRows
  /\ corrections \in [Imports -> Drafts]
  /\ previewed \in [Imports -> SUBSET Nat]
  /\ requests \in 0..MaxRequests

Keys ==
  /\ \A i \in Imports : corrections[i].state # "NONE" => Stored(i)
  /\ \A u \in Units : units[u] # Null /\ units[u].source # Null => Stored(units[u].source)
  /\ \A c \in changes : Stored(c.imp) /\ (c.linked => units[c.unit] # Null)
  /\ \A c, d \in changes : c.imp = d.imp /\ c.unit = d.unit /\ c.linked /\ d.linked => c = d
  /\ \A c, d \in changes : c.unit = d.unit /\ c.at = d.at => c = d

RowsSound ==
  /\ \A i \in Imports : BatchSound(i) /\ DraftSound(i, corrections[i])
  /\ \A u \in Units : RowPreviewed(units[u])
  /\ \A c \in changes : ChangeSound(c)

\* A request in flight, and what of its reads still stands.
WorkerShape(r) ==
  DOMAIN r = DOMAIN Idle /\ r.at \in Places

Snapshot(f) == f \in [Units -> UnitRows \cup {Null}] /\ \A u \in Units : RowPreviewed(f[u])

\* A change a rollback is about to undo matches the unit the rollback saw, and
\* its row is there as long as the batch is.
UndoSound(r, c) ==
  /\ c \in ChangeRows /\ ChangeSound(c) /\ c.imp = r.imp /\ c.linked
  /\ SameContent(r.read.seen[c.unit], c.after)
  /\ Stored(r.imp) =>
       \E d \in changes : SameChange(c, d) /\ d.before = c.before /\ d.after = c.after

UndoRead(r) ==
  /\ r.read.seen \in [Units -> UnitRows \cup {Null}]
  /\ \A c \in r.read.undo : UndoSound(r, c)

Knows(r) ==
  /\ r.at \notin {"idle", "drop"} => r.imp \in Imports
  /\ r.at = "store" => imports[r.imp].status = "ANALYZING"
  /\ r.at \in Later => imports[r.imp].status \notin {"NONE", "ANALYZING"}
  /\ r.at \in {"repair", "settle"} => r.arg \in Settled
  /\ r.at = "edit" => r.map \in Mappings
  /\ r.at = "issues" => r.map \in Mappings \cup {Null}
  /\ r.at \in {"preview", "verdict"} => r.version \in Nat
  /\ r.at \in {"confirm", "commit"} => r.version \in previewed[r.imp]
  /\ r.at = "commit" => Snapshot(r.read)
  /\ r.at = "undo" => UndoRead(r)
  /\ r.at = "correct" =>
       /\ r.read \in Drafts /\ r.read.state # "NONE" /\ DraftSound(r.imp, r.read)
       /\ Stored(r.imp) => corrections[r.imp].state # "NONE"
  /\ r.at = "drop" => r.arg \in Units

InProgress == {worker[w] : w \in Workers}

InFlight ==
  /\ worker = [w \in Workers |-> worker[w]]
  /\ \A r \in InProgress : WorkerShape(r) /\ Knows(r)
  /\ \A v, w \in Workers : At(v, "store") /\ At(w, "store") /\ worker[v].imp = worker[w].imp
                             => v = w

-----------------------------------------------------------------------------
\* The stack of open change rows of a unit

Open(u) == {c \in changes : c.unit = u /\ c.linked /\ ~c.reverted}

\* Row x of unit u was written by a batch that is still there.
Claimed(x) == x # Null /\ x.wrote # Null /\ Stored(x.wrote.imp)

\* Content x of unit u is what its open row d wrote.
WroteIt(d, x) == d.imp = x.wrote.imp

\* The unit holds what its highest open row wrote.
Top(u) ==
  /\ Claimed(units[u]) => \E d \in Open(u) : WroteIt(d, units[u])
  /\ \A c \in Open(u) :
       /\ units[u].wrote # Null
       /\ Claimed(units[u]) => \E d \in Open(u) : WroteIt(d, units[u]) /\ c.at <= d.at

\* An open row remembers what the highest open row below it wrote.
Stacked(u, c) ==
  /\ Claimed(c.before) => \E d \in Open(u) : WroteIt(d, c.before) /\ d.at < c.at
  /\ \A e \in Open(u) : e.at < c.at =>
       /\ c.before # Null /\ c.before.wrote # Null
       /\ Claimed(c.before) =>
            \E d \in Open(u) : WroteIt(d, c.before) /\ d.at < c.at /\ e.at <= d.at

Stack == \A u \in Units \ lost : Top(u) /\ \A c \in Open(u) : Stacked(u, c)

\* x is the first content of unit u, media aside.
First(u, x) == IF x = Null THEN Initial[u] = Null
               ELSE [x EXCEPT !.media = FALSE] = Blank(Initial[u])

NoneDeleted == \A i \in Imports : imports[i].status # "DELETED"

\* Below the lowest open row lies the first content.
Bottom(u) ==
  /\ Open(u) = {} => First(u, units[u])
  /\ \A c \in Open(u) : (\A e \in Open(u) : c.at <= e.at) => First(u, c.before)

Bottoms == NoneDeleted => \A u \in Units \ (lost \cup touched) : Bottom(u)

ImportInv == Tables /\ Keys /\ RowsSound /\ InFlight /\ Stack /\ Bottoms

-----------------------------------------------------------------------------
(* What every step does to the batches *)

\* A deleted batch stays deleted, a batch never loses its table or its correction
\* otherwise, and what was previewed stays so.
Onward ==
  \A i \in Imports :
    /\ imports[i].status = "DELETED" => imports'[i].status = "DELETED"
    /\ imports[i].status \notin {"NONE", "ANALYZING"}
         => imports'[i].status \notin {"NONE", "ANALYZING"}
    /\ previewed[i] \subseteq previewed'[i]
    /\ corrections[i].state # "NONE" /\ Stored(i)' => corrections'[i].state # "NONE"

\* The change rows of the batches that are still there are still there.
RowsStay ==
  \A c \in changes : Stored(c.imp)' =>
    \E d \in changes' : SameChange(c, d) /\ d.before = c.before /\ d.after = c.after

\* A row that was previewed stays so, and it names a batch that had a table.
LEMMA RowPreviewedOn ==
  ASSUME Tables, RowsSound, Onward, NEW x \in UnitRows \cup {Null}, RowPreviewed(x)
  PROVE  /\ RowPreviewed(x)'
         /\ Claimed(x)' => Claimed(x)
<1>1. CASE x = Null
  BY <1>1 DEF RowPreviewed, Claimed
<1>2. CASE x # Null /\ x.wrote = Null
  BY <1>2 DEF RowPreviewed, Claimed
<1>3. CASE x # Null /\ x.wrote # Null
  <2>1. x.wrote.imp \in Imports /\ x.wrote.version \in previewed[x.wrote.imp]
    BY <1>3 DEF UnitRows, Origins, RowPreviewed
  <2>2. imports[x.wrote.imp].status \notin {"NONE", "ANALYZING"}
    BY <2>1 DEF RowsSound, BatchSound
  <2>3. x.wrote.version \in previewed'[x.wrote.imp]
    BY <2>1 DEF Onward
  <2>4. Stored(x.wrote.imp)' => Stored(x.wrote.imp)
    BY <2>1, <2>2 DEF Onward, Stored
  <2> QED BY <1>3, <2>3, <2>4 DEF RowPreviewed, Claimed
<1> QED BY <1>1, <1>2, <1>3

LEMMA ChangeSoundOn ==
  ASSUME Tables, RowsSound, Onward, NEW c \in ChangeRows, ChangeSound(c)
  PROVE  ChangeSound(c)'
<1>1. c.before \in UnitRows \cup {Null} /\ c.after \in UnitRows \cup {Null}
  BY DEF ChangeRows
<1>2. RowPreviewed(c.before)' /\ RowPreviewed(c.after)'
  BY <1>1, RowPreviewedOn DEF ChangeSound
<1> QED BY <1>2 DEF ChangeSound

\* What a waiting request knows still stands.
LEMMA KnowsOn ==
  ASSUME Tables, RowsSound, Onward, RowsStay, NEW r, WorkerShape(r), Knows(r),
         r.at = "store" => imports'[r.imp].status = "ANALYZING"
  PROVE  Knows(r)'
<1>1. r.at \in Later => r.imp \in Imports /\ imports'[r.imp].status \notin {"NONE", "ANALYZING"}
  BY DEF Later, Knows, Onward
<1>2. r.at \in {"confirm", "commit"} => r.version \in previewed'[r.imp]
  BY DEF Knows, Onward
<1>3. r.at = "commit" => Snapshot(r.read)'
  <2> SUFFICES ASSUME r.at = "commit", NEW u \in Units PROVE RowPreviewed(r.read[u])'
    BY DEF Knows, Snapshot
  <2> QED BY RowPreviewedOn DEF Knows, Snapshot
<1>4. r.at = "undo" => UndoRead(r)'
  <2> SUFFICES ASSUME r.at = "undo", NEW c \in r.read.undo PROVE UndoSound(r, c)'
    BY DEF Knows, UndoRead
  <2>1. UndoSound(r, c)
    BY DEF Knows, UndoRead
  <2>2. c \in ChangeRows /\ ChangeSound(c)' /\ c.imp = r.imp /\ c.linked
    BY <2>1, ChangeSoundOn DEF UndoSound
  <2>3. Stored(r.imp)' => Stored(r.imp)
    BY DEF Knows, Later, Places, Onward, Stored
  <2>4. ASSUME Stored(r.imp)'
        PROVE  \E d \in changes' : SameChange(c, d) /\ d.before = c.before /\ d.after = c.after
    <3>1. PICK e \in changes : SameChange(c, e) /\ e.before = c.before /\ e.after = c.after
      BY <2>1, <2>3, <2>4 DEF UndoSound
    <3>2. Stored(e.imp)'
      BY <2>2, <2>4, <3>1 DEF SameChange
    <3>3. PICK d \in changes' : SameChange(e, d) /\ d.before = e.before /\ d.after = e.after
      BY <3>2 DEF RowsStay
    <3> QED BY <3>1, <3>3 DEF SameChange
  <2> QED BY <2>1, <2>2, <2>4 DEF UndoSound
<1>5. r.at = "correct" /\ Stored(r.imp)' => corrections'[r.imp].state # "NONE"
  BY DEF Knows, Later, Places, Onward, Stored
<1> QED BY <1>1, <1>2, <1>3, <1>4, <1>5 DEF Knows, DraftSound

\* One request moves on.
LEMMA OneMoves ==
  ASSUME Tables, RowsSound, Onward, RowsStay, InFlight, NEW w \in Workers, NEW rec,
         worker' = [worker EXCEPT ![w] = rec], WorkerShape(rec), Knows(rec)',
         \A v \in Workers \ {w} : At(v, "store") =>
           /\ imports'[worker[v].imp].status = "ANALYZING"
           /\ ~(rec.at = "store" /\ rec.imp = worker[v].imp)
  PROVE  InFlight'
<1>1. worker' = [v \in Workers |-> worker'[v]]
  BY DEF InFlight
<1>2. \A v \in Workers : worker'[v] = IF v = w THEN rec ELSE worker[v]
  BY DEF InFlight
<1>3. \A r \in InProgress' : r = rec \/ \E v \in Workers \ {w} : r = worker[v]
  BY <1>2 DEF InProgress
<1>4. ASSUME NEW r \in InProgress' PROVE WorkerShape(r) /\ Knows(r)'
  <2> SUFFICES ASSUME NEW v \in Workers \ {w}, r = worker[v] PROVE WorkerShape(r) /\ Knows(r)'
    BY <1>3
  <2>1. WorkerShape(r) /\ Knows(r)
    BY DEF InFlight, InProgress
  <2> QED BY <2>1, KnowsOn DEF At
<1>5. \A v, x \in Workers : worker'[v].at = "store" /\ worker'[x].at = "store"
                              /\ worker'[v].imp = worker'[x].imp => v = x
  BY <1>2 DEF InFlight, At
<1> QED BY <1>1, <1>4, <1>5 DEF InFlight, At, WorkerShape

\* All requests stay where they are.
LEMMA NoneMoves ==
  ASSUME Tables, RowsSound, Onward, RowsStay, InFlight, UNCHANGED <<imports, worker>>
  PROVE  InFlight'
<1>1. InProgress' = InProgress
  BY DEF InProgress
<1>2. ASSUME NEW r \in InProgress PROVE WorkerShape(r) /\ Knows(r)'
  <2>1. WorkerShape(r) /\ Knows(r)
    BY DEF InFlight
  <2> QED BY <2>1, KnowsOn DEF Knows
<1> QED BY <1>1, <1>2 DEF InFlight, At, WorkerShape

-----------------------------------------------------------------------------
(* Steps that leave units and change rows alone *)

LEMMA KeysOn ==
  ASSUME Tables, Keys, UNCHANGED <<units, changes, corrections>>,
         \A i \in Imports : Stored(i) => Stored(i)'
  PROVE  Keys'
<1>1. \A u \in Units : units[u] # Null /\ units[u].source # Null => Stored(units[u].source)'
  BY DEF Tables, UnitRows, Origins, Keys
<1>2. \A c \in changes : Stored(c.imp)'
  BY DEF Tables, ChangeRows, Keys
<1> QED BY <1>1, <1>2 DEF Keys

LEMMA StackOn ==
  ASSUME Tables, RowsSound, Onward, Stack, UNCHANGED <<units, changes, lost>>
  PROVE  Stack'
<1>1. \A u \in Units : Claimed(units[u])' => Claimed(units[u])
  BY RowPreviewedOn DEF Tables, RowsSound
<1>2. \A c \in changes : Claimed(c.before)' => Claimed(c.before)
  BY RowPreviewedOn DEF Tables, ChangeRows, RowsSound, ChangeSound
<1>3. \A u : Open(u)' = Open(u) /\ Open(u) \subseteq changes
  BY DEF Open
<1>4. \A u \in Units \ lost : Top(u)'
  <2> TAKE u \in Units \ lost
  <2> QED BY <1>1, <1>3 DEF Stack, Top, WroteIt
<1>5. \A u \in Units \ lost : \A c \in Open(u)' : Stacked(u, c)'
  <2> TAKE u \in Units \ lost
  <2> TAKE c \in Open(u)'
  <2>1. c \in Open(u) /\ Stacked(u, c) /\ (Claimed(c.before)' => Claimed(c.before))
    BY <1>2, <1>3 DEF Stack
  <2> QED BY <1>3, <2>1 DEF Stacked, WroteIt
<1> QED BY <1>4, <1>5 DEF Stack

LEMMA BottomsOn ==
  ASSUME Onward, Bottoms, UNCHANGED <<units, changes>>,
         lost \subseteq lost', touched \subseteq touched'
  PROVE  Bottoms'
<1>1. NoneDeleted' => NoneDeleted
  BY DEF NoneDeleted, Onward
<1>2. \A u : Bottom(u) => Bottom(u)'
  BY DEF Bottom, Open, First
<1> QED BY <1>1, <1>2 DEF Bottoms

LEMMA RequestKnows ==
  ASSUME InFlight, NEW w \in Workers
  PROVE  WorkerShape(worker[w]) /\ Knows(worker[w])
BY DEF InFlight, InProgress

\* A request that only reads, and waits with what it read.
LEMMA Waits ==
  ASSUME ImportInv, NEW w \in Workers, NEW rec, WorkerShape(rec), Knows(rec), rec.at # "store",
         worker' = [worker EXCEPT ![w] = rec], UNCHANGED <<db, history>>,
         requests' \in 0..MaxRequests
  PROVE  ImportInv'
<1> USE DEF db, history
<1>1. Onward /\ RowsStay
  BY DEF Onward, RowsStay, SameChange
<1>2. Knows(rec)'
  BY <1>1, KnowsOn DEF ImportInv
<1>3. InFlight'
  <2>1. \A v \in Workers : At(v, "store") => imports'[worker[v].imp].status = "ANALYZING"
    BY RequestKnows DEF ImportInv, Knows, At
  <2> QED BY <1>1, <1>2, <2>1, OneMoves DEF ImportInv
<1>4. Tables' /\ RowsSound'
  BY DEF ImportInv, Tables, RowsSound, BatchSound, RowPreviewed, ChangeSound, DraftSound
<1>5. Keys'
  BY KeysOn DEF ImportInv, Stored
<1>6. Stack' /\ Bottoms'
  BY <1>1, StackOn, BottomsOn DEF ImportInv
<1> QED BY <1>3, <1>4, <1>5, <1>6 DEF ImportInv

\* The row of batch i becomes b, and versions of it may be previewed.
BatchWritten(i, b) ==
  /\ i \in Imports /\ b \in BatchRows /\ imports' = [imports EXCEPT ![i] = b]
  /\ imports[i].status # "DELETED" /\ b.status \notin {"NONE", "DELETED"}
  /\ b.status = "ANALYZING" => imports[i].status = "NONE" /\ previewed'[i] = {}
  /\ b.mapping # Null => b.version >= 1
  /\ b.previewVersion # 0 => b.previewVersion \in previewed'[i]
  /\ previewed' \in [Imports -> SUBSET Nat] /\ previewed[i] \subseteq previewed'[i]
  /\ \A k \in Imports \ {i} : previewed'[k] = previewed[k]

\* Request w goes on as rec; no other one is storing the table of batch i, nor that of rec.
GoesOn(w, rec, i) ==
  /\ worker' = [worker EXCEPT ![w] = rec] /\ WorkerShape(rec)
  /\ \A v \in Workers \ {w} : At(v, "store") =>
       worker[v].imp # i /\ ~(rec.at = "store" /\ rec.imp = worker[v].imp)

OtherTablesStay == UNCHANGED <<units, changes, corrections, lost, touched>>

\* A request that writes the row of one batch.
LEMMA Writes ==
  ASSUME ImportInv, NEW w \in Workers, NEW rec, NEW i, NEW b, BatchWritten(i, b), GoesOn(w, rec, i),
         Knows(rec)', OtherTablesStay, requests' \in 0..MaxRequests
  PROVE  ImportInv'
<1> USE DEF BatchWritten, GoesOn, OtherTablesStay
<1>1. /\ imports' \in [Imports -> BatchRows]
      /\ \A k \in Imports : imports'[k] = IF k = i THEN b ELSE imports[k]
  BY DEF ImportInv, Tables
<1>2. Onward /\ RowsStay
  BY <1>1 DEF Onward, RowsStay, SameChange
<1>3. \A k \in Imports : Stored(k) => Stored(k)'
  BY <1>1 DEF Stored
<1>4. InFlight'
  <2>1. \A v \in Workers \ {w} : At(v, "store") => imports'[worker[v].imp].status = "ANALYZING"
    BY <1>1, RequestKnows DEF ImportInv, Knows, At
  <2> QED BY <1>2, <2>1, OneMoves DEF ImportInv
<1>5. Tables'
  BY <1>1 DEF ImportInv, Tables
<1>6. RowsSound'
  <2>1. \A k \in Imports : BatchSound(k)'
    BY <1>1 DEF ImportInv, RowsSound, BatchSound
  <2>2. \A k \in Imports : DraftSound(k, corrections[k])'
    BY DEF ImportInv, RowsSound, DraftSound
  <2>3. \A u \in Units : RowPreviewed(units[u])'
    BY <1>2, RowPreviewedOn DEF ImportInv, Tables, RowsSound, RowPreviewed
  <2>4. \A c \in changes : ChangeSound(c)'
    BY <1>2, ChangeSoundOn DEF ImportInv, Tables, RowsSound
  <2> QED BY <2>1, <2>2, <2>3, <2>4 DEF RowsSound
<1>7. Keys'
  BY <1>3, KeysOn DEF ImportInv
<1>8. Stack' /\ Bottoms'
  BY <1>2, StackOn, BottomsOn DEF ImportInv
<1> QED BY <1>4, <1>5, <1>6, <1>7, <1>8 DEF ImportInv

-----------------------------------------------------------------------------
(* Requests that arrive, and requests that only read *)

LEMMA IdleKnows == WorkerShape(Idle) /\ Knows(Idle) /\ Knows(Idle)'
BY DEF Idle, WorkerShape, Places, Knows, Later

\* A request that ends by reading a batch leaves, or goes on to repair its status.
LEMMA GetKnows ==
  ASSUME NEW i \in Imports, NEW b, NEW rec,
         rec = IF NeedsRepair(b)
               THEN [Idle EXCEPT !.at = "repair", !.imp = i, !.arg = DerivedStatus(b)] ELSE Idle
  PROVE  /\ WorkerShape(rec) /\ rec.at \in {"idle", "repair"}
         /\ imports[i].status \notin {"NONE", "ANALYZING"} => Knows(rec)
         /\ imports'[i].status \notin {"NONE", "ANALYZING"} => Knows(rec)'
<1>1. CASE NeedsRepair(b)
  <2>1. rec.at = "repair" /\ rec.imp = i /\ rec.arg = DerivedStatus(b) /\ DOMAIN rec = DOMAIN Idle
    BY <1>1 DEF Idle
  <2>2. DerivedStatus(b) \in Settled
    BY DEF DerivedStatus, Settled
  <2> HIDE <1>1
  <2> QED BY <2>1, <2>2 DEF WorkerShape, Places, Knows, Later, Idle
<1>2. CASE ~NeedsRepair(b)
  BY <1>2, IdleKnows DEF Idle
<1> QED BY <1>1, <1>2

LEMMA StoredStatus ==
  ASSUME NEW i, Stored(i)
  PROVE  imports[i].status \notin {"NONE", "ANALYZING", "DELETED"}
BY DEF Stored

LEMMA PollInv ==
  ASSUME ImportInv, NEW w \in Workers, NEW i \in Imports, Poll(w, i),
         requests' \in 0..MaxRequests
  PROVE  ImportInv'
<1>1. PICK rec : rec = IF NeedsRepair(imports[i])
               THEN [Idle EXCEPT !.at = "repair", !.imp = i, !.arg = DerivedStatus(imports[i])]
               ELSE Idle
  OBVIOUS
<1>2. worker' = [worker EXCEPT ![w] = rec] /\ UNCHANGED <<db, history>> /\ Stored(i)
  BY <1>1 DEF Poll, EndWithGet, Go
<1>3. WorkerShape(rec) /\ Knows(rec) /\ rec.at # "store"
  BY <1>1, <1>2, GetKnows, StoredStatus
<1> QED BY <1>2, <1>3, Waits

LEMMA EditInv ==
  ASSUME ImportInv, NEW w \in Workers, NEW i \in Imports, NEW kind \in EditKinds,
         NEW m \in Mappings, Edit(w, i, kind, m), requests' \in 0..MaxRequests
  PROVE  ImportInv'
<1>1. PICK rec : rec = [Idle EXCEPT !.at = "edit", !.imp = i, !.arg = kind, !.map = m]
  OBVIOUS
<1>2. worker' = [worker EXCEPT ![w] = rec] /\ UNCHANGED <<db, history>> /\ Stored(i)
  BY <1>1 DEF Edit, Go, Idle
<1>3. WorkerShape(rec) /\ Knows(rec) /\ rec.at # "store"
  BY <1>1, <1>2, StoredStatus DEF WorkerShape, Places, Knows, Later, Idle
<1> QED BY <1>2, <1>3, Waits

\* A table that can be previewed is mapped, and its preview is of a version that was.
LEMMA ReadyBatch ==
  ASSUME ImportInv, NEW i \in Imports
  PROVE  /\ imports[i].version \in Nat
         /\ CanConfirm(imports[i]) => imports[i].version \in previewed[i]
<1>1. imports[i] \in BatchRows
  BY DEF ImportInv, Tables
<1>2. CanConfirm(imports[i]) => imports[i].mapping # Null /\ PreviewValid(imports[i])
  BY ImportConstants DEF CanConfirm, CanPreview
<1>3. CanConfirm(imports[i]) => imports[i].version >= 1
  BY <1>2 DEF ImportInv, RowsSound, BatchSound
<1> QED BY <1>1, <1>2, <1>3 DEF BatchRows, PreviewValid, ImportInv, RowsSound, BatchSound

LEMMA PreviewInv ==
  ASSUME ImportInv, NEW w \in Workers, NEW i \in Imports, Preview(w, i),
         requests' \in 0..MaxRequests
  PROVE  ImportInv'
<1>1. PICK rec : rec = [Idle EXCEPT !.at = "preview", !.imp = i, !.map = imports[i].mapping,
                                    !.version = imports[i].version]
  OBVIOUS
<1>2. worker' = [worker EXCEPT ![w] = rec] /\ UNCHANGED <<db, history>> /\ Stored(i)
  BY <1>1 DEF Preview, Go, Idle
<1>3. WorkerShape(rec) /\ Knows(rec) /\ rec.at # "store"
  BY <1>1, <1>2, StoredStatus, ReadyBatch DEF WorkerShape, Places, Knows, Later, Idle
<1> QED BY <1>2, <1>3, Waits

LEMMA ConfirmInv ==
  ASSUME ImportInv, NEW w \in Workers, NEW i \in Imports, Confirm(w, i),
         requests' \in 0..MaxRequests
  PROVE  ImportInv'
<1>1. PICK rec : rec = [Idle EXCEPT !.at = "confirm", !.imp = i, !.map = imports[i].mapping,
                                    !.version = imports[i].version]
  OBVIOUS
<1>2. /\ worker' = [worker EXCEPT ![w] = rec] /\ UNCHANGED <<db, history>> /\ Stored(i)
      /\ CanConfirm(imports[i])
  BY <1>1 DEF Confirm, Go, Idle
<1>3. WorkerShape(rec) /\ Knows(rec) /\ rec.at # "store"
  BY <1>1, <1>2, StoredStatus, ReadyBatch DEF WorkerShape, Places, Knows, Later, Idle
<1> QED BY <1>2, <1>3, Waits

\* A request that will name only its batch.
LEMMA NamesBatch ==
  ASSUME ImportInv, NEW w \in Workers, NEW i \in Imports, imports[i].status \notin {"NONE", "ANALYZING"},
         NEW place \in {"delete", "cancel", "recover"}, UNCHANGED <<db, history>>,
         worker' = [worker EXCEPT ![w] = [Idle EXCEPT !.at = place, !.imp = i]],
         requests' \in 0..MaxRequests
  PROVE  ImportInv'
<1>1. PICK rec : rec = [Idle EXCEPT !.at = place, !.imp = i]
  OBVIOUS
<1>2. worker' = [worker EXCEPT ![w] = rec]
  BY <1>1 DEF Idle
<1>3. WorkerShape(rec) /\ Knows(rec) /\ rec.at # "store"
  BY <1>1, <1>2 DEF WorkerShape, Places, Knows, Later, Idle
<1> QED BY <1>2, <1>3, Waits

LEMMA RemovalInv ==
  ASSUME ImportInv, NEW w \in Workers, NEW i \in Imports,
         DeleteUnfinished(w, i) \/ DeleteSourceRecord(w, i), requests' \in 0..MaxRequests
  PROVE  ImportInv'
<1>1. Stored(i) /\ UNCHANGED <<db, history>>
  BY DEF DeleteUnfinished, DeleteSourceRecord
<1>2. PICK place \in {"delete", "cancel", "recover"} :
        worker' = [worker EXCEPT ![w] = [Idle EXCEPT !.at = place, !.imp = i]]
  BY DEF DeleteUnfinished, DeleteSourceRecord, Go
<1> QED BY <1>1, <1>2, StoredStatus, NamesBatch

LEMMA ConfirmAbortInv ==
  ASSUME ImportInv, NEW w \in Workers, ConfirmAbort(w), requests' \in 0..MaxRequests
  PROVE  ImportInv'
<1>1. Knows(worker[w]) /\ worker[w].at = "commit"
  BY RequestKnows DEF ImportInv, ConfirmAbort, At
<1>2. worker[w].imp \in Imports /\ imports[worker[w].imp].status \notin {"NONE", "ANALYZING"}
  BY <1>1 DEF Knows, Later, Places
<1> QED BY <1>2, NamesBatch DEF ConfirmAbort, Go

LEMMA RollbackBeginInv ==
  ASSUME ImportInv, NEW w \in Workers, NEW i \in Imports, NEW mode \in RollbackModes,
         RollbackBegin(w, i, mode), requests' \in 0..MaxRequests
  PROVE  ImportInv'
<1> DEFINE open == {c \in ChangesOf(i) : ~c.reverted /\ (mode = "ROLLBACK_SAFE" \/ Created(c))}
<1>1. PICK undo, keep : undo = {c \in open : ~RollbackConflict(c)} /\ keep = {c \in open : RollbackConflict(c)}
  OBVIOUS
<1>2. PICK rec : rec = [Idle EXCEPT !.at = "undo", !.imp = i,
                                    !.read = [seen |-> units, undo |-> undo, keep |-> keep]]
  OBVIOUS
<1>3. worker' = [worker EXCEPT ![w] = rec] /\ UNCHANGED <<db, history>>
  BY <1>1, <1>2 DEF RollbackBegin, Go, Idle
<1>4. imports[i].status \in {"COMPLETED", "FAILED", "ROLLED_BACK"}
  BY DEF RollbackBegin
<1>5. WorkerShape(rec) /\ rec.at = "undo" /\ rec.imp = i
      /\ rec.read = [seen |-> units, undo |-> undo, keep |-> keep]
  BY <1>2 DEF WorkerShape, Places
<1>6. \A c \in rec.read.undo : UndoSound(rec, c)
  <2> TAKE c \in rec.read.undo
  <2>1. c \in changes /\ c.imp = i /\ c.linked /\ SameContent(units[c.unit], c.after)
    BY <1>1, <1>5 DEF ChangesOf, RollbackConflict
  <2>2. c \in ChangeRows /\ ChangeSound(c)
    BY <2>1 DEF ImportInv, Tables, RowsSound
  <2>3. SameContent(rec.read.seen[c.unit], c.after)
    BY <1>5, <2>1
  <2> QED BY <1>5, <2>1, <2>2, <2>3 DEF UndoSound, SameChange
<1>7. UndoRead(rec)
  BY <1>5, <1>6 DEF UndoRead, ImportInv, Tables
<1>8. Knows(rec)
  BY <1>4, <1>5, <1>7 DEF Knows, Later, Places
<1> QED BY <1>3, <1>5, <1>8, Waits

LEMMA CorrectionConfirmInv ==
  ASSUME ImportInv, NEW w \in Workers, NEW i \in Imports, NEW decision,
         CorrectionConfirm(w, i, decision), requests' \in 0..MaxRequests
  PROVE  ImportInv'
<1>1. PICK rec : rec = [Idle EXCEPT !.at = "correct", !.imp = i, !.arg = decision,
                                    !.read = corrections[i]]
  OBVIOUS
<1>2. /\ worker' = [worker EXCEPT ![w] = rec] /\ UNCHANGED <<db, history>>
      /\ corrections[i].state = "PREVIEW_READY"
  BY <1>1 DEF CorrectionConfirm, Go, Idle
<1>3. corrections[i] \in Drafts /\ DraftSound(i, corrections[i]) /\ Stored(i)
  BY <1>2 DEF ImportInv, Tables, RowsSound, Keys
<1>4. WorkerShape(rec) /\ Knows(rec) /\ rec.at # "store"
  BY <1>1, <1>2, <1>3, StoredStatus DEF WorkerShape, Places, Knows, Later, Idle
<1> QED BY <1>2, <1>4, Waits

LEMMA DeleteUnitInv ==
  ASSUME ImportInv, NEW w \in Workers, NEW u \in Units, DeleteUnit(w, u),
         requests' \in 0..MaxRequests
  PROVE  ImportInv'
<1>1. PICK rec : rec = [Idle EXCEPT !.at = "drop", !.arg = u]
  OBVIOUS
<1>2. worker' = [worker EXCEPT ![w] = rec] /\ UNCHANGED <<db, history>>
  BY <1>1 DEF DeleteUnit, Go, Idle
<1>3. WorkerShape(rec) /\ Knows(rec) /\ rec.at # "store"
  BY <1>1 DEF WorkerShape, Places, Knows, Later, Idle
<1> QED BY <1>2, <1>3, Waits

-----------------------------------------------------------------------------
(* Requests that write the row of their batch *)

LEMMA LeavesInv ==
  ASSUME ImportInv, NEW w \in Workers, Leave(w), UNCHANGED <<db, history>>,
         requests' \in 0..MaxRequests
  PROVE  ImportInv'
<1>1. worker' = [worker EXCEPT ![w] = Idle] /\ Idle.at # "store"
  BY DEF Leave, Go, Idle
<1> QED BY <1>1, IdleKnows, Waits

\* What such a request may leave in the row.
Sane(b, versions) ==
  /\ b \in BatchRows /\ b.status \notin {"NONE", "ANALYZING", "DELETED"}
  /\ b.mapping # Null => b.version >= 1
  /\ b.previewVersion # 0 => b.previewVersion \in versions

LEMMA RowSane ==
  ASSUME ImportInv, NEW i \in Imports, Stored(i)
  PROVE  Sane(imports[i], previewed[i])
BY DEF ImportInv, Tables, RowsSound, BatchSound, Stored, Sane

\* If the row is still there, it becomes b, V more versions of it are previewed, and the
\* request goes on as rec; otherwise it ends.
RowAsWritten(w, i, b, V, rec) ==
  /\ i = worker[w].imp /\ Write(w, b)
  /\ Stored(i) => /\ worker' = [worker EXCEPT ![w] = rec] /\ WorkerShape(rec)
                  /\ previewed' = [previewed EXCEPT ![i] = previewed[i] \cup V]
                  /\ rec.at # "store"
                  /\ Sane(b, previewed[i] \cup V)
  /\ ~Stored(i) => Leave(w) /\ UNCHANGED previewed

LEMMA RowWrites ==
  ASSUME ImportInv, NEW w \in Workers, NEW i \in Imports, NEW b, NEW V \in SUBSET Nat, NEW rec,
         RowAsWritten(w, i, b, V, rec), OtherTablesStay,
         Onward /\ imports'[i].status \notin {"NONE", "ANALYZING"} => Knows(rec)',
         requests' \in 0..MaxRequests
  PROVE  ImportInv'
<1> USE DEF RowAsWritten, OtherTablesStay
<1>1. CASE ~Stored(i)
  BY <1>1, LeavesInv DEF Write, db, history
<1>2. CASE Stored(i)
  <2>1. /\ worker' = [worker EXCEPT ![w] = rec] /\ WorkerShape(rec) /\ rec.at # "store"
        /\ imports' = [imports EXCEPT ![i] = b] /\ Sane(b, previewed[i] \cup V)
    BY <1>2 DEF Write
  <2>2. /\ previewed' \in [Imports -> SUBSET Nat]
        /\ previewed'[i] = previewed[i] \cup V
        /\ \A k \in Imports \ {i} : previewed'[k] = previewed[k]
    <3>1. PICK P \in SUBSET Nat : P = previewed[i] \cup V
      BY DEF ImportInv, Tables
    <3>2. previewed' = [previewed EXCEPT ![i] = P] /\ previewed \in [Imports -> SUBSET Nat]
      BY <1>2, <3>1 DEF ImportInv, Tables
    <3> QED BY <3>1, <3>2
  <2>3. \A k \in Imports : imports'[k] = IF k = i THEN b ELSE imports[k]
    BY <2>1 DEF ImportInv, Tables
  <2>4. Onward
    BY <1>2, <2>1, <2>2, <2>3 DEF Onward, Sane, Stored
  <2>5. Knows(rec)'
    BY <1>2, <2>1, <2>3, <2>4 DEF Sane
  <2>6. \A v \in Workers \ {w} : At(v, "store") => worker[v].imp # i
    BY <1>2, RequestKnows DEF ImportInv, Knows, At, Stored
  <2>7. BatchWritten(i, b)
    BY <1>2, <2>1, <2>2 DEF BatchWritten, Sane, Stored
  <2>8. GoesOn(w, rec, i)
    BY <2>1, <2>6 DEF GoesOn
  <2> QED BY <2>5, <2>7, <2>8, Writes
<1> QED BY <1>1, <1>2

\* The batch of a request that has one.
LEMMA RequestBatch ==
  ASSUME ImportInv, NEW w \in Workers, worker[w].at \in Later
  PROVE  worker[w].imp \in Imports
BY RequestKnows DEF ImportInv, Knows, Later

LEMMA WriteThenGetInv ==
  ASSUME ImportInv, NEW w \in Workers, NEW b, WriteThenGet(w, b), worker[w].at \in Later,
         Stored(worker[w].imp) => Sane(b, previewed[worker[w].imp]),
         requests' \in 0..MaxRequests
  PROVE  ImportInv'
<1>1. PICK i \in Imports : i = worker[w].imp
  BY RequestBatch
<1>2. PICK rec : rec = IF NeedsRepair(b)
               THEN [Idle EXCEPT !.at = "repair", !.imp = i, !.arg = DerivedStatus(b)] ELSE Idle
  OBVIOUS
<1>3. Stored(i) => worker' = [worker EXCEPT ![w] = rec]
  BY <1>1, <1>2 DEF WriteThenGet, EndWithGet, Go
<1>4. WorkerShape(rec) /\ rec.at # "store"
  BY <1>2, GetKnows
<1>5. imports'[i].status \notin {"NONE", "ANALYZING"} => Knows(rec)'
  BY <1>2, GetKnows
<1>6. ~Stored(i) => Leave(w)
  BY <1>1 DEF WriteThenGet
<1>7. Write(w, b) /\ OtherTablesStay /\ UNCHANGED previewed
  BY DEF WriteThenGet, history, OtherTablesStay
<1>8. RowAsWritten(w, i, b, {}, rec)
  <2>1. previewed[i] \cup {} = previewed[i] /\ previewed = [previewed EXCEPT ![i] = previewed[i]]
    BY DEF ImportInv, Tables
  <2> QED BY <1>1, <1>3, <1>4, <1>6, <1>7, <2>1 DEF RowAsWritten
<1> QED BY <1>5, <1>7, <1>8, RowWrites

LEMMA StatusWritten ==
  ASSUME ImportInv, NEW i \in Imports, Stored(i), NEW status \in Settled \cup {"IMPORTING"}
  PROVE  Sane([imports[i] EXCEPT !.status = status], previewed[i])
<1>1. imports[i] \in BatchRows
  BY DEF ImportInv, Tables
<1>2. status \in Statuses /\ status \notin {"NONE", "ANALYZING", "DELETED"}
  BY DEF Settled, Statuses, Finished
<1> QED BY <1>1, <1>2, RowSane DEF Sane, BatchRows

LEMMA RepairInv ==
  ASSUME ImportInv, NEW w \in Workers, Repair(w) \/ Settle(w), requests' \in 0..MaxRequests
  PROVE  ImportInv'
<1>1. worker[w].at \in {"repair", "settle"} /\ worker[w].at \in Later
  BY DEF Repair, Settle, At, Later, Places
<1>2. worker[w].arg \in Settled
  BY <1>1, RequestKnows DEF ImportInv, Knows
<1>3. WriteThenGet(w, [Row(w) EXCEPT !.status = worker[w].arg])
  BY DEF Repair, Settle
<1>4. Stored(worker[w].imp) => Sane([Row(w) EXCEPT !.status = worker[w].arg], previewed[worker[w].imp])
  BY <1>1, <1>2, RequestBatch, StatusWritten DEF Row
<1> QED BY <1>1, <1>3, <1>4, WriteThenGetInv

\* A request that sets a status and leaves.
LEMMA MarkInv ==
  ASSUME ImportInv, NEW w \in Workers, ConfirmRecover(w) \/ Cancel(w), requests' \in 0..MaxRequests
  PROVE  ImportInv'
<1>1. worker[w].at \in Later
  BY DEF ConfirmRecover, Cancel, At, Later, Places
<1>2. PICK i \in Imports : i = worker[w].imp
  BY <1>1, RequestBatch
<1>3. PICK status \in Settled : Write(w, [imports[i] EXCEPT !.status = status])
  BY <1>2 DEF ConfirmRecover, Cancel, Row, Settled, Finished
<1>4. PICK b : b = [imports[i] EXCEPT !.status = status]
  OBVIOUS
<1>5. Leave(w) /\ OtherTablesStay /\ UNCHANGED previewed
  BY DEF ConfirmRecover, Cancel, history, OtherTablesStay
<1>6. worker' = [worker EXCEPT ![w] = Idle] /\ Idle.at # "store"
  BY <1>5 DEF Leave, Go, Idle
<1>7. RowAsWritten(w, i, b, {}, Idle)
  <2>1. previewed[i] \cup {} = previewed[i] /\ previewed = [previewed EXCEPT ![i] = previewed[i]]
    BY DEF ImportInv, Tables
  <2>2. Stored(i) => Sane(b, previewed[i])
    BY <1>4, StatusWritten
  <2> QED BY <1>2, <1>3, <1>4, <1>5, <1>6, <2>1, <2>2, IdleKnows DEF RowAsWritten
<1> QED BY <1>5, <1>7, IdleKnows, RowWrites

\* An upload stores the row of its batch; the workbook's table or a failure follows.
LEMMA UploadInv ==
  ASSUME ImportInv, NEW w \in Workers, NEW i \in Imports, Upload(w, i),
         requests' \in 0..MaxRequests
  PROVE  ImportInv'
<1>1. PICK rec : rec = [Idle EXCEPT !.at = "store", !.imp = i]
  OBVIOUS
<1>2. PICK b : b = [imports[i] EXCEPT !.status = "ANALYZING"]
  OBVIOUS
<1>3. /\ worker' = [worker EXCEPT ![w] = rec] /\ imports' = [imports EXCEPT ![i] = b]
      /\ imports[i].status = "NONE" /\ OtherTablesStay /\ UNCHANGED previewed
  BY <1>1, <1>2 DEF Upload, Becomes, Go, OtherTablesStay, history
<1>4. imports[i] \in BatchRows /\ BatchSound(i) /\ previewed[i] = {}
  BY <1>3 DEF ImportInv, Tables, RowsSound, BatchSound
<1>5. b \in BatchRows /\ b.status = "ANALYZING"
  BY <1>2, <1>4 DEF BatchRows, Statuses
<1>6. BatchWritten(i, b)
  BY <1>2, <1>3, <1>4, <1>5 DEF BatchWritten, BatchSound, BatchRows, ImportInv, Tables
<1>7. GoesOn(w, rec, i)
  <2>1. \A v \in Workers : At(v, "store") => worker[v].imp # i
    BY <1>3, RequestKnows DEF ImportInv, Knows, At
  <2> QED BY <1>1, <1>3, <2>1 DEF GoesOn, WorkerShape, Places, Idle
<1>8. Knows(rec)'
  <2>1. imports'[i].status = "ANALYZING"
    BY <1>3, <1>5 DEF ImportInv, Tables
  <2> QED BY <1>1, <2>1 DEF Knows, Later, Idle
<1> QED BY <1>3, <1>6, <1>7, <1>8, Writes

LEMMA StoreInv ==
  ASSUME ImportInv, NEW w \in Workers, StoreFails(w) \/ StoreWorkbook(w),
         requests' \in 0..MaxRequests
  PROVE  ImportInv'
<1>1. worker[w].at = "store"
  BY DEF StoreFails, StoreWorkbook, At
<1>2. PICK i \in Imports : i = worker[w].imp /\ imports[i].status = "ANALYZING"
  BY <1>1, RequestKnows DEF ImportInv, Knows
<1>3. imports[i] \in BatchRows /\ BatchSound(i)
  BY DEF ImportInv, Tables, RowsSound
<1>4. OtherTablesStay /\ UNCHANGED previewed
  BY DEF StoreFails, StoreWorkbook, OtherTablesStay, history
<1>5. PICK rec : worker' = [worker EXCEPT ![w] = rec] /\
        (rec = Idle \/ rec = [Idle EXCEPT !.at = "settle", !.imp = i, !.arg = DerivedStatus(NewTable(i))])
  BY <1>2 DEF StoreFails, StoreWorkbook, Leave, Go, ToSettle
<1>6. PICK b : imports' = [imports EXCEPT ![i] = b] /\
        (b = [imports[i] EXCEPT !.status = "FAILED"] \/ b = NewTable(i))
  BY <1>2 DEF StoreFails, StoreWorkbook, Becomes
<1>7. b \in BatchRows /\ b.status \in {"FAILED", "NEEDS_INPUT"}
      /\ (b.mapping # Null => b.version >= 1)
      /\ (b.previewVersion # 0 => b.previewVersion \in previewed[i])
  <2>1. CASE b = [imports[i] EXCEPT !.status = "FAILED"]
    BY <1>3, <2>1 DEF BatchRows, Statuses, Finished, BatchSound
  <2>2. CASE b = NewTable(i)
    <3>1. Proposal[i] \in Mappings
      BY ImportConstants
    <3> QED BY <2>2, <3>1 DEF NewTable, BatchRows, Statuses
  <2> QED BY <1>6, <2>1, <2>2
<1>8. BatchWritten(i, b)
  BY <1>2, <1>4, <1>6, <1>7 DEF BatchWritten, ImportInv, Tables
<1>9. DerivedStatus(NewTable(i)) \in Settled
  BY DEF DerivedStatus, Settled
<1>10. GoesOn(w, rec, i)
  <2>1. \A v \in Workers \ {w} : At(v, "store") => worker[v].imp # i
    BY <1>1, <1>2 DEF ImportInv, InFlight, At
  <2>2. CASE rec = Idle
    BY <1>5, <2>1, <2>2, IdleKnows DEF GoesOn, Idle
  <2>3. CASE rec = [Idle EXCEPT !.at = "settle", !.imp = i, !.arg = DerivedStatus(NewTable(i))]
    <3>1. rec.at = "settle" /\ DOMAIN rec = DOMAIN Idle
      BY <2>3 DEF Idle
    <3> QED BY <1>5, <2>1, <3>1 DEF GoesOn, WorkerShape, Places
  <2> QED BY <1>5, <2>2, <2>3
<1>11. Knows(rec)'
  <2>1. imports'[i].status \notin {"NONE", "ANALYZING"}
    BY <1>6, <1>7 DEF ImportInv, Tables
  <2>2. CASE rec = Idle
    BY <2>2, IdleKnows
  <2>3. CASE rec = [Idle EXCEPT !.at = "settle", !.imp = i, !.arg = DerivedStatus(NewTable(i))]
    <3>1. rec.at = "settle" /\ rec.imp = i /\ rec.arg \in Settled
      BY <1>9, <2>3 DEF Idle
    <3> QED BY <2>1, <3>1 DEF Knows, Later
  <2> QED BY <1>5, <2>2, <2>3
<1> QED BY <1>4, <1>8, <1>10, <1>11, Writes

\* A row that is written without a preview of a new version.
LEMMA PlainlyWritten ==
  ASSUME ImportInv, NEW w \in Workers, NEW i \in Imports, i = worker[w].imp, NEW b, Write(w, b),
         NEW rec, Stored(i) => /\ worker' = [worker EXCEPT ![w] = rec] /\ WorkerShape(rec)
                               /\ rec.at # "store" /\ Sane(b, previewed[i]),
         ~Stored(i) => Leave(w), UNCHANGED <<units, changes, corrections, history>>,
         Onward /\ imports'[i].status \notin {"NONE", "ANALYZING"} => Knows(rec)',
         requests' \in 0..MaxRequests
  PROVE  ImportInv'
<1>1. previewed[i] \cup {} = previewed[i] /\ previewed = [previewed EXCEPT ![i] = previewed[i]]
  BY DEF ImportInv, Tables
<1>2. OtherTablesStay /\ UNCHANGED previewed
  BY DEF OtherTablesStay, history
<1>3. RowAsWritten(w, i, b, {}, rec)
  BY <1>1, <1>2 DEF RowAsWritten
<1> QED BY <1>2, <1>3, RowWrites

\* Whatever an edit does, the row keeps a version of at least one.
LEMMA EditedSane ==
  ASSUME ImportInv, NEW i \in Imports, Stored(i), NEW m \in Mappings \cup {Null}
  PROVE  /\ Sane(SheetEdited(imports[i], m), previewed[i])
         /\ Sane(ValueMapped(imports[i], m), previewed[i])
<1>1. PICK b : b = imports[i]
  OBVIOUS
<1>2. b \in BatchRows /\ b.status \notin {"NONE", "ANALYZING", "DELETED"}
  BY <1>1 DEF ImportInv, Tables, Stored
<1>3. PICK n : n = b.version + 1
  OBVIOUS
<1>4. n \in Nat /\ n >= 1
  BY <1>2, <1>3 DEF BatchRows
<1>5. PICK e : e = [b EXCEPT !.mapping = m, !.version = n, !.previewVersion = 0]
  OBVIOUS
<1>6. e \in BatchRows /\ e.version = n /\ e.previewVersion = 0 /\ e.status = b.status
  BY <1>2, <1>4, <1>5 DEF BatchRows
<1>7. PICK f : f = [e EXCEPT !.preview = Null, !.status = "NEEDS_INPUT"]
  OBVIOUS
<1>8. f \in BatchRows /\ f.version = n /\ f.previewVersion = 0 /\ f.status = "NEEDS_INPUT"
  BY <1>6, <1>7 DEF BatchRows, Statuses
<1>9. Sane(e, previewed[i]) /\ Sane(f, previewed[i])
  BY <1>2, <1>4, <1>6, <1>8 DEF Sane
<1> QED BY <1>1, <1>3, <1>5, <1>7, <1>9 DEF SheetEdited, ValueMapped

LEMMA EditWriteInv ==
  ASSUME ImportInv, NEW w \in Workers, EditWrite(w), requests' \in 0..MaxRequests
  PROVE  ImportInv'
<1>1. worker[w].at = "edit" /\ worker[w].at \in Later
  BY DEF EditWrite, At, Later, Places
<1>2. PICK i \in Imports : i = worker[w].imp
  BY <1>1, RequestBatch
<1>3. PICK m : m = IF worker[w].arg = "phase" THEN imports[i].mapping ELSE worker[w].map
  OBVIOUS
<1>4. m \in Mappings \cup {Null}
  BY <1>1, <1>3, RequestKnows DEF ImportInv, Knows, Tables, BatchRows
<1>5. PICK b : b = IF worker[w].arg = "sheet" THEN SheetEdited(imports[i], m) ELSE ValueMapped(imports[i], m)
  OBVIOUS
<1>6. PICK rec : rec = [worker[w] EXCEPT !.at = "issues", !.map = m]
  OBVIOUS
<1>7. /\ Write(w, b) /\ UNCHANGED <<units, changes, corrections, history>>
      /\ Stored(i) => worker' = [worker EXCEPT ![w] = rec]
      /\ ~Stored(i) => Leave(w)
  BY <1>2, <1>3, <1>5, <1>6 DEF EditWrite, Row, Go
<1>8. Stored(i) => Sane(b, previewed[i])
  BY <1>4, <1>5, EditedSane
<1>9. /\ rec.at = "issues" /\ rec.map = m /\ rec.imp = i /\ WorkerShape(rec)
  <2>1. DOMAIN worker[w] = DOMAIN Idle
    BY RequestKnows DEF ImportInv, WorkerShape
  <2> QED BY <1>2, <1>6, <2>1 DEF WorkerShape, Places, Idle
<1>10. imports'[i].status \notin {"NONE", "ANALYZING"} => Knows(rec)'
  BY <1>4, <1>9 DEF Knows, Later
<1> QED BY <1>2, <1>7, <1>8, <1>9, <1>10, PlainlyWritten

LEMMA EditIssuesInv ==
  ASSUME ImportInv, NEW w \in Workers, EditIssues(w), requests' \in 0..MaxRequests
  PROVE  ImportInv'
<1>1. worker[w].at \in Later
  BY DEF EditIssues, At, Later, Places
<1>2. PICK i \in Imports : i = worker[w].imp
  BY <1>1, RequestBatch
<1>3. PICK m : /\ Write(w, [imports[i] EXCEPT !.issues = m \notin Decided])
               /\ IF Stored(i) THEN ToSettle(w, [imports[i] EXCEPT !.issues = m \notin Decided]) ELSE Leave(w)
  BY <1>2 DEF EditIssues, Row
<1>4. PICK b : b = [imports[i] EXCEPT !.issues = m \notin Decided]
  OBVIOUS
<1>5. PICK rec : rec = [Idle EXCEPT !.at = "settle", !.imp = i, !.arg = DerivedStatus(b)]
  OBVIOUS
<1>6. /\ Write(w, b) /\ UNCHANGED <<units, changes, corrections, history>>
      /\ Stored(i) => worker' = [worker EXCEPT ![w] = rec]
      /\ ~Stored(i) => Leave(w)
  BY <1>2, <1>3, <1>4, <1>5 DEF EditIssues, ToSettle, Go
<1>7. Stored(i) => Sane(b, previewed[i])
  <2> SUFFICES ASSUME Stored(i) PROVE Sane(b, previewed[i])
    OBVIOUS
  <2>1. imports[i] \in BatchRows /\ Sane(imports[i], previewed[i])
    BY RowSane DEF Sane
  <2>2. /\ b \in BatchRows /\ b.status = imports[i].status /\ b.mapping = imports[i].mapping
        /\ b.version = imports[i].version /\ b.previewVersion = imports[i].previewVersion
    BY <1>4, <2>1 DEF BatchRows
  <2> QED BY <2>1, <2>2 DEF Sane
<1>8. /\ rec.at = "settle" /\ rec.imp = i /\ rec.arg \in Settled /\ WorkerShape(rec)
  <2>1. DerivedStatus(b) \in Settled
    BY DEF DerivedStatus, Settled
  <2> QED BY <1>5, <2>1 DEF WorkerShape, Places, Idle
<1>9. imports'[i].status \notin {"NONE", "ANALYZING"} => Knows(rec)'
  BY <1>8 DEF Knows, Later
<1> QED BY <1>2, <1>6, <1>7, <1>8, <1>9, PlainlyWritten

LEMMA PreviewSheetInv ==
  ASSUME ImportInv, NEW w \in Workers, PreviewSheet(w), requests' \in 0..MaxRequests
  PROVE  ImportInv'
<1>1. worker[w].at = "preview" /\ worker[w].at \in Later
  BY DEF PreviewSheet, At, Later, Places
<1>2. PICK i \in Imports : i = worker[w].imp
  BY <1>1, RequestBatch
<1>3. PICK version \in Nat : version = worker[w].version
  BY <1>1, RequestKnows DEF ImportInv, Knows
<1>4. PICK b : b = [imports[i] EXCEPT !.previewVersion = version]
  OBVIOUS
<1>5. PICK rec : rec = [worker[w] EXCEPT !.at = "verdict"]
  OBVIOUS
<1>6. /\ Write(w, b) /\ OtherTablesStay
      /\ Stored(i) => /\ previewed' = [previewed EXCEPT ![i] = previewed[i] \cup {version}]
                      /\ worker' = [worker EXCEPT ![w] = rec]
      /\ ~Stored(i) => Leave(w) /\ UNCHANGED previewed
  BY <1>2, <1>3, <1>4, <1>5 DEF PreviewSheet, Row, Goto, Go, OtherTablesStay
<1>7. /\ rec.at = "verdict" /\ rec.version = version /\ rec.imp = i /\ WorkerShape(rec)
  <2>1. DOMAIN worker[w] = DOMAIN Idle
    BY RequestKnows DEF ImportInv, WorkerShape
  <2> QED BY <1>2, <1>3, <1>5, <2>1 DEF WorkerShape, Places, Idle
<1>8. imports'[i].status \notin {"NONE", "ANALYZING"} => Knows(rec)'
  BY <1>7 DEF Knows, Later
<1>9. Stored(i) => Sane(b, previewed[i] \cup {version})
  <2> SUFFICES ASSUME Stored(i) PROVE Sane(b, previewed[i] \cup {version})
    OBVIOUS
  <2>1. imports[i] \in BatchRows /\ Sane(imports[i], previewed[i])
    BY RowSane DEF Sane
  <2>2. /\ b \in BatchRows /\ b.status = imports[i].status /\ b.mapping = imports[i].mapping
        /\ b.version = imports[i].version /\ b.previewVersion = version
    BY <1>4, <2>1 DEF BatchRows
  <2> QED BY <2>1, <2>2 DEF Sane
<1>10. RowAsWritten(w, i, b, {version}, rec)
  BY <1>2, <1>6, <1>7, <1>9 DEF RowAsWritten
<1> QED BY <1>6, <1>8, <1>10, RowWrites

LEMMA PreviewVerdictInv ==
  ASSUME ImportInv, NEW w \in Workers, PreviewVerdict(w), requests' \in 0..MaxRequests
  PROVE  ImportInv'
<1>1. worker[w].at = "verdict" /\ worker[w].at \in Later
  BY DEF PreviewVerdict, At, Later, Places
<1>2. PICK i \in Imports : i = worker[w].imp
  BY <1>1, RequestBatch
<1>3. PICK version \in Nat : version = worker[w].version
  BY <1>1, RequestKnows DEF ImportInv, Knows
<1>4. PICK ok \in BOOLEAN : ok = RowsValid(i, worker[w].map)
  BY DEF RowsValid
<1>5. PICK verdict \in Verdicts : verdict = [canConfirm |-> ok, version |-> version]
  BY DEF Verdicts
<1>6. PICK status \in {"READY", "NEEDS_INPUT"} : status = IF ok THEN "READY" ELSE "NEEDS_INPUT"
  OBVIOUS
<1>7. PICK b : b = [imports[i] EXCEPT !.preview = verdict, !.status = status]
  OBVIOUS
<1>8. WriteThenGet(w, b)
  BY <1>2, <1>3, <1>4, <1>5, <1>6, <1>7 DEF PreviewVerdict, Row
<1>9. Stored(i) => Sane(b, previewed[i])
  <2> SUFFICES ASSUME Stored(i) PROVE Sane(b, previewed[i])
    OBVIOUS
  <2>1. imports[i] \in BatchRows /\ Sane(imports[i], previewed[i])
    BY RowSane DEF Sane
  <2>2. /\ b \in BatchRows /\ b.status = status /\ b.mapping = imports[i].mapping
        /\ b.version = imports[i].version /\ b.previewVersion = imports[i].previewVersion
    BY <1>7, <2>1 DEF BatchRows, Statuses
  <2> QED BY <2>1, <2>2 DEF Sane
<1> QED BY <1>1, <1>2, <1>8, <1>9, WriteThenGetInv

LEMMA ConfirmBeginInv ==
  ASSUME ImportInv, NEW w \in Workers, ConfirmBegin(w), requests' \in 0..MaxRequests
  PROVE  ImportInv'
<1>1. worker[w].at = "confirm" /\ worker[w].at \in Later
  BY DEF ConfirmBegin, At, Later, Places
<1>2. PICK i \in Imports : i = worker[w].imp
  BY <1>1, RequestBatch
<1>3. PICK read : read = units
  OBVIOUS
<1>4. PICK b : b = [imports[i] EXCEPT !.status = "IMPORTING"]
  OBVIOUS
<1>5. PICK rec : rec = [worker[w] EXCEPT !.at = "commit", !.read = read]
  OBVIOUS
<1>6. /\ Write(w, b) /\ UNCHANGED <<units, changes, corrections, history>>
      /\ Stored(i) => worker' = [worker EXCEPT ![w] = rec]
      /\ ~Stored(i) => Leave(w)
  BY <1>2, <1>3, <1>4, <1>5 DEF ConfirmBegin, Row, Go
<1>7. /\ rec.at = "commit" /\ rec.imp = i /\ rec.version = worker[w].version /\ rec.read = read
      /\ WorkerShape(rec)
  <2>1. DOMAIN worker[w] = DOMAIN Idle
    BY RequestKnows DEF ImportInv, WorkerShape
  <2> QED BY <1>2, <1>5, <2>1 DEF WorkerShape, Places, Idle
<1>8. ASSUME Onward, imports'[i].status \notin {"NONE", "ANALYZING"} PROVE Knows(rec)'
  <2>1. rec.version \in previewed[i]
    BY <1>1, <1>2, <1>7, RequestKnows DEF ImportInv, Knows
  <2>2. rec.version \in previewed'[i]
    BY <1>8, <2>1 DEF Onward
  <2>3. read \in [Units -> UnitRows \cup {Null}] /\ \A u \in Units : RowPreviewed(read[u])
    BY <1>3 DEF ImportInv, Tables, RowsSound
  <2>4. Snapshot(read)'
    BY <1>8, <2>3, RowPreviewedOn DEF ImportInv, Snapshot
  <2> QED BY <1>7, <1>8, <2>2, <2>4 DEF Knows, Later
<1>9. Stored(i) => Sane(b, previewed[i])
  BY <1>4, StatusWritten
<1> QED BY <1>2, <1>6, <1>7, <1>8, <1>9, PlainlyWritten

-----------------------------------------------------------------------------
(* The initial states, and steps of no request in flight *)

LEMMA ImportInvInit == ASSUME Init PROVE ImportInv
<1>1. PICK S \in SUBSET {i \in Imports : CanPreview(NewTable(i))} :
        /\ imports = [i \in Imports |-> IF i \in S THEN FirstPreview(i) ELSE NoImport]
        /\ previewed = [i \in Imports |-> IF i \in S THEN {1} ELSE {}]
  BY DEF Init
<1>2. ASSUME NEW i \in Imports
      PROVE  /\ FirstPreview(i) \in BatchRows /\ FirstPreview(i).version = 1
             /\ FirstPreview(i).previewVersion = 1
             /\ FirstPreview(i).status \in {"READY", "NEEDS_INPUT"}
  <2>1. PICK ok \in BOOLEAN : ok = RowsValid(i, Proposal[i])
    BY DEF RowsValid
  <2>2. PICK b : b = NewTable(i)
    OBVIOUS
  <2>3. b \in BatchRows /\ b.version = 1
    <3>1. Proposal[i] \in Mappings
      BY ImportConstants
    <3> QED BY <2>2, <3>1 DEF NewTable, BatchRows, Statuses
  <2>4. PICK verdict \in Verdicts : verdict = [canConfirm |-> ok, version |-> 1]
    BY DEF Verdicts
  <2>5. PICK status \in {"READY", "NEEDS_INPUT"} : status = IF ok THEN "READY" ELSE "NEEDS_INPUT"
    OBVIOUS
  <2>6. PICK c : c = [b EXCEPT !.previewVersion = 1, !.preview = verdict, !.status = status]
    OBVIOUS
  <2>7. FirstPreview(i) = c
    BY <2>1, <2>2, <2>4, <2>5, <2>6 DEF FirstPreview
  <2>8. c \in BatchRows /\ c.version = 1 /\ c.previewVersion = 1 /\ c.status = status
    BY <2>3, <2>6 DEF BatchRows, Statuses
  <2> QED BY <2>7, <2>8
<1>3. /\ NoImport \in BatchRows /\ NoImport.mapping = Null /\ NoImport.previewVersion = 0
      /\ NoImport.status = "NONE"
  BY DEF NoImport, BatchRows, Statuses
<1>4. /\ imports \in [Imports -> BatchRows] /\ previewed \in [Imports -> SUBSET Nat]
      /\ \A i \in Imports : BatchSound(i)
  BY <1>1, <1>2, <1>3 DEF BatchSound
<1>5. ASSUME NEW u \in Units, Initial[u] # Null
      PROVE  /\ Blank(Initial[u]) \in UnitRows /\ Blank(Initial[u]).source = Null
             /\ Blank(Initial[u]).wrote = Null /\ Blank(Initial[u]) # Null
             /\ [Blank(Initial[u]) EXCEPT !.media = FALSE] = Blank(Initial[u])
  <2>1. Initial[u] \in Values
    BY <1>5, ImportConstants
  <2>2. Blank(Initial[u]) \in UnitRows
    BY <2>1 DEF Blank, UnitRows, Origins
  <2>3. Blank(Initial[u]) # Null
    BY <2>2, ImportConstants
  <2>4. PICK b \in UnitRows : b = Blank(Initial[u])
    BY <2>2
  <2>5. b.source = Null /\ b.wrote = Null /\ b.media = FALSE
    BY <2>4 DEF Blank
  <2>6. [b EXCEPT !.media = FALSE] = b
    BY <2>5 DEF UnitRows, Origins
  <2> QED BY <2>2, <2>3, <2>4, <2>5, <2>6
<1>6. /\ units \in [Units -> UnitRows \cup {Null}]
      /\ \A u \in Units : /\ units[u] # Null => units[u].source = Null /\ units[u].wrote = Null
                          /\ First(u, units[u])
  <2>1. \A u \in Units : units[u] = IF Initial[u] = Null THEN Null ELSE Blank(Initial[u])
    BY DEF Init
  <2>2. units = [u \in Units |-> units[u]]
    BY DEF Init
  <2> QED BY <1>5, <2>1, <2>2 DEF First
<1>7. NoCorrection \in Drafts /\ NoCorrection.state = "NONE"
  BY DEF NoCorrection, Drafts
<1>8. Tables
  BY <1>4, <1>6, <1>7, ImportConstants DEF Init, Tables
<1>9. Keys
  BY <1>6, <1>7 DEF Init, Keys
<1>10. RowsSound
  <2>1. \A i \in Imports : DraftSound(i, corrections[i])
    BY <1>7 DEF Init, DraftSound
  <2>2. \A u \in Units : RowPreviewed(units[u])
    BY <1>6 DEF RowPreviewed
  <2> QED BY <1>4, <2>1, <2>2 DEF Init, RowsSound
<1>11. InFlight
  <2>1. worker = [w \in Workers |-> Idle]
    BY DEF Init
  <2>2. \A r \in InProgress : r = Idle
    BY <2>1 DEF InProgress
  <2>3. \A w \in Workers : ~At(w, "store")
    BY <2>1 DEF At, Idle
  <2>4. worker = [w \in Workers |-> worker[w]]
    BY <2>1
  <2> QED BY <2>2, <2>3, <2>4, IdleKnows DEF InFlight
<1>12. \A u \in Units : Open(u) = {}
  BY DEF Init, Open
<1>13. Stack
  BY <1>6, <1>12 DEF Stack, Top, Claimed
<1>14. Bottoms
  BY <1>6, <1>12 DEF Bottoms, Bottom
<1> QED BY <1>8, <1>9, <1>10, <1>11, <1>13, <1>14 DEF ImportInv

LEMMA CrashInv ==
  ASSUME ImportInv, Crash, requests' \in 0..MaxRequests
  PROVE  ImportInv'
<1> USE DEF db, history
<1>1. worker' = [w \in Workers |-> Idle] /\ UNCHANGED <<db, history>>
  BY DEF Crash
<1>2. InFlight'
  <2>1. \A r \in InProgress' : r = Idle
    BY <1>1 DEF InProgress
  <2>2. \A w \in Workers : worker'[w].at # "store"
    BY <1>1 DEF Idle
  <2>3. worker' = [w \in Workers |-> worker'[w]]
    BY <1>1
  <2>4. \A r \in InProgress' : WorkerShape(r) /\ Knows(r)'
    BY <2>1, IdleKnows
  <2> QED BY <2>2, <2>3, <2>4 DEF InFlight, At, WorkerShape
<1>3. Tables' /\ RowsSound'
  BY <1>1 DEF ImportInv, Tables, RowsSound, BatchSound, RowPreviewed, ChangeSound, DraftSound
<1>4. Onward
  BY <1>1 DEF Onward
<1>5. Keys'
  BY <1>1, KeysOn DEF ImportInv, Stored
<1>6. Stack' /\ Bottoms'
  BY <1>1, <1>4, StackOn, BottomsOn DEF ImportInv
<1> QED BY <1>2, <1>3, <1>5, <1>6 DEF ImportInv

\* The catalogue edits the row of one unit: an import wrote what it wrote, if any.
LEMMA CatalogInv ==
  ASSUME ImportInv, NEW u \in Units, NEW x \in UnitRows, Catalog(x, u), UNCHANGED <<changes, worker>>,
         units[u] = Null => x.wrote = Null /\ x.source = Null,
         units[u] # Null => x.wrote = units[u].wrote /\ x.source = units[u].source,
         touched \subseteq touched', u \in touched' \/ (First(u, units[u]) => First(u, x)),
         requests' \in 0..MaxRequests
  PROVE  ImportInv'
<1>1. /\ units' \in [Units -> UnitRows \cup {Null}] /\ x # Null
      /\ \A v \in Units : units'[v] = IF v = u THEN x ELSE units[v]
      /\ UNCHANGED <<imports, corrections, previewed, lost>>
  BY ImportConstants DEF ImportInv, Tables, Catalog
<1>2. Onward /\ RowsStay
  BY <1>1 DEF Onward, RowsStay, SameChange
<1>3. InFlight'
  BY <1>1, <1>2, NoneMoves DEF ImportInv
<1>4. Tables'
  BY <1>1 DEF ImportInv, Tables
<1>5. RowsSound'
  <2>1. \A i \in Imports : BatchSound(i)' /\ DraftSound(i, corrections'[i])
    BY <1>1 DEF ImportInv, RowsSound, BatchSound
  <2>2. \A v \in Units : RowPreviewed(units[v])'
    BY <1>1 DEF ImportInv, RowsSound, RowPreviewed
  <2>3. \A c \in changes : ChangeSound(c)'
    BY <1>1 DEF ImportInv, RowsSound, RowPreviewed, ChangeSound
  <2> QED BY <2>1, <2>2, <2>3 DEF RowsSound, DraftSound
<1>6. Keys'
  <2>1. \A i \in Imports : Stored(i)' = Stored(i)
    BY <1>1 DEF Stored
  <2>2. ASSUME NEW v \in Units, units'[v] # Null, units'[v].source # Null
        PROVE  Stored(units[v].source)'
    <3>1. units[v] # Null /\ units'[v].source = units[v].source
      BY <1>1, <2>2
    <3>2. units[v].source \in Imports /\ Stored(units[v].source)
      BY <2>2, <3>1 DEF ImportInv, Tables, UnitRows, Origins, Keys
    <3> QED BY <2>1, <3>1, <3>2 DEF Stored
  <2>3. \A c \in changes : Stored(c.imp)' /\ (c.linked => units'[c.unit] # Null)
    BY <1>1, <2>1 DEF ImportInv, Tables, ChangeRows, Keys
  <2>4. \A i \in Imports : corrections'[i].state # "NONE" => Stored(i)'
    BY <1>1, <2>1 DEF ImportInv, Keys
  <2>5. /\ \A c, d \in changes : c.imp = d.imp /\ c.unit = d.unit /\ c.linked /\ d.linked => c = d
        /\ \A c, d \in changes : c.unit = d.unit /\ c.at = d.at => c = d
    BY DEF ImportInv, Keys
  <2> QED BY <2>2, <2>3, <2>4, <2>5 DEF Keys
<1>7. \A v \in Units : Open(v)' = Open(v)
  BY DEF Open
<1>8. units[u] = Null => Open(u) = {}
  BY DEF Open, ImportInv, Keys
<1>9. Stack'
  <2>1. \A v \in Units : (Claimed(units[v])' => Claimed(units[v]))
                        /\ (units[v] # Null => units'[v].wrote = units[v].wrote)
    BY <1>1 DEF Claimed, Stored
  <2>2. \A v \in Units \ lost : Top(v)'
    <3> TAKE v \in Units \ lost
    <3>1. Top(v)
      BY DEF ImportInv, Stack
    <3>2. CASE units[v] = Null
      <4>1. ~Claimed(units[v]) /\ ~Claimed(units[v])'
        BY <2>1, <3>2 DEF Claimed
      <4>2. Open(v) = {}
        BY <3>2 DEF Open, ImportInv, Keys
      <4> QED BY <1>7, <4>1, <4>2 DEF Top
    <3>3. CASE units[v] # Null
      BY <1>7, <2>1, <3>1, <3>3 DEF Top, WroteIt
    <3> QED BY <3>2, <3>3
  <2>3. \A v \in Units \ lost : \A c \in Open(v)' : Stacked(v, c)'
    <3> TAKE v \in Units \ lost
    <3> TAKE c \in Open(v)'
    <3>1. c \in Open(v) /\ Stacked(v, c) /\ (Claimed(c.before)' => Claimed(c.before))
      BY <1>1, <1>7 DEF ImportInv, Stack, Claimed, Stored
    <3> QED BY <1>7, <3>1 DEF Stacked, WroteIt
  <2> QED BY <1>1, <2>2, <2>3 DEF Stack
<1>10. Bottoms'
  <2> SUFFICES ASSUME NoneDeleted, NEW v \in Units \ (lost \cup touched') PROVE Bottom(v)'
    BY <1>1 DEF Bottoms, NoneDeleted
  <2>1. Bottom(v)
    BY DEF ImportInv, Bottoms
  <2>2. First(v, units[v]) => First(v, units'[v])
    BY <1>1
  <2> QED BY <1>7, <2>1, <2>2 DEF Bottom, First
<1> QED BY <1>3, <1>4, <1>5, <1>6, <1>9, <1>10 DEF ImportInv

LEMMA CreateUnitInv ==
  ASSUME ImportInv, NEW u \in Units, CreateUnit(u), requests' \in 0..MaxRequests
  PROVE  ImportInv'
<1>1. PICK x : x = Blank(Manual)
  OBVIOUS
<1>2. x \in UnitRows /\ x.wrote = Null /\ x.source = Null
  BY <1>1, ImportConstants DEF Blank, UnitRows, Origins
<1>3. /\ Catalog(x, u) /\ units[u] = Null /\ touched' = touched \cup {u}
      /\ UNCHANGED <<changes, worker>>
  BY <1>1 DEF CreateUnit, ByHand
<1> QED BY <1>2, <1>3, CatalogInv

LEMMA UpdateUnitInv ==
  ASSUME ImportInv, NEW u \in Units, UpdateUnit(u), requests' \in 0..MaxRequests
  PROVE  ImportInv'
<1>1. PICK x : x = [units[u] EXCEPT !.value = Manual]
  OBVIOUS
<1>2. /\ Catalog(x, u) /\ units[u] # Null /\ touched' = touched \cup {u}
      /\ UNCHANGED <<changes, worker>>
  BY <1>1 DEF UpdateUnit, ByHand
<1>3. units[u] \in UnitRows
  BY <1>2 DEF ImportInv, Tables
<1>4. x \in UnitRows /\ x.wrote = units[u].wrote /\ x.source = units[u].source
  BY <1>1, <1>3, ImportConstants DEF UnitRows, Origins
<1> QED BY <1>2, <1>4, CatalogInv

LEMMA AttachMediaInv ==
  ASSUME ImportInv, NEW u \in Units, AttachMedia(u), requests' \in 0..MaxRequests
  PROVE  ImportInv'
<1>1. PICK x : x = [units[u] EXCEPT !.media = TRUE]
  OBVIOUS
<1>2. Catalog(x, u) /\ units[u] # Null /\ UNCHANGED <<changes, worker, touched>>
  BY <1>1 DEF AttachMedia
<1>3. units[u] \in UnitRows
  BY <1>2 DEF ImportInv, Tables
<1>4. x \in UnitRows /\ x.wrote = units[u].wrote /\ x.source = units[u].source /\ x # Null
      /\ [x EXCEPT !.media = FALSE] = [units[u] EXCEPT !.media = FALSE]
  BY <1>1, <1>3, ImportConstants DEF UnitRows, Origins
<1>5. First(u, units[u]) => First(u, x)
  BY <1>2, <1>4 DEF First
<1> QED BY <1>2, <1>4, <1>5, CatalogInv

\* The correction of one batch is written.
LEMMA DraftInv ==
  ASSUME ImportInv, NEW i \in Imports, NEW d \in Drafts, corrections' = [corrections EXCEPT ![i] = d],
         d.state # "NONE", DraftSound(i, d), Stored(i),
         UNCHANGED <<imports, units, changes, worker, history>>,
         requests' \in 0..MaxRequests
  PROVE  ImportInv'
<1> USE DEF history
<1>1. /\ corrections' \in [Imports -> Drafts]
      /\ \A k \in Imports : corrections'[k] = IF k = i THEN d ELSE corrections[k]
  BY DEF ImportInv, Tables
<1>2. Onward /\ RowsStay
  BY <1>1 DEF Onward, RowsStay, SameChange
<1>3. InFlight'
  BY <1>2, NoneMoves DEF ImportInv
<1>4. Tables' /\ Keys'
  BY <1>1 DEF ImportInv, Tables, Keys, Stored
<1>5. RowsSound'
  <2>1. \A k \in Imports : DraftSound(k, corrections'[k])
    BY <1>1 DEF ImportInv, RowsSound
  <2>2. \A c \in changes : ChangeSound(c)'
    BY DEF ImportInv, RowsSound, ChangeSound, RowPreviewed
  <2> QED BY <2>1, <2>2 DEF ImportInv, RowsSound, BatchSound, RowPreviewed, DraftSound
<1>6. Stack' /\ Bottoms'
  BY <1>2, StackOn, BottomsOn DEF ImportInv
<1> QED BY <1>3, <1>4, <1>5, <1>6 DEF ImportInv

LEMMA CorrectionCreateInv ==
  ASSUME ImportInv, NEW i \in Imports, NEW m \in Mappings, CorrectionCreate(i, m),
         requests' \in 0..MaxRequests
  PROVE  ImportInv'
<1>1. PICK d : d = [state |-> "DRAFT", mapping |-> m, items |-> {}]
  OBVIOUS
<1>2. d \in Drafts /\ d.state # "NONE" /\ DraftSound(i, d) /\ Stored(i)
  BY <1>1 DEF CorrectionCreate, Drafts, DraftSound, Stored
<1> QED BY <1>1, <1>2, DraftInv DEF CorrectionCreate

LEMMA CorrectionPreviewInv ==
  ASSUME ImportInv, NEW i \in Imports, CorrectionPreview(i), requests' \in 0..MaxRequests
  PROVE  ImportInv'
<1>1. PICK m : m = corrections[i].mapping
  OBVIOUS
<1>2. PICK affected : affected = {c \in ChangesOf(i) : /\ c.linked /\ c.unit \in Rows(i, m)
                                                     /\ units[c.unit].value # Cell[i][m][c.unit]}
  OBVIOUS
<1>3. PICK items : items = {[unit |-> c.unit,
                             conflict |-> units[c.unit].value # c.after.value] : c \in affected}
  OBVIOUS
<1>4. PICK d : d = [state |-> "PREVIEW_READY", mapping |-> m, items |-> items]
  OBVIOUS
<1>5. /\ corrections' = [corrections EXCEPT ![i] = d] /\ corrections[i].state # "NONE"
      /\ UNCHANGED <<imports, units, changes, worker, history>>
  BY <1>1, <1>2, <1>3, <1>4 DEF CorrectionPreview
<1>6. corrections[i] \in Drafts /\ DraftSound(i, corrections[i]) /\ Stored(i)
  BY <1>5 DEF ImportInv, Tables, RowsSound, Keys
<1>7. \A x \in items : x \in Items /\ x.unit \in Rows(i, m)
  <2> TAKE x \in items
  <2>1. PICK c \in affected : x = [unit |-> c.unit, conflict |-> units[c.unit].value # c.after.value]
    BY <1>3
  <2>2. c.unit \in Rows(i, m) /\ c.unit \in Units
    BY <1>2 DEF Rows
  <2> QED BY <2>1, <2>2 DEF Items
<1>8. d \in Drafts /\ d.state # "NONE" /\ DraftSound(i, d)
  BY <1>1, <1>4, <1>5, <1>6, <1>7 DEF Drafts, DraftSound
<1> QED BY <1>5, <1>6, <1>8, DraftInv

-----------------------------------------------------------------------------
(* Steps that write several tables *)

\* A stored batch's row becomes b.
LEMMA BatchSaved ==
  ASSUME ImportInv, NEW i \in Imports, NEW b, imports' = [imports EXCEPT ![i] = b],
         Sane(b, previewed[i]), Stored(i), UNCHANGED previewed,
         \A k \in Imports : corrections[k].state # "NONE" => corrections'[k].state # "NONE"
  PROVE  /\ imports' \in [Imports -> BatchRows] /\ Onward
         /\ \A k \in Imports : BatchSound(k)' /\ Stored(k)' = Stored(k)
<1>1. /\ imports' \in [Imports -> BatchRows]
      /\ \A k \in Imports : imports'[k] = IF k = i THEN b ELSE imports[k]
  BY DEF ImportInv, Tables, Sane
<1>2. Onward
  BY <1>1 DEF Onward, Sane, Stored
<1>3. \A k \in Imports : BatchSound(k)'
  BY <1>1 DEF Sane, ImportInv, RowsSound, BatchSound
<1>4. \A k \in Imports : Stored(k)' = Stored(k)
  BY <1>1 DEF Stored, Sane
<1> QED BY <1>1, <1>2, <1>3, <1>4

\* A request that ends while stored batches change.
LEMMA EndsInFlight ==
  ASSUME ImportInv, Onward, RowsStay, NEW w \in Workers, Leave(w),
         NEW i, imports[i].status # "ANALYZING",
         \A k \in Imports \ {i} : imports'[k] = imports[k]
  PROVE  InFlight'
<1>1. worker' = [worker EXCEPT ![w] = Idle] /\ Idle.at # "store"
  BY DEF Leave, Go, Idle
<1>2. \A v \in Workers : At(v, "store") => imports'[worker[v].imp].status = "ANALYZING"
  BY RequestKnows DEF ImportInv, Knows, At
<1> QED BY <1>1, <1>2, IdleKnows, OneMoves DEF ImportInv

\* What becomes of a change row that is neither new nor deleted.
Keeps(c, d) == /\ SameChange(c, d) /\ d.before = c.before /\ d.after = c.after
               /\ d.linked => c.linked

\* Every change row c becomes m[c].
LEMMA RowsMarked ==
  ASSUME ImportInv, Onward, NEW m, changes' = {m[c] : c \in changes},
         \A c \in changes : m[c] \in ChangeRows /\ Keeps(c, m[c])
  PROVE  /\ changes' \subseteq ChangeRows /\ RowsStay
         /\ \A d \in changes' : ChangeSound(d)'
         /\ \A c, d \in changes' : c.imp = d.imp /\ c.unit = d.unit /\ c.linked /\ d.linked => c = d
         /\ \A c, d \in changes' : c.unit = d.unit /\ c.at = d.at => c = d
<1>1. changes' \subseteq ChangeRows
  OBVIOUS
<1>2. RowsStay
  BY DEF RowsStay, Keeps
<1>3. ASSUME NEW d \in changes' PROVE ChangeSound(d)'
  <2>1. PICK c \in changes : d = m[c]
    OBVIOUS
  <2>2. c \in ChangeRows /\ ChangeSound(c)
    BY DEF ImportInv, Tables, RowsSound
  <2>3. ChangeSound(c)'
    BY <2>2, ChangeSoundOn DEF ImportInv
  <2> QED BY <2>1, <2>3 DEF Keeps, SameChange, ChangeSound
<1>4. ASSUME NEW c \in changes', NEW d \in changes', c.imp = d.imp, c.unit = d.unit, c.linked, d.linked
      PROVE  c = d
  <2>1. PICK e \in changes, f \in changes : c = m[e] /\ d = m[f]
    OBVIOUS
  <2>2. e.imp = f.imp /\ e.unit = f.unit /\ e.linked /\ f.linked
    BY <1>4, <2>1 DEF Keeps, SameChange
  <2> QED BY <2>1, <2>2 DEF ImportInv, Keys
<1>5. ASSUME NEW c \in changes', NEW d \in changes', c.unit = d.unit, c.at = d.at
      PROVE  c = d
  <2>1. PICK e \in changes, f \in changes : c = m[e] /\ d = m[f]
    OBVIOUS
  <2>2. e.unit = f.unit /\ e.at = f.at
    BY <1>5, <2>1 DEF Keeps, SameChange
  <2> QED BY <2>1, <2>2 DEF ImportInv, Keys
<1> QED BY <1>1, <1>2, <1>3, <1>4, <1>5

\* The stack of a unit loses at most rows of batches that are gone, and the unit
\* keeps what an import wrote.
Alike(c, d) == d.imp = c.imp /\ d.at = c.at /\ d.before = c.before
StackRests(u) ==
  /\ \A d \in Open(u)' : \E c \in Open(u) : Alike(c, d)
  /\ \A c \in Open(u) : Stored(c.imp)' => \E d \in Open(u)' : Alike(c, d)
UnitRests(u) == /\ units'[u] = Null <=> units[u] = Null
                /\ units[u] # Null => units'[u].wrote = units[u].wrote

LEMMA StackRestsOn ==
  ASSUME ImportInv, Onward, NEW u \in Units \ lost, StackRests(u), UnitRests(u)
  PROVE  Top(u)' /\ \A c \in Open(u)' : Stacked(u, c)'
<1>1. Top(u) /\ \A c \in Open(u) : Stacked(u, c) /\ c \in changes /\ units[u] # Null
  BY DEF ImportInv, Stack, Open, Keys
<1>2. Claimed(units[u])' => Claimed(units[u]) /\ Stored(units[u].wrote.imp)' /\ units[u] # Null
  <2> SUFFICES ASSUME Claimed(units[u])'
               PROVE Claimed(units[u]) /\ Stored(units[u].wrote.imp)' /\ units[u] # Null
    OBVIOUS
  <2>1. PICK x : x = units[u]
    OBVIOUS
  <2>2. x # Null /\ x.wrote # Null /\ Stored(x.wrote.imp)'
    BY <2>1 DEF Claimed, Stored, UnitRests
  <2>3. x \in UnitRows \cup {Null} /\ RowPreviewed(x)
    BY <2>1 DEF ImportInv, Tables, RowsSound
  <2>4. Claimed(x)' => Claimed(x)
    BY <2>3, RowPreviewedOn DEF ImportInv
  <2> QED BY <2>1, <2>2, <2>4 DEF Claimed, Stored
<1>3. \A c \in Open(u) : Claimed(c.before)' => Claimed(c.before) /\ Stored(c.before.wrote.imp)'
  <2> TAKE c \in Open(u)
  <2>1. c.before \in UnitRows \cup {Null} /\ RowPreviewed(c.before)
    BY <1>1 DEF ImportInv, Tables, ChangeRows, RowsSound, ChangeSound
  <2> QED BY <2>1, RowPreviewedOn DEF ImportInv, Claimed
<1>4. Top(u)'
  <2>1. ASSUME Claimed(units[u])' PROVE \E d \in Open(u)' : WroteIt(d, units'[u])
    <3>1. PICK c \in Open(u) : c.imp = units[u].wrote.imp
      BY <1>1, <1>2, <2>1 DEF Top, WroteIt
    <3>2. PICK d \in Open(u)' : Alike(c, d)
      BY <1>2, <2>1, <3>1 DEF StackRests, Stored, UnitRests
    <3> QED BY <1>2, <2>1, <3>1, <3>2 DEF Alike, WroteIt, UnitRests
  <2>2. ASSUME NEW d \in Open(u)'
        PROVE  /\ units'[u].wrote # Null
               /\ Claimed(units[u])' => \E e \in Open(u)' : WroteIt(e, units'[u]) /\ d.at <= e.at
    <3>1. PICK c \in Open(u) : Alike(c, d)
      BY DEF StackRests
    <3>2. units'[u].wrote = units[u].wrote /\ units[u].wrote # Null
      BY <1>1, <3>1 DEF UnitRests, Top
    <3>3. ASSUME Claimed(units[u])'
          PROVE  \E e \in Open(u)' : WroteIt(e, units'[u]) /\ d.at <= e.at
      <4>1. PICK f \in Open(u) : f.imp = units[u].wrote.imp /\ c.at <= f.at
        BY <1>1, <1>2, <3>3 DEF Top, WroteIt
      <4>2. PICK e \in Open(u)' : Alike(f, e)
        BY <1>2, <3>2, <3>3, <4>1 DEF StackRests, Stored
      <4> QED BY <3>1, <3>2, <4>1, <4>2 DEF Alike, WroteIt
    <3> QED BY <3>2, <3>3
  <2> QED BY <2>1, <2>2 DEF Top, WroteIt
<1>5. ASSUME NEW d \in Open(u)' PROVE Stacked(u, d)'
  <2>1. PICK c \in Open(u) : Alike(c, d)
    BY DEF StackRests
  <2>2. ASSUME Claimed(d.before)'
        PROVE  \E e \in Open(u)' : WroteIt(e, d.before) /\ e.at < d.at
    <3>1. Claimed(c.before) /\ Stored(c.before.wrote.imp)'
      BY <1>3, <2>1, <2>2 DEF Alike
    <3>2. PICK f \in Open(u) : f.imp = c.before.wrote.imp /\ f.at < c.at
      BY <1>1, <3>1 DEF Stacked, WroteIt
    <3>3. PICK e \in Open(u)' : Alike(f, e)
      BY <3>1, <3>2 DEF StackRests
    <3> QED BY <2>1, <3>2, <3>3 DEF Alike, WroteIt
  <2>3. ASSUME NEW g \in Open(u)', g.at < d.at
        PROVE  /\ d.before # Null /\ d.before.wrote # Null
               /\ Claimed(d.before)' =>
                    \E e \in Open(u)' : WroteIt(e, d.before) /\ e.at < d.at /\ g.at <= e.at
    <3>1. PICK h \in Open(u) : Alike(h, g)
      BY DEF StackRests
    <3>2. h.at < c.at
      BY <2>1, <2>3, <3>1 DEF Alike
    <3>3. c.before # Null /\ c.before.wrote # Null
      BY <1>1, <3>2 DEF Stacked
    <3>4. ASSUME Claimed(d.before)'
          PROVE  \E e \in Open(u)' : WroteIt(e, d.before) /\ e.at < d.at /\ g.at <= e.at
      <4>1. Claimed(c.before) /\ Stored(c.before.wrote.imp)'
        BY <1>3, <2>1, <3>4 DEF Alike
      <4>2. PICK f \in Open(u) : f.imp = c.before.wrote.imp /\ f.at < c.at /\ h.at <= f.at
        BY <1>1, <3>2, <4>1 DEF Stacked, WroteIt
      <4>3. PICK e \in Open(u)' : Alike(f, e)
        BY <4>1, <4>2 DEF StackRests
      <4> QED BY <2>1, <3>1, <4>2, <4>3 DEF Alike, WroteIt
    <3> QED BY <2>1, <3>3, <3>4 DEF Alike
  <2> QED BY <2>2, <2>3 DEF Stacked
<1> QED BY <1>4, <1>5

LEMMA BottomRestsOn ==
  ASSUME ImportInv, Onward, NoneDeleted', NEW u \in Units \ (lost \cup touched), StackRests(u),
         First(u, units[u]) => First(u, units'[u])
  PROVE  Bottom(u)'
<1>1. NoneDeleted /\ Bottom(u)
  BY DEF ImportInv, Bottoms, NoneDeleted, Onward
<1>2. \A c \in Open(u) : Stored(c.imp)'
  BY DEF Open, ImportInv, Keys, Tables, ChangeRows, Stored, NoneDeleted, Onward
<1>3. \A c \in Open(u) : \E d \in Open(u)' : Alike(c, d)
  BY <1>2 DEF StackRests
<1>4. Open(u)' = {} => First(u, units'[u])
  BY <1>1, <1>3 DEF Bottom
<1>5. ASSUME NEW d \in Open(u)', \A e \in Open(u)' : d.at <= e.at
      PROVE  First(u, d.before)
  <2>1. PICK c \in Open(u) : Alike(c, d)
    BY DEF StackRests
  <2>2. \A e \in Open(u) : c.at <= e.at
    BY <1>3, <1>5, <2>1 DEF Alike
  <2> QED BY <1>1, <2>1, <2>2 DEF Bottom, Alike
<1> QED BY <1>4, <1>5 DEF Bottom, First

\* A unit is deleted by hand: its change rows lose it.
LEMMA DropUnitInv ==
  ASSUME ImportInv, NEW w \in Workers, DropUnit(w), requests' \in 0..MaxRequests
  PROVE  ImportInv'
<1>1. PICK u \in Units : u = worker[w].arg
  BY RequestKnows DEF ImportInv, DropUnit, At, Knows
<1>2. PICK m : m = [c \in changes |-> [c EXCEPT !.linked = c.linked /\ c.unit # u]]
  OBVIOUS
<1>3. /\ units' = [units EXCEPT ![u] = Null] /\ changes' = {m[c] : c \in changes}
      /\ UNCHANGED <<imports, corrections, previewed, lost>> /\ touched' = touched \cup {u}
      /\ Leave(w)
  BY <1>1, <1>2 DEF DropUnit, Catalog, ByHand
<1>4. Onward
  BY <1>3 DEF Onward
<1>5. ASSUME NEW c \in changes
      PROVE  /\ m[c] \in ChangeRows /\ Keeps(c, m[c])
             /\ m[c].linked <=> (c.linked /\ c.unit # u)
             /\ m[c].reverted <=> c.reverted
  <2>1. c \in ChangeRows
    BY DEF ImportInv, Tables
  <2>2. PICK linked \in BOOLEAN : linked = (c.linked /\ c.unit # u)
    BY <2>1 DEF ChangeRows
  <2>3. m[c] = [c EXCEPT !.linked = linked]
    BY <1>2, <2>2
  <2>4. /\ m[c] \in ChangeRows /\ m[c].linked = linked /\ m[c].reverted = c.reverted
        /\ m[c].imp = c.imp /\ m[c].unit = c.unit /\ m[c].at = c.at /\ m[c].before = c.before
        /\ m[c].after = c.after
    BY <2>1, <2>3 DEF ChangeRows
  <2> QED BY <2>2, <2>4 DEF Keeps, SameChange
<1>6. /\ changes' \subseteq ChangeRows /\ RowsStay
      /\ \A d \in changes' : ChangeSound(d)'
      /\ \A c, d \in changes' : c.imp = d.imp /\ c.unit = d.unit /\ c.linked /\ d.linked => c = d
      /\ \A c, d \in changes' : c.unit = d.unit /\ c.at = d.at => c = d
  BY <1>3, <1>4, <1>5, RowsMarked
<1>7. /\ units' \in [Units -> UnitRows \cup {Null}]
      /\ \A v \in Units : units'[v] = IF v = u THEN Null ELSE units[v]
  BY <1>3 DEF ImportInv, Tables
<1>8. Tables'
  BY <1>3, <1>6, <1>7 DEF ImportInv, Tables
<1>9. Keys'
  <2>1. \A i \in Imports : corrections'[i].state # "NONE" => Stored(i)'
    BY <1>3 DEF ImportInv, Keys, Stored
  <2>2. \A v \in Units : units'[v] # Null /\ units'[v].source # Null => Stored(units[v].source)'
    BY <1>3, <1>7 DEF ImportInv, Keys, Stored
  <2>3. ASSUME NEW d \in changes' PROVE Stored(d.imp)' /\ (d.linked => units'[d.unit] # Null)
    <3>1. PICK c \in changes : d = m[c]
      BY <1>3
    <3>2. Stored(c.imp) /\ (c.linked => units[c.unit] # Null) /\ d.imp = c.imp /\ d.unit = c.unit
          /\ (d.linked <=> (c.linked /\ c.unit # u)) /\ c.unit \in Units
      BY <1>5, <3>1 DEF ImportInv, Tables, ChangeRows, Keys, Keeps, SameChange
    <3> QED BY <1>3, <1>7, <3>2 DEF Stored
  <2> QED BY <1>6, <2>1, <2>2, <2>3 DEF Keys
<1>10. RowsSound'
  <2>1. \A i \in Imports : BatchSound(i)' /\ DraftSound(i, corrections[i])'
    BY <1>3 DEF ImportInv, RowsSound, BatchSound, DraftSound
  <2>2. \A v \in Units : RowPreviewed(units[v])'
    BY <1>3, <1>7 DEF ImportInv, RowsSound, RowPreviewed
  <2> QED BY <1>6, <2>1, <2>2 DEF RowsSound
<1>11. InFlight'
  <2>1. \A v \in Workers : At(v, "store") => imports'[worker[v].imp].status = "ANALYZING"
    BY <1>3, RequestKnows DEF ImportInv, Knows, At
  <2>2. worker' = [worker EXCEPT ![w] = Idle] /\ Idle.at # "store"
    BY <1>3 DEF Leave, Go, Idle
  <2> QED BY <1>4, <1>6, <2>1, <2>2, IdleKnows, OneMoves DEF ImportInv
<1>12. ASSUME NEW v \in Units, v # u PROVE StackRests(v) /\ UnitRests(v) /\ units'[v] = units[v]
  <2>1. ASSUME NEW d \in Open(v)' PROVE \E c \in Open(v) : Alike(c, d)
    <3>1. PICK c \in changes : d = m[c]
      BY <1>3 DEF Open
    <3> QED BY <1>5, <3>1 DEF Open, Keeps, SameChange, Alike
  <2>2. ASSUME NEW c \in Open(v) PROVE \E d \in Open(v)' : Alike(c, d)
    <3>1. c \in changes /\ m[c] \in changes'
      BY <1>3 DEF Open
    <3> QED BY <1>5, <1>12, <3>1 DEF Open, Keeps, SameChange, Alike
  <2> QED BY <1>7, <1>12, <2>1, <2>2 DEF StackRests, UnitRests
<1>13. Open(u)' = {}
  <2> SUFFICES ASSUME NEW d \in Open(u)' PROVE FALSE
    OBVIOUS
  <2>1. PICK c \in changes : d = m[c]
    BY <1>3 DEF Open
  <2> QED BY <1>5, <2>1 DEF Open, Keeps, SameChange
<1>14. Stack'
  <2> SUFFICES ASSUME NEW v \in Units \ lost PROVE Top(v)' /\ \A c \in Open(v)' : Stacked(v, c)'
    BY <1>3 DEF Stack
  <2>1. CASE v = u
    BY <1>7, <1>13, <2>1 DEF Top, Claimed
  <2>2. CASE v # u
    BY <1>4, <1>12, <2>2, StackRestsOn
  <2> QED BY <2>1, <2>2
<1>15. Bottoms'
  <2> SUFFICES ASSUME NoneDeleted', NEW v \in Units \ (lost \cup touched \cup {u}) PROVE Bottom(v)'
    BY <1>3 DEF Bottoms
  <2> QED BY <1>4, <1>12, BottomRestsOn
<1> QED BY <1>8, <1>9, <1>10, <1>11, <1>14, <1>15 DEF ImportInv

\* A batch is deleted with its change rows and corrections; its units lose their source.
LEMMA DeleteInv ==
  ASSUME ImportInv, NEW w \in Workers, Delete(w), requests' \in 0..MaxRequests
  PROVE  ImportInv'
<1>1. PICK i \in Imports : i = worker[w].imp
  BY RequestBatch DEF Delete, At, Later, Places
<1>2. CASE ~Stored(i)
  BY <1>1, <1>2, LeavesInv DEF Delete
<1>3. CASE Stored(i)
  <2>1. PICK b : b = [NoImport EXCEPT !.status = "DELETED"]
    OBVIOUS
  <2>2. b \in BatchRows /\ b.status = "DELETED" /\ b.mapping = Null /\ b.previewVersion = 0
    BY <2>1 DEF NoImport, BatchRows, Statuses
  <2>3. /\ imports' = [imports EXCEPT ![i] = b] /\ changes' = changes \ ChangesOf(i)
        /\ corrections' = [corrections EXCEPT ![i] = NoCorrection]
        /\ Leave(w) /\ UNCHANGED <<previewed, lost, touched>>
    BY <1>1, <1>3, <2>1 DEF Delete, history
  <2>4. \A u \in Units : units'[u] = IF units[u] # Null /\ units[u].source = i
                                     THEN [units[u] EXCEPT !.source = Null] ELSE units[u]
    BY <1>1, <1>3 DEF Delete
  <2>5. /\ imports' \in [Imports -> BatchRows]
        /\ \A k \in Imports : imports'[k] = IF k = i THEN b ELSE imports[k]
    BY <2>2, <2>3 DEF ImportInv, Tables
  <2>6. Onward
    BY <1>3, <2>2, <2>3, <2>5 DEF Onward, Stored
  <2>7. \A k \in Imports : Stored(k)' <=> (Stored(k) /\ k # i)
    BY <2>2, <2>5 DEF Stored
  <2>8. RowsStay
    BY <2>3, <2>7 DEF RowsStay, SameChange, ChangesOf, ImportInv, Tables, ChangeRows
  <2>9. ASSUME NEW u \in Units
        PROVE  /\ units'[u] \in UnitRows \cup {Null} /\ UnitRests(u)
               /\ units'[u] # Null => /\ units'[u].wrote = units[u].wrote
                                      /\ units'[u].source # i
                                      /\ units'[u].source = Null \/ units'[u].source = units[u].source
               /\ First(u, units[u]) => First(u, units'[u])
    <3>1. PICK x \in UnitRows \cup {Null} : x = units[u]
      BY DEF ImportInv, Tables
    <3>2. CASE x # Null /\ x.source = i
      <4>1. PICK y : y = [x EXCEPT !.source = Null]
        OBVIOUS
      <4>2. y \in UnitRows /\ y.wrote = x.wrote /\ y.source = Null /\ y.value = x.value
        BY <3>2, <4>1 DEF UnitRows, Origins
      <4>3. y # Null /\ Null # i
        BY <4>2, ImportConstants
      <4>4. units'[u] = y
        BY <2>4, <3>1, <3>2, <4>1
      <4>5. ASSUME First(u, x) PROVE First(u, y)
        <5>1. [x EXCEPT !.media = FALSE] = Blank(Initial[u])
          BY <3>2, <4>5 DEF First
        <5>2. [x EXCEPT !.media = FALSE].source = Null
          BY <5>1 DEF Blank
        <5>3. [x EXCEPT !.media = FALSE].source = x.source
          BY <3>2 DEF UnitRows, Origins
        <5> QED BY <3>2, <4>3, <5>2, <5>3
      <4> QED BY <3>1, <3>2, <4>2, <4>3, <4>4, <4>5 DEF UnitRests
    <3>3. CASE ~(x # Null /\ x.source = i)
      BY <2>4, <3>1, <3>3 DEF UnitRests
    <3> QED BY <3>2, <3>3
  <2>10. Tables'
    <3>1. NoCorrection \in Drafts
      BY DEF NoCorrection, Drafts
    <3>2. units' = [u \in Units |-> units'[u]]
      BY <1>1, <1>3 DEF Delete
    <3>3. units' \in [Units -> UnitRows \cup {Null}]
      BY <2>9, <3>2
    <3>4. corrections' \in [Imports -> Drafts]
      BY <2>3, <3>1 DEF ImportInv, Tables
    <3> QED BY <2>3, <2>5, <3>3, <3>4 DEF ImportInv, Tables
  <2>11. Keys'
    <3>1. \A k \in Imports : corrections'[k].state # "NONE" => k # i /\ corrections'[k] = corrections[k]
      BY <2>3 DEF ImportInv, Tables, NoCorrection
    <3>2. \A k \in Imports : corrections'[k].state # "NONE" => Stored(k)'
      BY <2>7, <3>1 DEF ImportInv, Keys
    <3>3. ASSUME NEW u \in Units, units'[u] # Null, units'[u].source # Null
          PROVE  Stored(units[u].source)'
      <4>1. units'[u].source = units[u].source /\ units[u] # Null /\ units[u].source # i
        BY <2>9, <3>3 DEF UnitRests
      <4>2. units[u].source \in Imports /\ Stored(units[u].source)
        BY <3>3, <4>1 DEF ImportInv, Tables, UnitRows, Origins, Keys
      <4> QED BY <2>7, <4>1, <4>2 DEF Stored
    <3>4. ASSUME NEW c \in changes' PROVE Stored(c.imp)' /\ (c.linked => units'[c.unit] # Null)
      <4>1. c \in changes /\ c.imp # i /\ c.imp \in Imports /\ c.unit \in Units
        BY <2>3 DEF ChangesOf, ImportInv, Tables, ChangeRows
      <4> QED BY <2>7, <2>9, <4>1 DEF ImportInv, Keys, UnitRests
    <3>5. /\ \A c, d \in changes' : c.imp = d.imp /\ c.unit = d.unit /\ c.linked /\ d.linked => c = d
          /\ \A c, d \in changes' : c.unit = d.unit /\ c.at = d.at => c = d
      BY <2>3 DEF ImportInv, Keys
    <3> QED BY <3>2, <3>3, <3>4, <3>5 DEF Keys
  <2>12. RowsSound'
    <3>1. \A k \in Imports : BatchSound(k)'
      BY <2>2, <2>3, <2>5 DEF ImportInv, RowsSound, BatchSound
    <3>2. \A k \in Imports : DraftSound(k, corrections[k])'
      BY <2>3 DEF ImportInv, Tables, RowsSound, DraftSound, NoCorrection
    <3>3. \A u \in Units : RowPreviewed(units[u])'
      BY <2>3, <2>9 DEF ImportInv, RowsSound, RowPreviewed, UnitRests
    <3>4. \A c \in changes' : ChangeSound(c)'
      BY <2>3 DEF ImportInv, RowsSound, ChangeSound, RowPreviewed
    <3> QED BY <3>1, <3>2, <3>3, <3>4 DEF RowsSound
  <2>13. InFlight'
    BY <1>3, <2>3, <2>5, <2>6, <2>8, EndsInFlight DEF Stored
  <2>14. \A u \in Units : StackRests(u)
    BY <2>3, <2>7 DEF StackRests, Open, ChangesOf, Alike, ImportInv, Tables, ChangeRows
  <2>15. Stack'
    BY <2>3, <2>6, <2>9, <2>14, StackRestsOn DEF Stack
  <2>16. Bottoms'
    BY <2>3, <2>6, <2>9, <2>14, BottomRestsOn DEF Bottoms
  <2> QED BY <2>10, <2>11, <2>12, <2>13, <2>15, <2>16 DEF ImportInv
<1> QED BY <1>2, <1>3

\* A confirmed correction rewrites the units its batch changed.
LEMMA CorrectionApplyInv ==
  ASSUME ImportInv, NEW w \in Workers, CorrectionApply(w), requests' \in 0..MaxRequests
  PROVE  ImportInv'
<1>1. worker[w].at = "correct" /\ worker[w].at \in Later
  BY DEF CorrectionApply, At, Later, Places
<1>2. PICK i \in Imports : i = worker[w].imp
  BY <1>1, RequestBatch
<1>3. PICK d \in Drafts : d = worker[w].read /\ d.state # "NONE" /\ DraftSound(i, d)
  BY <1>1, <1>2, RequestKnows DEF ImportInv, Knows
<1>4. PICK us : us = {x.unit : x \in {y \in d.items : ~y.conflict \/ worker[w].arg = "APPLY_CORRECTED"}}
  OBVIOUS
<1>5. us \subseteq Rows(i, d.mapping) /\ RowsValid(i, d.mapping)
  BY <1>3, <1>4 DEF DraftSound
<1> DEFINE possible == /\ Stored(i)
                       /\ \A u \in us : \E c \in ChangesOf(i) : c.unit = u /\ c.linked
<1>6. CASE ~possible
  <2>1. UNCHANGED <<db, history>> /\ Leave(w)
    BY <1>2, <1>3, <1>4, <1>6 DEF CorrectionApply, db, history
  <2> QED BY <2>1, LeavesInv
<1>7. CASE possible
  <2>1. PICK b : b = [imports[i] EXCEPT !.mapping = d.mapping, !.version = imports[i].version + 1]
    OBVIOUS
  <2>2. PICK e : e = [corrections[i] EXCEPT !.state = "CONFIRMED"]
    OBVIOUS
  <2>3. /\ imports' = [imports EXCEPT ![i] = b] /\ corrections' = [corrections EXCEPT ![i] = e]
        /\ touched' = touched \cup us /\ Leave(w) /\ UNCHANGED <<changes, previewed, lost>>
        /\ units' = [u \in Units |-> IF u \in us
                                     THEN [units[u] EXCEPT !.value = Cell[i][d.mapping][u]] ELSE units[u]]
    BY <1>2, <1>3, <1>4, <1>7, <2>1, <2>2 DEF CorrectionApply
  <2>4. Sane(b, previewed[i])
    <3>1. imports[i] \in BatchRows /\ Sane(imports[i], previewed[i])
      BY <1>7, RowSane DEF Sane
    <3>2. PICK n : n = imports[i].version + 1
      OBVIOUS
    <3>3. n \in Nat /\ n >= 1
      BY <3>1, <3>2 DEF BatchRows
    <3>4. b = [imports[i] EXCEPT !.mapping = d.mapping, !.version = n] /\ d.mapping \in Mappings
      BY <1>5, <2>1, <3>2 DEF RowsValid
    <3>5. /\ b \in BatchRows /\ b.version = n /\ b.status = imports[i].status
          /\ b.previewVersion = imports[i].previewVersion
      BY <3>1, <3>3, <3>4 DEF BatchRows
    <3> QED BY <3>1, <3>3, <3>5 DEF Sane
  <2>5. /\ imports' \in [Imports -> BatchRows] /\ Onward
        /\ \A k \in Imports : BatchSound(k)' /\ Stored(k)' = Stored(k)
    <3>1. \A k \in Imports : corrections'[k].state # "NONE" \/ corrections'[k] = corrections[k]
      BY <2>2, <2>3 DEF ImportInv, Tables, Drafts
    <3> QED BY <1>7, <2>3, <2>4, <3>1, BatchSaved
  <2>6. /\ corrections' \in [Imports -> Drafts]
        /\ \A k \in Imports : DraftSound(k, corrections[k])' /\ (corrections'[k].state # "NONE" => Stored(k)')
    <3>1. corrections[i] \in Drafts /\ corrections[i].state # "NONE" /\ DraftSound(i, corrections[i])
      BY <1>1, <1>2, <1>7, RequestKnows DEF ImportInv, Tables, RowsSound, Knows
    <3>2. /\ e \in Drafts /\ e.state # "NONE" /\ e.mapping = corrections[i].mapping
          /\ e.items = corrections[i].items
      BY <2>2, <3>1 DEF Drafts
    <3>3. \A k \in Imports : corrections'[k] = IF k = i THEN e ELSE corrections[k]
      BY <2>3 DEF ImportInv, Tables
    <3>4. corrections' \in [Imports -> Drafts]
      BY <2>3, <3>2 DEF ImportInv, Tables
    <3>5. DraftSound(i, e)
      BY <3>1, <3>2 DEF DraftSound
    <3>6. ASSUME NEW k \in Imports
          PROVE  DraftSound(k, corrections[k])' /\ (corrections'[k].state # "NONE" => Stored(k)')
      <4>1. CASE k = i
        BY <1>7, <2>5, <3>3, <3>5, <4>1 DEF DraftSound
      <4>2. CASE k # i
        BY <2>5, <3>3, <4>2 DEF DraftSound, ImportInv, RowsSound, Keys
      <4> QED BY <4>1, <4>2
    <3> QED BY <3>4, <3>6
  <2>7. ASSUME NEW u \in Units
        PROVE  /\ units'[u] \in UnitRows \cup {Null} /\ UnitRests(u)
               /\ units'[u] # Null => units'[u].source = units[u].source
               /\ u \notin us => units'[u] = units[u]
    <3>1. CASE u \in us
      <4>1. units[u] \in UnitRows
        <5>1. PICK c \in ChangesOf(i) : c.unit = u /\ c.linked
          BY <1>7, <3>1
        <5> QED BY <5>1 DEF ChangesOf, ImportInv, Tables, Keys
      <4>2. PICK v \in Values : v = Cell[i][d.mapping][u]
        BY <1>5, <3>1, ImportConstants DEF Rows, RowsValid
      <4>3. PICK y : y = [units[u] EXCEPT !.value = v]
        OBVIOUS
      <4>4. y \in UnitRows /\ y.wrote = units[u].wrote /\ y.source = units[u].source
        BY <4>1, <4>3 DEF UnitRows, Origins
      <4>5. units'[u] = y
        BY <2>3, <3>1, <4>2, <4>3
      <4> QED BY <3>1, <4>1, <4>4, <4>5, ImportConstants DEF UnitRests
    <3>2. CASE u \notin us
      BY <2>3, <3>2 DEF UnitRests, ImportInv, Tables
    <3> QED BY <3>1, <3>2
  <2>8. Tables'
    <3>1. units' \in [Units -> UnitRows \cup {Null}]
      BY <2>3, <2>7
    <3> QED BY <2>3, <2>5, <2>6, <3>1 DEF ImportInv, Tables
  <2>9. Keys'
    <3>1. ASSUME NEW u \in Units, units'[u] # Null, units'[u].source # Null
          PROVE  Stored(units[u].source)'
      <4>1. units'[u].source = units[u].source /\ units[u] # Null
        BY <2>7, <3>1 DEF UnitRests
      <4>2. units[u].source \in Imports /\ Stored(units[u].source)
        BY <3>1, <4>1 DEF ImportInv, Tables, UnitRows, Origins, Keys
      <4> QED BY <2>5, <4>1, <4>2 DEF Stored
    <3>2. ASSUME NEW c \in changes PROVE Stored(c.imp)' /\ (c.linked => units'[c.unit] # Null)
      <4>1. c.imp \in Imports /\ c.unit \in Units
        BY DEF ImportInv, Tables, ChangeRows
      <4> QED BY <2>5, <2>7, <4>1 DEF ImportInv, Keys, UnitRests
    <3>3. /\ \A c, e2 \in changes : c.imp = e2.imp /\ c.unit = e2.unit /\ c.linked /\ e2.linked => c = e2
          /\ \A c, e2 \in changes : c.unit = e2.unit /\ c.at = e2.at => c = e2
      BY DEF ImportInv, Keys
    <3> QED BY <2>3, <2>6, <3>1, <3>2, <3>3 DEF Keys
  <2>10. RowsSound'
    <3>1. \A u \in Units : RowPreviewed(units[u])'
      BY <2>3, <2>7 DEF ImportInv, RowsSound, RowPreviewed, UnitRests
    <3>2. \A c \in changes : ChangeSound(c)'
      BY <2>3 DEF ImportInv, RowsSound, ChangeSound, RowPreviewed
    <3> QED BY <2>3, <2>5, <2>6, <3>1, <3>2 DEF RowsSound
  <2>11. RowsStay
    BY <2>3 DEF RowsStay, SameChange
  <2>12. InFlight'
    <3>1. \A k \in Imports \ {i} : imports'[k] = imports[k]
      BY <2>3 DEF ImportInv, Tables
    <3> QED BY <1>7, <2>3, <2>5, <2>11, <3>1, EndsInFlight DEF Stored
  <2>13. \A u \in Units : StackRests(u)
    BY <2>3 DEF StackRests, Open, Alike
  <2>14. Stack'
    BY <2>3, <2>5, <2>7, <2>13, StackRestsOn DEF Stack
  <2>15. Bottoms'
    <3> SUFFICES ASSUME NoneDeleted', NEW u \in Units \ (lost \cup touched \cup us) PROVE Bottom(u)'
      BY <2>3 DEF Bottoms
    <3> QED BY <2>5, <2>7, <2>13, BottomRestsOn
  <2> QED BY <2>8, <2>9, <2>10, <2>12, <2>14, <2>15 DEF ImportInv
<1> QED BY <1>6, <1>7

\* What a confirmation writes to unit u, and the change row it leaves.
LEMMA WrittenRow ==
  ASSUME ImportInv, NEW w \in Workers, worker[w].at = "commit", NEW u \in Changed(worker[w]),
         Stored(worker[w].imp), RowsValid(worker[w].imp, worker[w].map)
  PROVE  LET x == Written(worker[w], u) IN
         /\ x \in UnitRows /\ x # Null /\ x.value # Manual
         /\ x.wrote # Null /\ x.wrote.imp = worker[w].imp /\ x.wrote.version = worker[w].version
         /\ x.source # Null => Stored(x.source)
<1> DEFINE r == worker[w]
<1>1. /\ r.imp \in Imports /\ r.version \in previewed[r.imp]
  BY RequestBatch, RequestKnows DEF ImportInv, Knows, Later, Places
<1>2. r.version \in Nat
  BY <1>1 DEF ImportInv, Tables
<1>3. u \in Units /\ u \in Rows(r.imp, r.map)
  BY DEF Changed, Rows
<1>4. r.map \in Mappings /\ Cell[r.imp][r.map][u] \notin {Absent, Invalid}
  BY <1>3 DEF Rows, RowsValid
<1>5. Cell[r.imp][r.map][u] \in Values /\ Cell[r.imp][r.map][u] # Manual
  BY <1>1, <1>3, <1>4, ImportConstants
<1>6. PICK value \in Values : value = Cell[r.imp][r.map][u]
  BY <1>5
<1>7. PICK mark \in Origins : mark = [imp |-> r.imp, version |-> r.version]
  BY <1>1, <1>2 DEF Origins
<1>8. units[u] \in UnitRows \cup {Null} /\ (units[u] # Null /\ units[u].source # Null => Stored(units[u].source))
  BY <1>3 DEF ImportInv, Tables, Keys
<1>9. PICK source \in Imports \cup {Null} : source = IF units[u] = Null THEN r.imp ELSE units[u].source
  BY <1>1, <1>8 DEF UnitRows
<1>10. PICK media \in BOOLEAN : media = IF units[u] = Null THEN FALSE ELSE units[u].media
  BY <1>8 DEF UnitRows
<1>11. PICK x : x = [value |-> value, source |-> source, wrote |-> mark, media |-> media]
  OBVIOUS
<1>12. x \in UnitRows /\ x.value = value /\ x.source = source /\ x.wrote = mark
  BY <1>11 DEF UnitRows
<1>13. Written(r, u) = x
  BY <1>6, <1>7, <1>9, <1>10, <1>11 DEF Written
<1>14. x # Null /\ mark # Null
  BY <1>12, ImportConstants
<1>15. source # Null => Stored(source)
  BY <1>8, <1>9
<1> QED BY <1>5, <1>6, <1>7, <1>12, <1>13, <1>14, <1>15

\* A confirmation writes the units whose content differs, each with a change row on top
\* of the unit's stack.
LEMMA ConfirmCommitInv ==
  ASSUME ImportInv, NEW w \in Workers, ConfirmCommit(w), requests' \in 0..MaxRequests
  PROVE  ImportInv'
<1>1. worker[w].at = "commit" /\ worker[w].at \in Later
  BY DEF ConfirmCommit, At, Later, Places
<1>2. PICK i \in Imports : i = worker[w].imp
  BY <1>1, RequestBatch
<1>3. PICK us : us = Changed(worker[w])
  OBVIOUS
<1>4. PICK read \in [Units -> UnitRows \cup {Null}] :
        read = worker[w].read /\ \A u \in Units : RowPreviewed(read[u])
  BY <1>1, RequestKnows DEF ImportInv, Knows, Snapshot
<1>5. /\ Stored(i) /\ RowsValid(worker[w].imp, worker[w].map) /\ us \subseteq Units
      /\ \A u \in us : ~RowConflict(worker[w], u)
  BY <1>2, <1>3 DEF ConfirmCommit, Changed, Rows
<1>6. PICK now \in 1..MaxRequests :
        /\ Now(now)
        /\ changes' = changes \cup
             {[imp |-> i, unit |-> u, before |-> read[u], after |-> Written(worker[w], u),
               at |-> now, linked |-> TRUE, reverted |-> FALSE, conflict |-> FALSE] : u \in us}
  BY <1>2, <1>3, <1>4 DEF ConfirmCommit
<1>7. PICK W : W = [u \in us |-> Written(worker[w], u)]
  OBVIOUS
<1>8. PICK N : N = [u \in us |-> [imp |-> i, unit |-> u, before |-> read[u], after |-> W[u], at |-> now,
                                  linked |-> TRUE, reverted |-> FALSE, conflict |-> FALSE]]
  OBVIOUS
<1>9. PICK b : b = [imports[i] EXCEPT !.status = "COMPLETED"]
  OBVIOUS
<1>10. /\ changes' = changes \cup {N[u] : u \in us}
       /\ units' = [u \in Units |-> IF u \in us THEN W[u] ELSE units[u]]
       /\ imports' = [imports EXCEPT ![i] = b]
       /\ lost' = lost \cup {u \in us : units[u] # read[u]}
       /\ Leave(w) /\ UNCHANGED <<corrections, previewed, touched>>
  <2>1. changes' = changes \cup {N[u] : u \in us}
    BY <1>6, <1>7, <1>8
  <2> QED BY <1>2, <1>3, <1>4, <1>7, <1>9, <2>1 DEF ConfirmCommit, Becomes
<1>11. ASSUME NEW u \in us
       PROVE  /\ W[u] \in UnitRows /\ W[u] # Null /\ W[u].value # Manual
              /\ W[u].wrote # Null /\ W[u].wrote.imp = i /\ W[u].wrote.version \in previewed[i]
              /\ W[u].source # Null => Stored(W[u].source)
  <2>1. worker[w].version \in previewed[i]
    BY <1>1, <1>2, RequestKnows DEF ImportInv, Knows
  <2> QED BY <1>1, <1>2, <1>3, <1>5, <1>7, <2>1, WrittenRow
<1>12. ASSUME NEW u \in us
       PROVE  /\ N[u] \in ChangeRows /\ N[u].imp = i /\ N[u].unit = u /\ N[u].before = read[u]
              /\ N[u].after = W[u] /\ N[u].at = now /\ N[u].linked /\ ~N[u].reverted
  <2>1. u \in Units /\ read[u] \in UnitRows \cup {Null} /\ W[u] \in UnitRows
    BY <1>4, <1>5, <1>11
  <2>2. now \in Nat
    BY <1>6
  <2> QED BY <1>8, <2>1, <2>2 DEF ChangeRows
<1> HIDE <1>8
<1>13. \A c \in changes : c.at < now /\ c.at \in Nat /\ c.imp \in Imports /\ c.unit \in Units
  BY <1>6 DEF Now, ImportInv, Tables, ChangeRows
<1>14. \A u \in us : \A c \in changes : c.imp = i /\ c.unit = u => ~c.linked
  BY <1>2, <1>5 DEF RowConflict
<1>15. Sane(b, previewed[i])
  BY <1>5, <1>9, StatusWritten DEF Settled, Finished
<1>16. /\ imports' \in [Imports -> BatchRows] /\ Onward
       /\ \A k \in Imports : BatchSound(k)' /\ Stored(k)' = Stored(k)
  BY <1>5, <1>10, <1>15, BatchSaved
<1>17. /\ units' \in [Units -> UnitRows \cup {Null}]
       /\ \A u \in Units : units'[u] = IF u \in us THEN W[u] ELSE units[u]
  BY <1>10, <1>11 DEF ImportInv, Tables
<1>18. changes' \subseteq ChangeRows /\ changes \subseteq changes'
  BY <1>10, <1>12 DEF ImportInv, Tables
<1>19. Tables'
  BY <1>10, <1>16, <1>17, <1>18 DEF ImportInv, Tables
<1>20. RowsStay
  BY <1>18 DEF RowsStay, SameChange
<1>21. Keys'
  <2>1. \A k \in Imports : corrections'[k].state # "NONE" => Stored(k)'
    BY <1>10, <1>16 DEF ImportInv, Keys
  <2>2. ASSUME NEW u \in Units, units'[u] # Null, units'[u].source # Null
        PROVE  Stored(units[u].source)'
    <3>1. units'[u].source \in Imports /\ Stored(units'[u].source)
      BY <1>11, <1>17, <2>2 DEF ImportInv, Tables, UnitRows, Keys
    <3> QED BY <1>16, <3>1 DEF Stored
  <2>3. ASSUME NEW c \in changes' PROVE Stored(c.imp)' /\ (c.linked => units'[c.unit] # Null)
    <3>1. CASE c \in changes
      BY <1>11, <1>13, <1>16, <1>17, <3>1 DEF ImportInv, Keys
    <3>2. CASE c \notin changes
      <4>1. PICK u \in us : c = N[u]
        BY <1>10, <3>2
      <4> QED BY <1>5, <1>11, <1>12, <1>16, <1>17, <4>1
    <3> QED BY <3>1, <3>2
  <2>4. ASSUME NEW c \in changes', NEW d \in changes', c.imp = d.imp, c.unit = d.unit, c.linked, d.linked
        PROVE  c = d
    <3>1. CASE c \in changes /\ d \in changes
      BY <2>4, <3>1 DEF ImportInv, Keys
    <3>2. CASE c \notin changes
      <4>1. PICK u \in us : c = N[u]
        BY <1>10, <3>2
      <4>2. d \notin changes
        BY <1>12, <1>14, <2>4, <4>1
      <4>3. PICK v \in us : d = N[v]
        BY <1>10, <4>2
      <4> QED BY <1>12, <2>4, <4>1, <4>3
    <3>3. CASE d \notin changes /\ c \in changes
      <4>1. PICK u \in us : d = N[u]
        BY <1>10, <3>3
      <4> QED BY <1>12, <1>14, <2>4, <3>3, <4>1
    <3> QED BY <3>1, <3>2, <3>3
  <2>5. ASSUME NEW c \in changes', NEW d \in changes', c.unit = d.unit, c.at = d.at
        PROVE  c = d
    <3>1. CASE c \in changes /\ d \in changes
      BY <2>5, <3>1 DEF ImportInv, Keys
    <3>2. CASE c \notin changes
      <4>1. PICK u \in us : c = N[u]
        BY <1>10, <3>2
      <4>2. d \notin changes
        BY <1>12, <1>13, <2>5, <4>1
      <4>3. PICK v \in us : d = N[v]
        BY <1>10, <4>2
      <4> QED BY <1>12, <2>5, <4>1, <4>3
    <3>3. CASE d \notin changes /\ c \in changes
      <4>1. PICK u \in us : d = N[u]
        BY <1>10, <3>3
      <4> QED BY <1>12, <1>13, <2>5, <3>3, <4>1
    <3> QED BY <3>1, <3>2, <3>3
  <2> QED BY <2>1, <2>2, <2>3, <2>4, <2>5 DEF Keys
<1>22. RowsSound'
  <2>1. \A k \in Imports : DraftSound(k, corrections[k])'
    BY <1>10 DEF ImportInv, RowsSound, DraftSound
  <2>2. ASSUME NEW u \in Units PROVE RowPreviewed(units[u])'
    BY <1>10, <1>11, <1>17 DEF ImportInv, RowsSound, RowPreviewed
  <2>3. ASSUME NEW c \in changes' PROVE ChangeSound(c)'
    <3>1. CASE c \in changes
      BY <1>10, <3>1 DEF ImportInv, RowsSound, ChangeSound, RowPreviewed
    <3>2. CASE c \notin changes
      <4>1. PICK u \in us : c = N[u]
        BY <1>10, <3>2
      <4> QED BY <1>4, <1>5, <1>10, <1>11, <1>12, <4>1 DEF ChangeSound, RowPreviewed
    <3> QED BY <3>1, <3>2
  <2> QED BY <1>16, <2>1, <2>2, <2>3 DEF RowsSound
<1>23. InFlight'
  <2>1. \A k \in Imports \ {i} : imports'[k] = imports[k]
    BY <1>10 DEF ImportInv, Tables
  <2> QED BY <1>5, <1>10, <1>16, <1>20, <2>1, EndsInFlight DEF Stored
<1>24. ASSUME NEW u \in Units \ us PROVE StackRests(u) /\ UnitRests(u) /\ units'[u] = units[u]
  <2>1. \A d \in Open(u)' : d \in Open(u)
    BY <1>10, <1>12 DEF Open
  <2>2. \A c \in Open(u) : c \in Open(u)'
    BY <1>18 DEF Open
  <2> QED BY <1>17, <2>1, <2>2 DEF StackRests, UnitRests, Alike
<1>25. ASSUME NEW u \in us
       PROVE  /\ N[u] \in Open(u)' /\ Open(u) \subseteq Open(u)'
              /\ \A d \in Open(u)' : d = N[u] \/ (d \in Open(u) /\ d.at < now)
  <2>1. N[u] \in Open(u)'
    BY <1>10, <1>12 DEF Open
  <2>2. Open(u) \subseteq Open(u)'
    BY <1>18 DEF Open
  <2>3. ASSUME NEW d \in Open(u)' PROVE d = N[u] \/ (d \in Open(u) /\ d.at < now)
    <3>1. CASE d \in changes
      BY <1>13, <3>1 DEF Open
    <3>2. CASE d \notin changes
      <4>1. PICK v \in us : d = N[v]
        BY <1>10, <3>2 DEF Open
      <4>2. v = u
        BY <1>12, <4>1 DEF Open
      <4> QED BY <4>1, <4>2
    <3> QED BY <3>1, <3>2
  <2> QED BY <2>1, <2>2, <2>3
<1>26. \A x \in UnitRows \cup {Null} : Claimed(x)' = Claimed(x)
  BY <1>16 DEF Claimed, UnitRows, Origins, Stored
<1>27. ASSUME NEW u \in us, u \notin lost'
       PROVE  Top(u)' /\ \A d \in Open(u)' : Stacked(u, d)'
  <2>1. /\ u \in Units /\ u \notin lost /\ units[u] = read[u]
        /\ units[u] \in UnitRows \cup {Null}
    BY <1>5, <1>10, <1>27 DEF ImportInv, Tables
  <2>2. Top(u) /\ \A c \in Open(u) : Stacked(u, c) /\ c \in changes /\ units[u] # Null
    BY <2>1 DEF ImportInv, Stack, Open, Keys
  <2>3. Top(u)'
    <3>1. units'[u] = W[u] /\ W[u].wrote # Null /\ WroteIt(N[u], W[u])
      BY <1>11, <1>12, <1>17, <2>1 DEF WroteIt
    <3>2. \A c \in Open(u)' : c.at <= N[u].at
      BY <1>12, <1>13, <1>25 DEF Open
    <3> QED BY <1>25, <3>1, <3>2 DEF Top, WroteIt
  <2>4. Stacked(u, N[u])'
    <3>1. ASSUME Claimed(N[u].before)'
          PROVE  \E d \in Open(u)' : WroteIt(d, N[u].before) /\ d.at < N[u].at
      <4>1. Claimed(units[u])
        BY <1>12, <1>26, <2>1, <3>1
      <4>2. PICK d \in Open(u) : WroteIt(d, units[u])
        BY <2>2, <4>1 DEF Top
      <4> QED BY <1>12, <1>13, <1>25, <2>1, <2>2, <4>2
    <3>2. ASSUME NEW e \in Open(u)', e.at < N[u].at
          PROVE  /\ N[u].before # Null /\ N[u].before.wrote # Null
                 /\ Claimed(N[u].before)' =>
                      \E d \in Open(u)' : WroteIt(d, N[u].before) /\ d.at < N[u].at /\ e.at <= d.at
      <4>1. e \in Open(u)
        BY <1>6, <1>12, <1>25, <3>2
      <4>2. units[u] # Null /\ units[u].wrote # Null
        BY <2>2, <4>1 DEF Top
      <4>3. ASSUME Claimed(N[u].before)'
            PROVE  \E d \in Open(u)' : WroteIt(d, N[u].before) /\ d.at < N[u].at /\ e.at <= d.at
        <5>1. Claimed(units[u])
          BY <1>12, <1>26, <2>1, <4>3
        <5>2. PICK d \in Open(u) : WroteIt(d, units[u]) /\ e.at <= d.at
          BY <2>2, <4>1, <5>1 DEF Top
        <5> QED BY <1>12, <1>13, <1>25, <2>1, <2>2, <5>2
      <4> QED BY <1>12, <2>1, <4>2, <4>3
    <3> QED BY <3>1, <3>2 DEF Stacked
  <2>5. ASSUME NEW c \in Open(u) PROVE Stacked(u, c)'
    <3>1. Stacked(u, c) /\ c \in changes /\ c.before \in UnitRows \cup {Null}
      BY <2>2 DEF ImportInv, Tables, ChangeRows
    <3>2. Claimed(c.before)' = Claimed(c.before)
      BY <1>26, <3>1
    <3>3. \A e \in Open(u)' : e.at < c.at => e \in Open(u)
      BY <1>6, <1>12, <1>13, <1>25, <3>1
    <3> QED BY <1>25, <3>1, <3>2, <3>3 DEF Stacked, WroteIt
  <2> QED BY <1>25, <2>3, <2>4, <2>5
<1>28. Stack'
  <2> SUFFICES ASSUME NEW u \in Units \ lost' PROVE Top(u)' /\ \A d \in Open(u)' : Stacked(u, d)'
    BY DEF Stack
  <2>1. CASE u \in us
    BY <1>27, <2>1
  <2>2. CASE u \notin us
    BY <1>10, <1>16, <1>24, <2>2, StackRestsOn
  <2> QED BY <2>1, <2>2
<1>29. Bottoms'
  <2> SUFFICES ASSUME NoneDeleted', NEW u \in Units \ (lost' \cup touched) PROVE Bottom(u)'
    BY <1>10 DEF Bottoms
  <2>1. CASE u \in us
    <3>1. u \notin lost /\ units[u] = read[u] /\ Bottom(u)
      BY <1>10, <1>16, <2>1 DEF ImportInv, Bottoms, NoneDeleted, Onward
    <3>2. Open(u)' # {}
      BY <1>25, <2>1
    <3>3. ASSUME NEW d \in Open(u)', \A e \in Open(u)' : d.at <= e.at PROVE First(u, d.before)
      <4>1. CASE d = N[u]
        <5>1. Open(u) = {}
          BY <1>6, <1>12, <1>13, <1>25, <2>1, <3>3, <4>1 DEF Open
        <5> QED BY <1>12, <2>1, <3>1, <4>1, <5>1 DEF Bottom
      <4>2. CASE d \in Open(u)
        BY <1>25, <2>1, <3>1, <3>3, <4>2 DEF Bottom
      <4> QED BY <1>25, <2>1, <4>1, <4>2
    <3> QED BY <3>2, <3>3 DEF Bottom, First
  <2>2. CASE u \notin us
    BY <1>10, <1>16, <1>24, <2>2, BottomRestsOn
  <2> QED BY <2>1, <2>2
<1> QED BY <1>19, <1>21, <1>22, <1>23, <1>28, <1>29 DEF ImportInv

\* Rollback request w may write: what it saw is still there.
Undo(w) == worker[w].read.undo
RowsGone(w) == UnitsOf({c \in Undo(w) : Created(c)})
Possible(w) ==
  /\ Stored(worker[w].imp) /\ \A c \in worker[w].read.keep : Among(c, changes)
  /\ \A c \in Undo(w) : Among(c, {d \in changes : d.linked})
  /\ \A c \in Undo(w) : ~Created(c) /\ c.before.source # Null => Stored(c.before.source)

\* d is the one change row of unit u that the rollback marks.
UndoRow(w, u, d) ==
  /\ d \in changes /\ d.imp = worker[w].imp /\ d.unit = u /\ d.linked
  /\ \A x \in changes : x.unit = u => (Among(x, Undo(w)) <=> x = d)
  /\ u \in RowsGone(w) <=> d.before = Null
  /\ SameContent(worker[w].read.seen[u], d.after)
  /\ \A c \in Undo(w) : c.unit = u => c.before = d.before /\ c.after = d.after

LEMMA UndoRowIs ==
  ASSUME ImportInv, NEW w \in Workers, worker[w].at = "undo", Possible(w), NEW u \in UnitsOf(Undo(w))
  PROVE  u \in Units /\ \E d \in changes : UndoRow(w, u, d)
<1>1. UndoRead(worker[w]) /\ \A c \in Undo(w) : UndoSound(worker[w], c)
  BY RequestKnows DEF ImportInv, Knows, UndoRead, Undo
<1>2. PICK c \in Undo(w) : c.unit = u
  BY DEF UnitsOf
<1>3. PICK d \in changes : SameChange(c, d) /\ d.linked
  BY <1>2 DEF Possible, Among
<1>4. ASSUME NEW e \in Undo(w), e.unit = u
      PROVE  SameChange(e, d) /\ e.before = d.before /\ e.after = d.after
  <2>1. PICK x \in changes : SameChange(e, x) /\ x.linked
    BY DEF Possible, Among
  <2>2. e.imp = worker[w].imp /\ c.imp = worker[w].imp
    BY <1>1, <1>2 DEF UndoSound
  <2>3. x = d
    BY <1>2, <1>3, <1>4, <2>1, <2>2 DEF SameChange, ImportInv, Keys
  <2>4. PICK y \in changes : SameChange(e, y) /\ y.before = e.before /\ y.after = e.after
    BY <1>1 DEF UndoSound, Possible
  <2>5. y = x
    BY <2>1, <2>4 DEF SameChange, ImportInv, Keys
  <2> QED BY <2>1, <2>3, <2>4, <2>5
<1>5. ASSUME NEW x \in changes, x.unit = u PROVE Among(x, Undo(w)) <=> x = d
  <2>1. ASSUME Among(x, Undo(w)) PROVE x = d
    <3>1. PICK e \in Undo(w) : SameChange(x, e)
      BY <2>1 DEF Among
    <3>2. SameChange(e, d)
      BY <1>4, <1>5, <3>1 DEF SameChange
    <3> QED BY <3>1, <3>2 DEF SameChange, ImportInv, Keys
  <2>2. ASSUME x = d PROVE Among(x, Undo(w))
    BY <1>2, <1>3, <2>2 DEF Among, SameChange
  <2> QED BY <2>1, <2>2
<1>6. u \in RowsGone(w) <=> d.before = Null
  BY <1>2, <1>4 DEF RowsGone, UnitsOf, Created
<1>7. SameContent(worker[w].read.seen[u], d.after)
  BY <1>1, <1>2, <1>4 DEF UndoSound
<1>8. d.imp = worker[w].imp /\ d.unit = u
  BY <1>1, <1>2, <1>3 DEF UndoSound, SameChange
<1>9. u \in Units
  BY <1>1, <1>2 DEF UndoSound, ChangeRows
<1> QED BY <1>3, <1>4, <1>5, <1>6, <1>7, <1>8, <1>9 DEF UndoRow

\* A unit that still is what the rollback saw holds what that row wrote: it is the
\* highest open row of the unit.
LEMMA UndoneOnTop ==
  ASSUME ImportInv, NEW w \in Workers, Possible(w), NEW u \in Units \ lost, NEW d, UndoRow(w, u, d),
         units[u] = worker[w].read.seen[u]
  PROVE  d \in Open(u) /\ \A c \in Open(u) : c = d \/ c.at < d.at
<1>1. d \in changes /\ d.imp = worker[w].imp /\ d.linked /\ SameContent(units[u], d.after)
  BY DEF UndoRow
<1>2. ChangeSound(d) /\ d \in ChangeRows
  BY <1>1 DEF ImportInv, RowsSound, Tables
<1>3. units[u] # Null /\ units[u].wrote = d.after.wrote
  <2>1. PICK x \in UnitRows : x = units[u] /\ x # Null
    BY <1>1 DEF SameContent, ImportInv, Tables
  <2>2. PICK media : media = d.after.media
    OBVIOUS
  <2>3. [x EXCEPT !.media = media] = d.after
    BY <1>1, <2>1, <2>2 DEF SameContent
  <2>4. [x EXCEPT !.media = media].wrote = x.wrote
    BY <2>1 DEF UnitRows
  <2> QED BY <2>1, <2>3, <2>4
<1>4. Claimed(units[u]) /\ units[u].wrote.imp = d.imp
  BY <1>1, <1>2, <1>3 DEF Claimed, ChangeSound, Possible
<1>5. Top(u)
  BY DEF ImportInv, Stack
<1>6. ASSUME NEW e \in Open(u), WroteIt(e, units[u]) PROVE e = d
  BY <1>1, <1>4, <1>6 DEF Open, WroteIt, UndoRow, ImportInv, Keys
<1>7. d \in Open(u)
  BY <1>4, <1>5, <1>6 DEF Top
<1>8. ASSUME NEW c \in Open(u) PROVE c = d \/ c.at < d.at
  <2>1. c.at <= d.at
    BY <1>4, <1>5, <1>6 DEF Top
  <2>2. c.at = d.at => c = d
    BY <1>1 DEF Open, UndoRow, ImportInv, Keys
  <2>3. c.at \in Nat /\ d.at \in Nat
    BY <1>2 DEF Open, ImportInv, Tables, ChangeRows
  <2> QED BY <2>1, <2>2, <2>3
<1> QED BY <1>7, <1>8

\* Every change row c becomes m[c] in the rollback.
MarkedAs(w, m) ==
  /\ changes' = {m[c] : c \in changes}
  /\ \A c \in changes :
       /\ m[c] \in ChangeRows /\ Keeps(c, m[c])
       /\ m[c].linked <=> (c.linked /\ c.unit \notin RowsGone(w))
       /\ m[c].reverted <=> (c.reverted \/ Among(c, Undo(w)))

\* The rows of a unit the rollback does not mark.
LEMMA UnmarkedRests ==
  ASSUME NEW w, NEW m, MarkedAs(w, m), NEW u, u \notin UnitsOf(Undo(w))
  PROVE  StackRests(u)
<1>1. u \notin RowsGone(w) /\ \A c \in changes : c.unit = u => ~Among(c, Undo(w))
  BY DEF RowsGone, UnitsOf, Among, SameChange
<1>2. ASSUME NEW d \in Open(u)' PROVE \E c \in Open(u) : Alike(c, d)
  <2>1. PICK c \in changes : d = m[c]
    BY DEF MarkedAs, Open
  <2>2. c.unit = u /\ c.linked /\ ~c.reverted /\ Alike(c, d)
    BY <2>1 DEF MarkedAs, Open, Keeps, SameChange, Alike
  <2> QED BY <2>2 DEF Open
<1>3. ASSUME NEW c \in Open(u) PROVE \E d \in Open(u)' : Alike(c, d)
  <2>1. c \in changes /\ c.unit = u /\ m[c] \in changes'
    BY DEF MarkedAs, Open
  <2>2. m[c].unit = u /\ m[c].linked /\ ~m[c].reverted /\ Alike(c, m[c])
    BY <1>1, <2>1 DEF MarkedAs, Open, Keeps, SameChange, Alike
  <2> QED BY <2>1, <2>2 DEF Open
<1> QED BY <1>2, <1>3 DEF StackRests

\* The rows of a unit it marks: the stack loses row d, or all of it when the unit goes.
LEMMA MarkedOpen ==
  ASSUME NEW w, NEW m, MarkedAs(w, m), NEW u, NEW d, UndoRow(w, u, d)
  PROVE  /\ d.before = Null => Open(u)' = {}
         /\ \A e \in Open(u)' : \E c \in Open(u) \ {d} : Alike(c, e)
         /\ d.before # Null => \A c \in Open(u) \ {d} : \E e \in Open(u)' : Alike(c, e)
<1>1. ASSUME NEW e \in Open(u)' PROVE d.before # Null /\ \E c \in Open(u) \ {d} : Alike(c, e)
  <2>1. PICK c \in changes : e = m[c]
    BY DEF MarkedAs, Open
  <2>2. c.unit = u /\ c.linked /\ ~c.reverted /\ Alike(c, e) /\ u \notin RowsGone(w)
        /\ ~Among(c, Undo(w))
    BY <2>1 DEF MarkedAs, Open, Keeps, SameChange, Alike
  <2>3. c # d /\ d.before # Null
    BY <2>2 DEF UndoRow
  <2> QED BY <2>2, <2>3 DEF Open
<1>2. ASSUME d.before # Null, NEW c \in Open(u) \ {d} PROVE \E e \in Open(u)' : Alike(c, e)
  <2>1. c \in changes /\ c.unit = u /\ m[c] \in changes' /\ c.linked /\ ~c.reverted
    BY DEF MarkedAs, Open
  <2>2. u \notin RowsGone(w) /\ ~Among(c, Undo(w))
    BY <1>2, <2>1 DEF UndoRow
  <2>3. m[c].unit = u /\ m[c].linked /\ ~m[c].reverted /\ Alike(c, m[c])
    BY <2>1, <2>2 DEF MarkedAs, Keeps, SameChange, Alike
  <2> QED BY <2>1, <2>3 DEF Open
<1> QED BY <1>1, <1>2

\* What the rollback writes to a unit.
Undone(u, d) == /\ units'[u] = Null <=> d.before = Null
                /\ d.before # Null => /\ units'[u].wrote = d.before.wrote
                                      /\ First(u, d.before) => First(u, units'[u])

LEMMA UndoneStack ==
  ASSUME ImportInv, Onward, \A k \in Imports : Stored(k)' = Stored(k),
         NEW w \in Workers, NEW m, MarkedAs(w, m), Possible(w),
         NEW u \in Units \ lost, NEW d, UndoRow(w, u, d), units[u] = worker[w].read.seen[u],
         Undone(u, d)
  PROVE  Top(u)' /\ \A e \in Open(u)' : Stacked(u, e)'
<1>1. d \in Open(u) /\ \A c \in Open(u) : c = d \/ c.at < d.at
  BY UndoneOnTop
<1>2. \A c \in Open(u) : Stacked(u, c) /\ c \in ChangeRows /\ c.at \in Nat
  BY DEF ImportInv, Stack, Open, Tables, ChangeRows
<1>3. \A x \in UnitRows \cup {Null} : Claimed(x)' = Claimed(x)
  BY DEF Claimed, UnitRows, Origins, Stored
<1>4. CASE d.before = Null
  <2>1. Open(u)' = {} /\ units'[u] = Null
    BY <1>4, MarkedOpen DEF Undone
  <2> QED BY <2>1 DEF Top, Claimed
<1>5. CASE d.before # Null
  <2>1. /\ \A e \in Open(u)' : \E c \in Open(u) \ {d} : Alike(c, e)
        /\ \A c \in Open(u) \ {d} : \E e \in Open(u)' : Alike(c, e)
    BY <1>5, MarkedOpen
  <2>2. units'[u] # Null /\ units'[u].wrote = d.before.wrote
    BY <1>5 DEF Undone
  <2>3. Claimed(units[u])' => Claimed(d.before)
    <3> SUFFICES ASSUME Claimed(units[u])' PROVE Claimed(d.before)
      OBVIOUS
    <3>1. PICK x : x = units'[u]
      OBVIOUS
    <3>2. x.wrote # Null /\ Stored(x.wrote.imp)'
      BY <3>1 DEF Claimed, Stored
    <3>3. Claimed(d.before)'
      BY <1>5, <2>2, <3>1, <3>2 DEF Claimed
    <3>4. d.before \in UnitRows \cup {Null}
      BY <1>1, <1>2 DEF ChangeRows
    <3> QED BY <1>3, <3>3, <3>4
  <2>4. Stacked(u, d)
    BY <1>1, <1>2
  <2>5. Top(u)'
    <3>1. ASSUME Claimed(units[u])' PROVE \E e \in Open(u)' : WroteIt(e, units'[u])
      <4>1. PICK c \in Open(u) : c.imp = d.before.wrote.imp /\ c.at < d.at
        BY <2>3, <2>4, <3>1 DEF Stacked, WroteIt
      <4>2. c # d
        BY <1>2, <4>1
      <4>3. PICK e \in Open(u)' : Alike(c, e)
        BY <2>1, <4>2
      <4> QED BY <2>2, <4>1, <4>3 DEF Alike, WroteIt
    <3>2. ASSUME NEW e \in Open(u)'
          PROVE  /\ units'[u].wrote # Null
                 /\ Claimed(units[u])' => \E f \in Open(u)' : WroteIt(f, units'[u]) /\ e.at <= f.at
      <4>1. PICK c \in Open(u) \ {d} : Alike(c, e)
        BY <2>1
      <4>2. c.at < d.at
        BY <1>1
      <4>3. d.before.wrote # Null
        BY <2>4, <4>2 DEF Stacked
      <4>4. ASSUME Claimed(units[u])'
            PROVE  \E f \in Open(u)' : WroteIt(f, units'[u]) /\ e.at <= f.at
        <5>1. PICK g \in Open(u) : g.imp = d.before.wrote.imp /\ g.at < d.at /\ c.at <= g.at
          BY <2>3, <2>4, <4>2, <4>4 DEF Stacked, WroteIt
        <5>2. g # d
          BY <1>2, <5>1
        <5>3. PICK f \in Open(u)' : Alike(g, f)
          BY <2>1, <5>2
        <5> QED BY <2>2, <4>1, <5>1, <5>3 DEF Alike, WroteIt
      <4> QED BY <2>2, <4>3, <4>4
    <3> QED BY <3>1, <3>2 DEF Top, WroteIt
  <2>6. ASSUME NEW e \in Open(u)' PROVE Stacked(u, e)'
    <3>1. PICK c \in Open(u) \ {d} : Alike(c, e)
      BY <2>1
    <3>2. Stacked(u, c) /\ c.at < d.at /\ e.before = c.before /\ e.at = c.at
      BY <1>1, <1>2, <3>1 DEF Alike
    <3>3. Claimed(e.before)' => Claimed(c.before)
      BY <1>2, <1>3, <3>2 DEF ChangeRows
    <3>4. \A f \in Open(u) : f.at < c.at => \E g \in Open(u)' : Alike(f, g)
      <4> TAKE f \in Open(u)
      <4> HAVE f.at < c.at
      <4>1. f # d
        BY <1>2, <3>2
      <4> QED BY <2>1, <4>1
    <3>5. ASSUME Claimed(e.before)' PROVE \E g \in Open(u)' : WroteIt(g, e.before) /\ g.at < e.at
      <4>1. PICK f \in Open(u) : f.imp = c.before.wrote.imp /\ f.at < c.at
        BY <3>2, <3>3, <3>5 DEF Stacked, WroteIt
      <4>2. PICK g \in Open(u)' : Alike(f, g)
        BY <3>4, <4>1
      <4> QED BY <3>2, <4>1, <4>2 DEF Alike, WroteIt
    <3>6. ASSUME NEW h \in Open(u)', h.at < e.at
          PROVE  /\ e.before # Null /\ e.before.wrote # Null
                 /\ Claimed(e.before)' =>
                      \E g \in Open(u)' : WroteIt(g, e.before) /\ g.at < e.at /\ h.at <= g.at
      <4>1. PICK k \in Open(u) \ {d} : Alike(k, h)
        BY <2>1
      <4>2. k.at < c.at /\ k.at = h.at
        BY <3>2, <3>6, <4>1 DEF Alike
      <4>3. c.before # Null /\ c.before.wrote # Null
        BY <3>2, <4>2 DEF Stacked
      <4>4. ASSUME Claimed(e.before)'
            PROVE  \E g \in Open(u)' : WroteIt(g, e.before) /\ g.at < e.at /\ h.at <= g.at
        <5>1. PICK f \in Open(u) : f.imp = c.before.wrote.imp /\ f.at < c.at /\ k.at <= f.at
          BY <3>2, <3>3, <4>2, <4>4 DEF Stacked, WroteIt
        <5>2. PICK g \in Open(u)' : Alike(f, g)
          BY <3>4, <5>1
        <5> QED BY <3>2, <4>2, <5>1, <5>2 DEF Alike, WroteIt
      <4> QED BY <3>2, <4>3, <4>4
    <3> QED BY <3>5, <3>6 DEF Stacked
  <2> QED BY <2>5, <2>6
<1> QED BY <1>4, <1>5

LEMMA UndoneBottom ==
  ASSUME ImportInv, Onward, NEW w \in Workers, NEW m, MarkedAs(w, m), Possible(w),
         NEW u \in Units \ (lost \cup touched), NEW d, UndoRow(w, u, d),
         units[u] = worker[w].read.seen[u], Undone(u, d), NoneDeleted'
  PROVE  Bottom(u)'
<1>1. d \in Open(u) /\ \A c \in Open(u) : c = d \/ c.at < d.at
  BY UndoneOnTop
<1>2. \A c \in Open(u) : Stacked(u, c) /\ c.at \in Nat
  BY DEF ImportInv, Stack, Open, Tables, ChangeRows
<1>3. Bottom(u)
  BY DEF ImportInv, Bottoms, NoneDeleted, Onward
<1>4. ASSUME Open(u) = {d} PROVE First(u, d.before)
  BY <1>1, <1>2, <1>3, <1>4 DEF Bottom
<1>5. CASE d.before = Null
  <2>1. Open(u)' = {} /\ units'[u] = Null
    BY <1>5, MarkedOpen DEF Undone
  <2>2. ASSUME NEW c \in Open(u) PROVE c = d
    BY <1>1, <1>2, <1>5 DEF Stacked
  <2>3. First(u, Null)
    BY <1>1, <1>4, <1>5, <2>2
  <2> QED BY <2>1, <2>3 DEF Bottom, First
<1>6. CASE d.before # Null
  <2>1. /\ \A e \in Open(u)' : \E c \in Open(u) \ {d} : Alike(c, e)
        /\ \A c \in Open(u) \ {d} : \E e \in Open(u)' : Alike(c, e)
    BY <1>6, MarkedOpen
  <2>2. ASSUME Open(u)' = {} PROVE First(u, units'[u])
    BY <1>1, <1>4, <1>6, <2>1, <2>2 DEF Undone
  <2>3. ASSUME NEW e \in Open(u)', \A f \in Open(u)' : e.at <= f.at PROVE First(u, e.before)
    <3>1. PICK c \in Open(u) \ {d} : Alike(c, e)
      BY <2>1
    <3>2. c.at < d.at
      BY <1>1
    <3>3. \A f \in Open(u) \ {d} : c.at <= f.at
      BY <2>1, <2>3, <3>1 DEF Alike
    <3>4. \A f \in Open(u) : c.at <= f.at
      BY <1>2, <3>2, <3>3
    <3> QED BY <1>3, <3>1, <3>4 DEF Bottom, Alike
  <2> QED BY <2>2, <2>3 DEF Bottom, First
<1> QED BY <1>5, <1>6

\* What the rollback leaves in unit u, whose marked row is d.
LEMMA UndoneUnit ==
  ASSUME ImportInv, NEW w \in Workers, Possible(w), NEW u \in Units, NEW d, UndoRow(w, u, d),
         u \in UnitsOf(Undo(w)),
         units'[u] = IF u \in RowsGone(w) THEN Null
                     ELSE [(CHOOSE c \in Undo(w) : c.unit = u).before EXCEPT !.media = units[u].media]
  PROVE  /\ Undone(u, d) /\ units'[u] \in UnitRows \cup {Null} /\ RowPreviewed(units'[u])
         /\ units'[u] # Null => /\ units'[u].value = d.before.value
                                /\ units'[u].source # Null => Stored(units'[u].source)
<1>1. d \in changes /\ d \in ChangeRows /\ ChangeSound(d) /\ units[u] \in UnitRows /\ units[u] # Null
  BY DEF UndoRow, ImportInv, Tables, RowsSound, Keys
<1>2. CASE d.before = Null
  BY <1>2 DEF UndoRow, Undone, RowPreviewed
<1>3. CASE d.before # Null
  <2>1. PICK c \in Undo(w) : c = CHOOSE x \in Undo(w) : x.unit = u
    BY DEF UnitsOf
  <2>2. c.unit = u /\ c.before = d.before /\ ~Created(c)
    <3>1. c.unit = u
      BY <2>1 DEF UnitsOf
    <3> QED BY <1>3, <3>1 DEF UndoRow, Created
  <2>3. PICK media \in BOOLEAN : media = units[u].media
    BY <1>1 DEF UnitRows
  <2>4. PICK x \in UnitRows : x = d.before
    BY <1>1, <1>3 DEF ChangeRows
  <2>5. units'[u] = [x EXCEPT !.media = media]
    BY <1>3, <2>1, <2>2, <2>3, <2>4 DEF UndoRow
  <2>6. PICK y : y = [x EXCEPT !.media = media]
    OBVIOUS
  <2>7. y \in UnitRows /\ y.wrote = x.wrote /\ y.source = x.source /\ y.value = x.value
    BY <2>6 DEF UnitRows
  <2>8. y # Null /\ units'[u] = y
    BY <2>5, <2>6, <2>7, ImportConstants
  <2>9. [y EXCEPT !.media = FALSE] = [x EXCEPT !.media = FALSE]
    BY <2>6 DEF UnitRows
  <2>10. x.source # Null => Stored(x.source)
    BY <2>2, <2>4 DEF Possible
  <2>11. First(u, d.before) => First(u, y)
    BY <1>3, <2>4, <2>8, <2>9 DEF First
  <2>12. RowPreviewed(y)
    BY <1>1, <1>3, <2>4, <2>7 DEF ChangeSound, RowPreviewed
  <2> QED BY <1>3, <2>4, <2>7, <2>8, <2>10, <2>11, <2>12 DEF Undone
<1> QED BY <1>2, <1>3

\* A rollback takes from the top of each of its units' stacks the row of its batch.
LEMMA RollbackCommitInv ==
  ASSUME ImportInv, NEW w \in Workers, RollbackCommit(w), requests' \in 0..MaxRequests
  PROVE  ImportInv'
<1>1. worker[w].at = "undo" /\ worker[w].at \in Later /\ Leave(w)
      /\ UNCHANGED <<corrections, previewed, touched>>
  BY DEF RollbackCommit, At, Later, Places
<1>2. PICK i \in Imports : i = worker[w].imp
  BY <1>1, RequestBatch
<1>3. CASE ~Possible(w)
  <2>1. UNCHANGED <<imports, units, changes, lost>>
    BY <1>3 DEF RollbackCommit, Possible, Undo
  <2> QED BY <1>1, <2>1, LeavesInv DEF db, history
<1>4. CASE Possible(w)
  <2>1. PICK keep : keep = worker[w].read.keep
    OBVIOUS
  <2>2. /\ changes' = {Marked(c, Undo(w), keep, RowsGone(w)) : c \in changes}
        /\ units' = [u \in Units |->
             IF u \in RowsGone(w) THEN Null
             ELSE IF u \in UnitsOf(Undo(w))
             THEN [(CHOOSE c \in Undo(w) : c.unit = u).before EXCEPT !.media = units[u].media]
             ELSE units[u]]
        /\ imports' = [imports EXCEPT ![i] = [imports[i] EXCEPT !.status = "ROLLED_BACK"]]
        /\ lost' = lost \cup {u \in UnitsOf(Undo(w)) : units[u] # worker[w].read.seen[u]}
    BY <1>2, <1>4, <2>1 DEF RollbackCommit, Possible, Undo, RowsGone, Becomes
  <2>3. PICK b : b = [imports[i] EXCEPT !.status = "ROLLED_BACK"]
    OBVIOUS
  <2>4. Stored(i) /\ Sane(b, previewed[i])
    BY <1>2, <1>4, <2>3, StatusWritten DEF Possible, Settled, Finished
  <2>5. /\ imports' \in [Imports -> BatchRows] /\ Onward
        /\ \A k \in Imports : BatchSound(k)' /\ Stored(k)' = Stored(k)
    BY <1>1, <2>2, <2>3, <2>4, BatchSaved
  <2>6. PICK m : m = [c \in changes |-> Marked(c, Undo(w), keep, RowsGone(w))]
    OBVIOUS
  <2>7. ASSUME NEW c \in changes
        PROVE  /\ m[c] \in ChangeRows /\ Keeps(c, m[c])
               /\ m[c].linked <=> (c.linked /\ c.unit \notin RowsGone(w))
               /\ m[c].reverted <=> (c.reverted \/ Among(c, Undo(w)))
    <3>1. c \in ChangeRows
      BY DEF ImportInv, Tables
    <3>2. PICK linked \in BOOLEAN, reverted \in BOOLEAN, conflict \in BOOLEAN :
            /\ linked = (c.linked /\ c.unit \notin RowsGone(w))
            /\ reverted = (c.reverted \/ Among(c, Undo(w)))
            /\ conflict = ((c.conflict \/ Among(c, keep)) /\ ~Among(c, Undo(w)))
      OBVIOUS
    <3>3. m[c] = [c EXCEPT !.linked = linked, !.reverted = reverted, !.conflict = conflict]
      BY <2>6, <3>2 DEF Marked
    <3>4. /\ m[c] \in ChangeRows /\ m[c].linked = linked /\ m[c].reverted = reverted
          /\ m[c].imp = c.imp /\ m[c].unit = c.unit /\ m[c].at = c.at /\ m[c].before = c.before
          /\ m[c].after = c.after
      BY <3>1, <3>3 DEF ChangeRows
    <3> QED BY <3>2, <3>4 DEF Keeps, SameChange
  <2>8. changes' = {m[c] : c \in changes}
    BY <2>2, <2>6
  <2>9. MarkedAs(w, m)
    BY <2>7, <2>8 DEF MarkedAs
  <2>10. /\ changes' \subseteq ChangeRows /\ RowsStay
         /\ \A d \in changes' : ChangeSound(d)'
         /\ \A c, d \in changes' : c.imp = d.imp /\ c.unit = d.unit /\ c.linked /\ d.linked => c = d
         /\ \A c, d \in changes' : c.unit = d.unit /\ c.at = d.at => c = d
    BY <2>5, <2>7, <2>8, RowsMarked
  <2>11. ASSUME NEW u \in Units, u \in UnitsOf(Undo(w))
         PROVE  \E d \in changes : UndoRow(w, u, d) /\ Undone(u, d)
                  /\ units'[u] \in UnitRows \cup {Null} /\ RowPreviewed(units'[u])
                  /\ (units'[u] # Null /\ units'[u].source # Null => Stored(units'[u].source))
    <3>1. PICK d \in changes : UndoRow(w, u, d)
      BY <1>1, <1>4, <2>11, UndoRowIs
    <3>2. units'[u] = IF u \in RowsGone(w) THEN Null
                     ELSE [(CHOOSE c \in Undo(w) : c.unit = u).before EXCEPT !.media = units[u].media]
      BY <2>2, <2>11
    <3> QED BY <1>4, <2>11, <3>1, <3>2, UndoneUnit
  <2>12. \A u \in Units : u \notin UnitsOf(Undo(w)) => units'[u] = units[u]
    BY <2>2 DEF RowsGone, UnitsOf
  <2>13. \A u \in Units : units'[u] \in UnitRows \cup {Null}
    BY <2>11, <2>12 DEF ImportInv, Tables
  <2>14. units' \in [Units -> UnitRows \cup {Null}]
    <3>1. units' = [u \in Units |-> units'[u]]
      BY <2>2
    <3> QED BY <2>13, <3>1
  <2>15. Tables'
    BY <1>1, <2>5, <2>10, <2>14 DEF ImportInv, Tables
  <2>16. Keys'
    <3>1. \A k \in Imports : corrections'[k].state # "NONE" => Stored(k)'
      BY <1>1, <2>5 DEF ImportInv, Keys
    <3>2. ASSUME NEW u \in Units, units'[u] # Null, units'[u].source # Null
          PROVE  Stored(units[u].source)'
      <4>1. Stored(units'[u].source)
        BY <2>11, <2>12, <3>2 DEF ImportInv, Keys
      <4>2. units'[u].source \in Imports
        BY <2>13, <3>2 DEF UnitRows
      <4> QED BY <2>5, <4>1, <4>2 DEF Stored
    <3>3. ASSUME NEW d \in changes' PROVE Stored(d.imp)' /\ (d.linked => units'[d.unit] # Null)
      <4>1. PICK c \in changes : d = m[c]
        BY <2>8
      <4>2. /\ Stored(c.imp) /\ c.imp \in Imports /\ c.unit \in Units /\ (c.linked => units[c.unit] # Null)
            /\ d.imp = c.imp /\ d.unit = c.unit /\ (d.linked <=> (c.linked /\ c.unit \notin RowsGone(w)))
        BY <2>7, <4>1 DEF ImportInv, Tables, ChangeRows, Keys, Keeps, SameChange
      <4>3. c.unit \in UnitsOf(Undo(w)) /\ c.unit \notin RowsGone(w) => units'[c.unit] # Null
        BY <2>11, <4>2 DEF UndoRow, Undone
      <4> QED BY <2>5, <2>12, <4>2, <4>3
    <3> QED BY <2>10, <3>1, <3>2, <3>3 DEF Keys
  <2>17. RowsSound'
    <3>1. \A k \in Imports : DraftSound(k, corrections[k])'
      BY <1>1 DEF ImportInv, RowsSound, DraftSound
    <3>2. \A u \in Units : RowPreviewed(units'[u])
      BY <2>11, <2>12 DEF ImportInv, RowsSound
    <3>3. \A u \in Units : RowPreviewed(units[u])'
      BY <1>1, <3>2 DEF RowPreviewed
    <3> QED BY <2>5, <2>10, <3>1, <3>3 DEF RowsSound
  <2>18. InFlight'
    <3>1. \A k \in Imports \ {i} : imports'[k] = imports[k]
      BY <2>2 DEF ImportInv, Tables
    <3> QED BY <1>1, <2>4, <2>5, <2>10, <3>1, EndsInFlight DEF Stored
  <2>19. ASSUME NEW u \in Units, u \notin UnitsOf(Undo(w))
         PROVE  StackRests(u) /\ UnitRests(u) /\ units'[u] = units[u]
    BY <2>9, <2>12, <2>19, UnmarkedRests DEF UnitRests
  <2>20. Stack'
    <3> SUFFICES ASSUME NEW u \in Units \ lost' PROVE Top(u)' /\ \A d \in Open(u)' : Stacked(u, d)'
      BY DEF Stack
    <3>1. CASE u \in UnitsOf(Undo(w))
      <4>1. u \in Units \ lost /\ units[u] = worker[w].read.seen[u]
        BY <2>2, <3>1
      <4>2. PICK d \in changes : UndoRow(w, u, d) /\ Undone(u, d)
        BY <2>11, <3>1
      <4> QED BY <1>4, <2>5, <2>9, <4>1, <4>2, UndoneStack
    <3>2. CASE u \notin UnitsOf(Undo(w))
      <4>1. u \in Units \ lost
        BY <2>2
      <4> QED BY <2>5, <2>19, <3>2, <4>1, StackRestsOn
    <3> QED BY <3>1, <3>2
  <2>21. Bottoms'
    <3> SUFFICES ASSUME NoneDeleted', NEW u \in Units \ (lost' \cup touched) PROVE Bottom(u)'
      BY <1>1 DEF Bottoms
    <3>1. CASE u \in UnitsOf(Undo(w))
      <4>1. u \in Units \ (lost \cup touched) /\ units[u] = worker[w].read.seen[u]
        BY <2>2, <3>1
      <4>2. PICK d \in changes : UndoRow(w, u, d) /\ Undone(u, d)
        BY <2>11, <3>1
      <4> QED BY <1>4, <2>5, <2>9, <4>1, <4>2, UndoneBottom
    <3>2. CASE u \notin UnitsOf(Undo(w))
      <4>1. u \in Units \ (lost \cup touched)
        BY <2>2
      <4> QED BY <2>5, <2>19, <3>2, <4>1, BottomRestsOn
    <3> QED BY <3>1, <3>2
  <2> QED BY <2>15, <2>16, <2>17, <2>18, <2>20, <2>21 DEF ImportInv
<1> QED BY <1>3, <1>4

-----------------------------------------------------------------------------
(* The invariant, and what it says *)

LEMMA ArriveInv ==
  ASSUME ImportInv, NEW w \in Workers, Arrive(w), requests' \in 0..MaxRequests
  PROVE  ImportInv'
<1>1. CASE \E u \in Units : DeleteUnit(w, u)
  BY <1>1, DeleteUnitInv
<1>2. ASSUME NEW i \in Imports, Upload(w, i) PROVE ImportInv'
  BY <1>2, UploadInv
<1>3. ASSUME NEW i \in Imports, Poll(w, i) PROVE ImportInv'
  BY <1>3, PollInv
<1>4. ASSUME NEW i \in Imports, Preview(w, i) PROVE ImportInv'
  BY <1>4, PreviewInv
<1>5. ASSUME NEW i \in Imports, Confirm(w, i) PROVE ImportInv'
  BY <1>5, ConfirmInv
<1>6. ASSUME NEW i \in Imports, DeleteUnfinished(w, i) \/ DeleteSourceRecord(w, i) PROVE ImportInv'
  BY <1>6, RemovalInv
<1>7. ASSUME NEW i \in Imports, NEW mode \in RollbackModes, RollbackBegin(w, i, mode) PROVE ImportInv'
  BY <1>7, RollbackBeginInv
<1>8. ASSUME NEW i \in Imports, NEW kind \in EditKinds, NEW m \in Mappings, Edit(w, i, kind, m)
      PROVE  ImportInv'
  BY <1>8, EditInv
<1>9. ASSUME NEW i \in Imports, NEW d, CorrectionConfirm(w, i, d) PROVE ImportInv'
  BY <1>9, CorrectionConfirmInv
<1> QED BY <1>1, <1>2, <1>3, <1>4, <1>5, <1>6, <1>7, <1>8, <1>9 DEF Arrive

LEMMA StepInv ==
  ASSUME ImportInv, NEW w \in Workers, Step(w), requests' \in 0..MaxRequests
  PROVE  ImportInv'
<1>1. CASE StoreFails(w) \/ StoreWorkbook(w)
  BY <1>1, StoreInv
<1>2. CASE Repair(w) \/ Settle(w)
  BY <1>2, RepairInv
<1>3. CASE EditWrite(w) \/ EditIssues(w)
  BY <1>3, EditWriteInv, EditIssuesInv
<1>4. CASE PreviewSheet(w) \/ PreviewVerdict(w)
  BY <1>4, PreviewSheetInv, PreviewVerdictInv
<1>5. CASE ConfirmBegin(w) \/ ConfirmAbort(w)
  BY <1>5, ConfirmBeginInv, ConfirmAbortInv
<1>6. CASE ConfirmCommit(w)
  BY <1>6, ConfirmCommitInv
<1>7. CASE ConfirmRecover(w) \/ Cancel(w)
  BY <1>7, MarkInv
<1>8. CASE Delete(w)
  BY <1>8, DeleteInv
<1>9. CASE RollbackCommit(w)
  BY <1>9, RollbackCommitInv
<1>10. CASE CorrectionApply(w)
  BY <1>10, CorrectionApplyInv
<1>11. CASE DropUnit(w)
  BY <1>11, DropUnitInv
<1> QED BY <1>1, <1>2, <1>3, <1>4, <1>5, <1>6, <1>7, <1>8, <1>9, <1>10, <1>11 DEF Step

LEMMA ImportInvNext == ASSUME ImportInv, [Next]_vars PROVE ImportInv'
<1>1. requests' \in 0..MaxRequests
  BY ImportConstants DEF ImportInv, Tables, Next, vars
<1>2. ASSUME NEW w \in Workers, Arrive(w) PROVE ImportInv'
  BY <1>1, <1>2, ArriveInv
<1>3. ASSUME NEW i \in Imports, Correct(i) PROVE ImportInv'
  BY <1>1, <1>3, CorrectionCreateInv, CorrectionPreviewInv DEF Correct
<1>4. ASSUME NEW u \in Units, CreateUnit(u) \/ UpdateUnit(u) \/ AttachMedia(u) PROVE ImportInv'
  BY <1>1, <1>4, CreateUnitInv, UpdateUnitInv, AttachMediaInv
<1>5. ASSUME NEW w \in Workers, Step(w) PROVE ImportInv'
  BY <1>1, <1>5, StepInv
<1>6. CASE Crash
  BY <1>1, <1>6, CrashInv
<1>7. CASE UNCHANGED vars
  <2> USE <1>7 DEF vars, db, history
  <2>1. Onward /\ RowsStay
    BY DEF Onward, RowsStay, SameChange
  <2>2. InFlight'
    BY <2>1, NoneMoves DEF ImportInv
  <2>3. Tables' /\ RowsSound'
    BY DEF ImportInv, Tables, RowsSound, BatchSound, RowPreviewed, ChangeSound, DraftSound
  <2>4. Keys'
    BY KeysOn DEF ImportInv, Stored
  <2>5. Stack' /\ Bottoms'
    BY <2>1, StackOn, BottomsOn DEF ImportInv
  <2> QED BY <2>2, <2>3, <2>4, <2>5 DEF ImportInv
<1> QED BY <1>2, <1>3, <1>4, <1>5, <1>6, <1>7 DEF Next, NewRequest

\* Whatever requests overlap or are lost in a crash: the tables are sound, each waiting
\* request's reads still stand as far as its write relies on them, and the open change
\* rows of a unit are stacked.
THEOREM ImportInvariant == Spec => []ImportInv
<1>1. Init => ImportInv
  BY ImportInvInit
<1>2. ImportInv /\ [Next]_vars => ImportInv'
  BY ImportInvNext
<1> QED BY <1>1, <1>2, PTL DEF Spec

\* Foreign keys and the unique key on batch and unit hold over imports, corrections,
\* rollbacks and the catalogue's own edits.
THEOREM ImportTyped == Spec => []TypeOK
<1>1. ImportInv => TypeOK
  BY DEF ImportInv, Tables, Keys, TypeOK, BatchRows, Verdicts
<1> QED BY <1>1, ImportInvariant, PTL

\* Whatever edits, previews and confirmations of a batch overlap, the inventory holds only
\* what was previewed with exactly that meaning of the table (confirmSheets).
THEOREM PreviewedBeforeWritten == Spec => []PreviewedMapping
<1>1. ImportInv => PreviewedMapping
  BY DEF ImportInv, RowsSound, RowPreviewed, PreviewedMapping
<1> QED BY <1>1, ImportInvariant, PTL

\* Every applied row can be traced to an open change row of its batch, and so rolled back.
THEOREM AppliedRowsOwned == Spec => []Owned
<1>1. ImportInv => Owned
  BY DEF ImportInv, Stack, Top, Claimed, Open, WroteIt, Owned, ChangesOf
<1> QED BY <1>1, ImportInvariant, PTL

\* Once every change of a unit is rolled back, in whatever order, the unit is what it was
\* before the imports (rollbackImport).
THEOREM RolledBackUnwound == Spec => []Unwound
<1>1. ASSUME ImportInv PROVE Unwound
  <2> SUFFICES ASSUME NEW u \in Units \ (lost \cup touched), NoneDeleted,
                      \A c \in changes : c.unit = u => c.reverted
               PROVE  First(u, units[u])
    BY DEF Unwound, First, NoneDeleted
  <2>1. Open(u) = {}
    BY DEF Open
  <2> QED BY <1>1, <2>1 DEF ImportInv, Bottoms, Bottom
<1> QED BY <1>1, ImportInvariant, PTL

\* Only its own step takes a request out of a rollback, unless the process crashes.
LEMMA UndoEnds ==
  ASSUME ImportInv, Next, NEW w \in Workers, At(w, "undo"), ~At(w, "undo")'
  PROVE  RollbackCommit(w) \/ UNCHANGED units
<1>1. ASSUME NEW v \in Workers, Arrive(v) PROVE UNCHANGED units
  BY <1>1 DEF Arrive, Upload, Poll, Preview, Confirm, DeleteUnfinished, DeleteSourceRecord, RollbackBegin,
              Edit, CorrectionConfirm, DeleteUnit, db
<1>2. ASSUME NEW i \in Imports, Correct(i) PROVE UNCHANGED units
  BY <1>2 DEF Correct, CorrectionCreate, CorrectionPreview
<1>3. ASSUME NEW u \in Units, CreateUnit(u) \/ UpdateUnit(u) \/ AttachMedia(u) PROVE FALSE
  BY <1>3 DEF CreateUnit, UpdateUnit, AttachMedia, At
<1>4. ASSUME NEW v \in Workers, Step(v) PROVE RollbackCommit(w)
  <2>1. \E rec : worker' = [worker EXCEPT ![v] = rec]
    BY <1>4 DEF Step, StoreFails, StoreWorkbook, Repair, Settle, EditWrite, EditIssues, PreviewSheet,
                PreviewVerdict, ConfirmBegin, ConfirmCommit, ConfirmAbort, ConfirmRecover, Delete, Cancel,
                RollbackCommit, CorrectionApply, DropUnit, WriteThenGet, EndWithGet, ToSettle, Goto, Leave, Go
  <2>2. v = w
    BY <2>1 DEF At, ImportInv, InFlight
  <2> QED BY <1>4, <2>2 DEF Step, StoreFails, StoreWorkbook, Repair, Settle, EditWrite, EditIssues, PreviewSheet,
                PreviewVerdict, ConfirmBegin, ConfirmCommit, ConfirmAbort, ConfirmRecover, Delete, Cancel,
                CorrectionApply, DropUnit, At
<1>5. Crash => UNCHANGED units
  BY DEF Crash, db
<1> QED BY <1>1, <1>2, <1>3, <1>4, <1>5 DEF Next, NewRequest

\* A rollback keeps content typed in by hand (rollbackConflict), except what was typed
\* between its read and its write.
THEOREM ManualContentKept == Spec => ManualKept
<1>1. ASSUME ImportInv, [Next]_vars PROVE [ManualStays]_vars
  <2> SUFFICES ASSUME Next, NEW w \in Workers, NEW u \in Units, At(w, "undo"), ~At(w, "undo")',
                      units[u] # Null, units[u].value = Manual, u \notin lost'
               PROVE  units'[u] # Null /\ units'[u].value = Manual
    BY <1>1 DEF ManualStays
  <2>1. CASE UNCHANGED units
    BY <2>1
  <2>2. CASE RollbackCommit(w) /\ ~Possible(w)
    BY <2>2 DEF RollbackCommit, Possible, Undo
  <2>3. CASE RollbackCommit(w) /\ Possible(w)
    <3>1. /\ \A v \in Units : v \notin UnitsOf(Undo(w)) => units'[v] = units[v]
          /\ lost' = lost \cup {v \in UnitsOf(Undo(w)) : units[v] # worker[w].read.seen[v]}
      <4>1. \A v \in Units : v \in UnitsOf({c \in Undo(w) : Created(c)}) => v \in UnitsOf(Undo(w))
        BY DEF UnitsOf
      <4> QED BY <2>3, <4>1 DEF RollbackCommit, Possible, Undo
    <3>2. ASSUME u \in UnitsOf(Undo(w)) PROVE FALSE
      <4>1. PICK d \in changes : UndoRow(w, u, d)
        BY <1>1, <2>3, <3>2, UndoRowIs DEF At
      <4>2. SameContent(units[u], d.after) /\ d.after.value # Manual
        BY <1>1, <3>1, <3>2, <4>1 DEF UndoRow, ImportInv, RowsSound, ChangeSound
      <4>3. PICK x \in UnitRows : x = units[u]
        BY <1>1 DEF ImportInv, Tables
      <4>4. PICK media : media = d.after.media
        OBVIOUS
      <4>5. [x EXCEPT !.media = media] = d.after /\ [x EXCEPT !.media = media].value = x.value
        BY <4>2, <4>3, <4>4 DEF SameContent, UnitRows
      <4> QED BY <4>2, <4>3, <4>5
    <3> QED BY <3>1, <3>2
  <2> QED BY <1>1, <2>1, <2>2, <2>3, UndoEnds
<1> QED BY <1>1, ImportInvariant, PTL DEF Spec, ManualKept

-----------------------------------------------------------------------------
(* Batches without tables *)

\* What a unit, a change row and a request look like.
IsUnit(x) ==
  /\ x = [value |-> x.value, status |-> x.status, archived |-> x.archived, by |-> x.by]
  /\ x.by \in FlatBatches \cup {Null}
IsChange(c) ==
  /\ c = [batch |-> c.batch, unit |-> c.unit, linked |-> c.linked, reverted |-> c.reverted,
          before |-> c.before, after |-> c.after, no |-> c.no]
  /\ c.batch \in FlatBatches /\ c.unit \in Units /\ c.linked \in BOOLEAN /\ c.reverted \in BOOLEAN
IsJob(j) == DOMAIN j = {"at", "batch", "read", "to"}

\* The batch that last wrote x, if any, is one that wrote unit u since it was created.
KnownWriter(x, u) == x.by # Null => x.by \in wrote[u]

\* What a transaction read of the units: of one that was not deleted since, the writer is known.
ReadSound(to) ==
  \A u \in Units :
    /\ to.life[u] \in 0..erased[u]
    /\ to.seen[u] # Null => /\ IsUnit(to.seen[u])
                            /\ to.life[u] = erased[u] => KnownWriter(to.seen[u], u)

FlatJobSound(j) ==
  /\ IsJob(j)
  /\ j.at \notin {"free", "delete"} => j.batch \in FlatBatches
  /\ j.at = "commit" => ReadSound(j.to)
  /\ j.at = "revert" => \A c \in j.to : IsChange(c) /\ c.batch = j.batch /\ c.linked /\ ~c.reverted
  /\ j.at = "delete" => j.read \in Units

FlatShape ==
  /\ stock = [u \in Units |-> stock[u]]
  /\ erased \in [Units -> Nat] /\ wrote \in [Units -> SUBSET FlatBatches]
  /\ flatAdmin = [p \in FlatAdmins |-> flatAdmin[p]]
  /\ \A c \in change : IsChange(c)

\* The units and the change rows.
OneRow == \A c, d \in change : c.linked /\ d.linked /\ c.batch = d.batch /\ c.unit = d.unit => c = d
RowForWriter == \A u \in Units, b \in FlatBatches : b \in wrote[u] <=> RowOf(b, u)
UnitsKnown == \A u \in Units : stock[u] # Null => IsUnit(stock[u]) /\ KnownWriter(stock[u], u)
BeforesKnown ==
  \A c \in change : c.linked /\ c.before # Null =>
    IsUnit(c.before) /\ KnownWriter(c.before, c.unit) /\ c.before.by # c.batch

Underway == {flatAdmin[p] : p \in FlatAdmins}

FlatInv ==
  /\ FlatShape /\ OneRow /\ RowForWriter /\ UnitsKnown /\ BeforesKnown
  /\ \A j \in Underway : FlatJobSound(j)

\* A unit of which more was deleted, or that more batches wrote, keeps what a request knows.
FlatOnwards ==
  \A u \in Units :
    \/ erased[u] = erased'[u] /\ wrote[u] \subseteq wrote'[u]
    \/ erased[u] < erased'[u]

LEMMA FlatJobSoundOn ==
  ASSUME FlatShape, FlatShape', FlatOnwards
  PROVE  \A j : FlatJobSound(j) => FlatJobSound(j)'
<1> SUFFICES ASSUME NEW j, FlatJobSound(j)
             PROVE  FlatJobSound(j)'
  OBVIOUS
<1>1. ASSUME j.at = "commit"
      PROVE  ReadSound(j.to)'
  <2>1. ReadSound(j.to)
    BY <1>1 DEF FlatJobSound
  <2> SUFFICES ASSUME NEW u \in Units
               PROVE  /\ j.to.life[u] \in 0..erased'[u]
                      /\ j.to.seen[u] # Null =>
                           /\ IsUnit(j.to.seen[u])
                           /\ j.to.life[u] = erased'[u] /\ j.to.seen[u].by # Null => j.to.seen[u].by \in wrote'[u]
    BY DEF ReadSound, KnownWriter, IsUnit
  <2>2. erased[u] \in Nat /\ erased'[u] \in Nat
    BY DEF FlatShape
  <2> QED BY <2>1, <2>2 DEF ReadSound, KnownWriter, FlatOnwards
<1> QED BY <1>1 DEF FlatJobSound, IsJob, IsChange

\* A request that begins, goes on or ends without writing to units or change rows.
LEMMA FlatMoves ==
  ASSUME FlatInv, UNCHANGED <<stock, erased, change, wrote>>,
         NEW p \in FlatAdmins, NEW j, FlatJobSound(j), flatAdmin' = [flatAdmin EXCEPT ![p] = j]
  PROVE  FlatInv'
<1>1. FlatShape'
  BY DEF FlatInv, FlatShape
<1>2. OneRow' /\ RowForWriter' /\ UnitsKnown' /\ BeforesKnown'
  BY DEF FlatInv, OneRow, RowForWriter, RowOf, UnitsKnown, KnownWriter, BeforesKnown
<1>3. ASSUME NEW k \in Underway'
      PROVE  FlatJobSound(k)'
  <2>1. k = j \/ k \in Underway
    BY <1>3 DEF Underway, FlatInv, FlatShape
  <2>2. FlatJobSound(k)
    BY <2>1 DEF FlatInv
  <2> QED BY <1>1, <2>2, FlatJobSoundOn DEF FlatInv, FlatOnwards
<1> QED BY <1>1, <1>2, <1>3 DEF FlatInv

\* A step that writes units and change rows.
LEMMA FlatWrites ==
  ASSUME FlatInv, FlatShape', OneRow', RowForWriter', UnitsKnown', BeforesKnown', FlatOnwards,
         NEW p \in FlatAdmins, NEW j, FlatJobSound(j), flatAdmin' = [flatAdmin EXCEPT ![p] = j]
  PROVE  FlatInv'
<1>1. ASSUME NEW k \in Underway'
      PROVE  FlatJobSound(k)'
  <2>1. k = j \/ k \in Underway
    BY <1>1 DEF Underway, FlatInv, FlatShape
  <2>2. FlatJobSound(k)
    BY <2>1 DEF FlatInv
  <2> QED BY <2>2, FlatJobSoundOn DEF FlatInv
<1> QED BY <1>1 DEF FlatInv

\* A request that is about a batch, and what it makes of itself.
LEMMA FlatJobIs ==
  ASSUME FlatInv, NEW p \in FlatAdmins
  PROVE  FlatJobSound(flatAdmin[p])
BY DEF FlatInv, Underway

Quiet == {"free", "resolve", "get", "refresh", "repair", "preview", "importing", "rows", "remove"}

LEMMA QuietSound ==
  /\ FlatJobSound(FlatFree)
  /\ \A j : IsJob(j) /\ j.at \in Quiet /\ (j.at # "free" => j.batch \in FlatBatches) => FlatJobSound(j)
BY DEF FlatJobSound, Quiet, FlatFree, IsJob

LEMMA QuietBecomes ==
  ASSUME FlatInv, NEW p \in FlatAdmins, flatAdmin[p].at \notin {"free", "delete"}, NEW a \in Quiet \ {"free"}, NEW x
  PROVE  /\ FlatJobSound([flatAdmin[p] EXCEPT !.at = a])
         /\ FlatJobSound([flatAdmin[p] EXCEPT !.at = a, !.to = x])
<1>1. IsJob(flatAdmin[p]) /\ flatAdmin[p].batch \in FlatBatches
  BY FlatJobIs DEF FlatJobSound
<1>2. \A j : IsJob(j) => /\ IsJob([j EXCEPT !.at = a]) /\ [j EXCEPT !.at = a].at = a
                          /\ [j EXCEPT !.at = a].batch = j.batch
                          /\ IsJob([j EXCEPT !.at = a, !.to = x]) /\ [j EXCEPT !.at = a, !.to = x].at = a
                          /\ [j EXCEPT !.at = a, !.to = x].batch = j.batch
  BY DEF IsJob
<1> QED BY <1>1, <1>2, QuietSound

-----------------------------------------------------------------------------
(* The steps *)

LEMMA FlatInvInit == ASSUME FlatInit PROVE FlatInv
BY QuietSound DEF FlatInit, FlatInv, FlatShape, OneRow, RowForWriter, RowOf, UnitsKnown, BeforesKnown, Underway

LEMMA FlatBegins ==
  ASSUME FlatInv, NEW p \in FlatAdmins, NEW b \in FlatBatches,
         BeginResolve(p, b) \/ BeginPreviewFlat(p, b) \/ BeginConfirmFlat(p, b) \/ BeginRemoveBatch(p, b)
  PROVE  FlatInv'
<1>1. \A j, a : IsJob(j) /\ j.at = a /\ a \in Quiet /\ j.batch = b => FlatJobSound(j)
  BY QuietSound
<1>2. CASE BeginResolve(p, b)
  <2>1. PICK j : j = [FlatFree EXCEPT !.at = "resolve", !.batch = b, !.read = batch[b].analysis]
    OBVIOUS
  <2>2. IsJob(j) /\ j.at = "resolve" /\ j.batch = b
    BY <2>1 DEF FlatFree, IsJob
  <2>3. flatAdmin' = [flatAdmin EXCEPT ![p] = j] /\ UNCHANGED <<stock, erased, change, wrote>>
    BY <1>2, <2>1 DEF BeginResolve, MoveFlat
  <2> QED BY <1>1, <2>2, <2>3, FlatMoves DEF Quiet
<1>3. CASE BeginPreviewFlat(p, b)
  <2>1. PICK j : j = [FlatFree EXCEPT !.at = "preview", !.batch = b, !.read = batch[b]]
    OBVIOUS
  <2>2. IsJob(j) /\ j.at = "preview" /\ j.batch = b
    BY <2>1 DEF FlatFree, IsJob
  <2>3. flatAdmin' = [flatAdmin EXCEPT ![p] = j] /\ UNCHANGED <<stock, erased, change, wrote>>
    BY <1>3, <2>1 DEF BeginPreviewFlat, MoveFlat
  <2> QED BY <1>1, <2>2, <2>3, FlatMoves DEF Quiet
<1>4. CASE BeginConfirmFlat(p, b)
  <2>1. PICK j : j = [FlatFree EXCEPT !.at = "importing", !.batch = b, !.read = batch[b]]
    OBVIOUS
  <2>2. IsJob(j) /\ j.at = "importing" /\ j.batch = b
    BY <2>1 DEF FlatFree, IsJob
  <2>3. flatAdmin' = [flatAdmin EXCEPT ![p] = j] /\ UNCHANGED <<stock, erased, change, wrote>>
    BY <1>4, <2>1 DEF BeginConfirmFlat, MoveFlat
  <2> QED BY <1>1, <2>2, <2>3, FlatMoves DEF Quiet
<1>5. CASE BeginRemoveBatch(p, b)
  <2>1. PICK j : j = [FlatFree EXCEPT !.at = "remove", !.batch = b]
    OBVIOUS
  <2>2. IsJob(j) /\ j.at = "remove" /\ j.batch = b
    BY <2>1 DEF FlatFree, IsJob
  <2>3. flatAdmin' = [flatAdmin EXCEPT ![p] = j] /\ UNCHANGED <<stock, erased, change, wrote>>
    BY <1>5, <2>1 DEF BeginRemoveBatch, MoveFlat
  <2> QED BY <1>1, <2>2, <2>3, FlatMoves DEF Quiet
<1> QED BY <1>2, <1>3, <1>4, <1>5

LEMMA FlatGoesOn ==
  ASSUME FlatInv, NEW p \in FlatAdmins,
         \/ Get(p) \/ RepairFlat(p) \/ Resolve(p) \/ ReselectWorkbookTable(p) \/ ResolveRefused(p)
         \/ PreviewFlat(p) \/ Importing(p) \/ ConfirmInvalid(p) \/ ConfirmFlatFails(p)
         \/ RemoveBatchFails(p) \/ CrashFlat(p)
  PROVE  FlatInv'
<1>1. UNCHANGED <<stock, erased, change, wrote>>
  BY DEF Get, RepairFlat, Resolve, ReselectWorkbookTable, ResolveRefused, PreviewFlat, Importing,
         ConfirmInvalid, ConfirmFlatFails, RemoveBatchFails, CrashFlat
<1>2. \/ flatAdmin' = [flatAdmin EXCEPT ![p] = FlatFree]
      \/ /\ flatAdmin[p].at \notin {"free", "delete"}
         /\ \E a \in Quiet \ {"free"} :
              \/ flatAdmin' = [flatAdmin EXCEPT ![p] = [flatAdmin[p] EXCEPT !.at = a]]
              \/ \E x : flatAdmin' = [flatAdmin EXCEPT ![p] = [flatAdmin[p] EXCEPT !.at = a, !.to = x]]
  BY DEF Get, RepairFlat, Resolve, ReselectWorkbookTable, ResolveRefused, PreviewFlat, Importing,
         ConfirmInvalid, ConfirmFlatFails, RemoveBatchFails, CrashFlat, MoveFlat, Quiet
<1>3. CASE flatAdmin' = [flatAdmin EXCEPT ![p] = FlatFree]
  BY <1>1, <1>3, QuietSound, FlatMoves
<1>4. ASSUME flatAdmin[p].at \notin {"free", "delete"}, NEW a \in Quiet \ {"free"},
             flatAdmin' = [flatAdmin EXCEPT ![p] = [flatAdmin[p] EXCEPT !.at = a]]
      PROVE  FlatInv'
  BY <1>1, <1>4, QuietBecomes, FlatMoves
<1>5. ASSUME flatAdmin[p].at \notin {"free", "delete"}, NEW a \in Quiet \ {"free"}, NEW x,
             flatAdmin' = [flatAdmin EXCEPT ![p] = [flatAdmin[p] EXCEPT !.at = a, !.to = x]]
      PROVE  FlatInv'
  BY <1>1, <1>5, QuietBecomes, FlatMoves
<1> QED BY <1>2, <1>3, <1>4, <1>5

LEMMA AnalyzeInv ==
  ASSUME FlatInv, NEW p \in FlatAdmins, NEW b \in FlatBatches, Analyze(p, b)
  PROVE  FlatInv'
<1>1. UNCHANGED <<stock, erased, change, wrote, flatAdmin>>
  BY DEF Analyze
<1>2. flatAdmin' = [flatAdmin EXCEPT ![p] = flatAdmin[p]]
  BY <1>1 DEF FlatInv, FlatShape
<1> QED BY <1>1, <1>2, FlatJobIs, FlatMoves

LEMMA BeginRemoveUnitInv ==
  ASSUME FlatInv, NEW p \in FlatAdmins, NEW u \in Units, BeginRemoveUnit(p, u)
  PROVE  FlatInv'
<1>1. PICK j : j = [FlatFree EXCEPT !.at = "delete", !.read = u, !.to = erased[u]]
  OBVIOUS
<1>2. IsJob(j) /\ j.at = "delete" /\ j.read = u
  BY <1>1 DEF FlatFree, IsJob
<1>3. flatAdmin' = [flatAdmin EXCEPT ![p] = j] /\ UNCHANGED <<stock, erased, change, wrote>>
  BY <1>1 DEF BeginRemoveUnit, MoveFlat
<1>4. FlatJobSound(j)
  BY <1>2 DEF FlatJobSound
<1> QED BY <1>3, <1>4, FlatMoves

LEMMA ReadUnitsInv ==
  ASSUME FlatInv, NEW p \in FlatAdmins, ReadUnits(p)
  PROVE  FlatInv'
<1>1. PICK j : j = [flatAdmin[p] EXCEPT !.at = "commit", !.to = [seen |-> stock, life |-> erased]]
  OBVIOUS
<1>2. IsJob(flatAdmin[p]) /\ flatAdmin[p].batch \in FlatBatches
  BY FlatJobIs DEF FlatJobSound, ReadUnits
<1>3. IsJob(j) /\ j.at = "commit" /\ j.batch = flatAdmin[p].batch /\ j.to.seen = stock /\ j.to.life = erased
  BY <1>1, <1>2 DEF IsJob
<1>4. ReadSound(j.to)
  BY <1>3 DEF ReadSound, FlatInv, FlatShape, UnitsKnown
<1>5. FlatJobSound(j)
  BY <1>2, <1>3, <1>4 DEF FlatJobSound
<1>6. flatAdmin' = [flatAdmin EXCEPT ![p] = j] /\ UNCHANGED <<stock, erased, change, wrote>>
  BY <1>1 DEF ReadUnits, MoveFlat
<1> QED BY <1>5, <1>6, FlatMoves

LEMMA ReadChangesInv ==
  ASSUME FlatInv, NEW p \in FlatAdmins, ReadChanges(p)
  PROVE  FlatInv'
<1>1. PICK rows \in SUBSET {c \in change : c.batch = flatAdmin[p].batch /\ ~c.reverted /\ c.linked} :
        flatAdmin' = [flatAdmin EXCEPT ![p] = [flatAdmin[p] EXCEPT !.at = "revert", !.to = rows]]
  BY DEF ReadChanges, MoveFlat, Conflicting
<1>2. PICK j : j = [flatAdmin[p] EXCEPT !.at = "revert", !.to = rows]
  OBVIOUS
<1>3. IsJob(flatAdmin[p]) /\ flatAdmin[p].batch \in FlatBatches
  BY FlatJobIs DEF FlatJobSound, ReadChanges
<1>4. IsJob(j) /\ j.at = "revert" /\ j.batch = flatAdmin[p].batch /\ j.to = rows
  BY <1>2, <1>3 DEF IsJob
<1>5. FlatJobSound(j)
  BY <1>1, <1>3, <1>4 DEF FlatJobSound, FlatInv, FlatShape
<1>6. UNCHANGED <<stock, erased, change, wrote>>
  BY DEF ReadChanges
<1> QED BY <1>1, <1>2, <1>5, <1>6, FlatMoves

\* What a confirmation writes: units of the schema, by the batch or as they were read.
LEMMA OutcomeUnits ==
  ASSUME NEW p \in FlatAdmins, flatAdmin[p].batch \in FlatBatches, ReadSound(flatAdmin[p].to)
  PROVE  /\ DOMAIN Outcome(p) \subseteq Units
         /\ \A u \in DOMAIN Outcome(p) :
              /\ IsUnit(Outcome(p)[u])
              /\ \/ Outcome(p)[u].by = flatAdmin[p].batch
                 \/ /\ flatAdmin[p].to.seen[u] # Null
                    /\ Outcome(p)[u].by = flatAdmin[p].to.seen[u].by
<1> DEFINE b == flatAdmin[p].batch
           a == flatAdmin[p].read.analysis
           seen == flatAdmin[p].to.seen
           missing == flatAdmin[p].read.missing
<1>1. Taken(b, a) \subseteq Units
  BY FlatConstants DEF Taken
<1>2. DOMAIN Outcome(p) = ToWrite(b, a, seen) \cup Missed(b, a, missing, seen)
  BY DEF Outcome
<1>3. DOMAIN Outcome(p) \subseteq Units
  BY <1>1, <1>2 DEF ToWrite, Missed
<1>4. ASSUME NEW u \in DOMAIN Outcome(p), u \in Taken(b, a)
      PROVE  IsUnit(Outcome(p)[u]) /\ Outcome(p)[u].by = b
  <2>1. Outcome(p)[u] = RowWritten(b, a, u, seen[u])
    BY <1>4 DEF Outcome
  <2> QED BY <2>1 DEF RowWritten, IsUnit
<1>5. ASSUME NEW u \in DOMAIN Outcome(p), u \notin Taken(b, a)
      PROVE  IsUnit(Outcome(p)[u]) /\ seen[u] # Null /\ Outcome(p)[u].by = seen[u].by
  <2>1. Outcome(p)[u] = Withdrawn(missing, seen[u])
    BY <1>5 DEF Outcome
  <2>2. seen[u] # Null /\ u \in Units
    BY <1>5, <1>2, <1>3 DEF ToWrite, Missed
  <2>3. IsUnit(seen[u])
    BY <2>2 DEF ReadSound
  <2> QED BY <2>1, <2>2, <2>3 DEF Withdrawn, IsUnit
<1> QED BY <1>3, <1>4, <1>5

LEMMA CommitInv ==
  ASSUME FlatInv, NEW p \in FlatAdmins, Commit(p)
  PROVE  FlatInv'
<1>1. /\ FlatJobSound(flatAdmin[p]) /\ IsJob(flatAdmin[p]) /\ flatAdmin[p].batch \in FlatBatches
      /\ ReadSound(flatAdmin[p].to)
  BY FlatJobIs DEF FlatJobSound, Commit
<1>2. PICK b, seen, new, W : /\ b = flatAdmin[p].batch /\ seen = flatAdmin[p].to.seen /\ new = Outcome(p)
                             /\ W = DOMAIN Outcome(p)
  OBVIOUS
<1>3. b \in FlatBatches /\ W \subseteq Units /\ FlatShape
  BY <1>1, <1>2, OutcomeUnits, FlatConstants DEF FlatInv
<1>4. /\ stock' = [u \in Units |-> IF u \in W THEN new[u] ELSE stock[u]]
      /\ change' = change \cup {ChangeRow(b, u, seen[u], new[u]) : u \in W}
      /\ wrote' = [u \in Units |-> wrote[u] \cup (IF u \in W THEN {b} ELSE {})]
      /\ erased' = erased
  BY <1>2 DEF Commit
<1>5. \A u \in W : /\ IsUnit(new[u])
                   /\ new[u].by = b \/ (seen[u] # Null /\ new[u].by = seen[u].by)
  BY <1>1, <1>2, OutcomeUnits
<1>6. ASSUME NEW u \in W
      PROVE  /\ ~RowOf(b, u) /\ b \notin wrote[u]
             /\ seen[u] # Null => IsUnit(seen[u]) /\ KnownWriter(seen[u], u) /\ seen[u].by # b
  <2>1. ~Clash(b, u, flatAdmin[p].to) /\ u \in Units
    BY <1>2, <1>3 DEF Commit
  <2>2. ~RowOf(b, u) /\ (seen[u] # Null => erased[u] = flatAdmin[p].to.life[u])
    BY <2>1, <1>2 DEF Clash
  <2>3. b \notin wrote[u]
    BY <2>1, <2>2, <1>3 DEF FlatInv, RowForWriter
  <2>4. seen[u] # Null => IsUnit(seen[u]) /\ KnownWriter(seen[u], u)
    BY <1>1, <1>2, <2>1, <2>2 DEF ReadSound
  <2> QED BY <2>2, <2>3, <2>4, <1>3, FlatConstants DEF KnownWriter
<1>7. \A u \in W : LET c == ChangeRow(b, u, seen[u], new[u])
                   IN  IsChange(c) /\ c.batch = b /\ c.unit = u /\ c.linked /\ c.before = seen[u]
  BY <1>3 DEF ChangeRow, IsChange
<1>8. FlatShape'
  <2>1. stock' = [u \in Units |-> stock'[u]]
    BY <1>4
  <2>2. erased' \in [Units -> Nat] /\ wrote' \in [Units -> SUBSET FlatBatches]
    BY <1>3, <1>4 DEF FlatShape
  <2>3. \A c \in change' : IsChange(c)
    BY <1>3, <1>4, <1>7 DEF FlatShape
  <2>4. flatAdmin' = [q \in FlatAdmins |-> flatAdmin'[q]]
    BY <1>3 DEF Commit, MoveFlat, FlatShape
  <2> QED BY <2>1, <2>2, <2>3, <2>4 DEF FlatShape, IsChange
<1>9. OneRow'
  <2> SUFFICES ASSUME NEW c \in change', NEW d \in change', c.linked, d.linked,
                      c.batch = d.batch, c.unit = d.unit
               PROVE  c = d
    BY DEF OneRow
  <2>1. CASE c \in change /\ d \in change
    BY <2>1 DEF FlatInv, OneRow
  <2>2. ASSUME NEW x \in change, NEW u \in W, x.linked, x.batch = b, x.unit = u
        PROVE  FALSE
    BY <2>2, <1>6 DEF RowOf
  <2> QED BY <1>4, <1>7, <2>1, <2>2
<1>10. RowForWriter'
  <2> SUFFICES ASSUME NEW u \in Units, NEW k \in FlatBatches
               PROVE  k \in wrote'[u] <=> \E c \in change' : c.batch = k /\ c.unit = u /\ c.linked
    BY DEF RowForWriter, RowOf
  <2>1. k \in wrote[u] <=> RowOf(k, u)
    BY DEF FlatInv, RowForWriter
  <2>2. CASE u \in W /\ k = b
    BY <2>2, <1>4, <1>7
  <2>3. CASE ~(u \in W /\ k = b)
    <3>1. k \in wrote'[u] <=> k \in wrote[u]
      BY <2>3, <1>4
    <3>2. \A c \in change' : c.batch = k /\ c.unit = u => c \in change
      BY <2>3, <1>4, <1>7
    <3> QED BY <2>1, <3>1, <3>2, <1>4 DEF RowOf
  <2> QED BY <2>2, <2>3
<1>12. UnitsKnown'
  <2> SUFFICES ASSUME NEW u \in Units, stock'[u] # Null
               PROVE  IsUnit(stock'[u]) /\ (stock'[u].by # Null => stock'[u].by \in wrote'[u])
    BY DEF UnitsKnown, KnownWriter, IsUnit
  <2>1. CASE u \in W
    BY <2>1, <1>4, <1>5, <1>6 DEF KnownWriter
  <2>2. CASE u \notin W
    BY <2>2, <1>4 DEF FlatInv, UnitsKnown, KnownWriter
  <2> QED BY <2>1, <2>2
<1>13. BeforesKnown'
  <2> SUFFICES ASSUME NEW c \in change', c.linked, c.before # Null
               PROVE  /\ IsUnit(c.before) /\ c.before.by # c.batch
                      /\ c.before.by # Null => c.before.by \in wrote'[c.unit]
    BY DEF BeforesKnown, KnownWriter, IsUnit
  <2>1. CASE c \in change
    <3>1. c.unit \in Units
      BY <2>1, <1>3 DEF FlatShape, IsChange
    <3> QED BY <2>1, <3>1, <1>4 DEF FlatInv, BeforesKnown, KnownWriter
  <2>2. CASE c \notin change
    <3>1. PICK u \in W : c = ChangeRow(b, u, seen[u], new[u])
      BY <2>2, <1>4
    <3> QED BY <3>1, <1>3, <1>4, <1>6, <1>7 DEF KnownWriter
  <2> QED BY <2>1, <2>2
<1>14. FlatOnwards
  BY <1>4, <1>3 DEF FlatOnwards, FlatShape
<1>15. FlatJobSound([flatAdmin[p] EXCEPT !.at = "get"])
  BY <1>1, QuietBecomes DEF Commit, Quiet
<1>16. flatAdmin' = [flatAdmin EXCEPT ![p] = [flatAdmin[p] EXCEPT !.at = "get"]]
  BY DEF Commit, MoveFlat
<1> QED BY <1>8, <1>9, <1>10, <1>12, <1>13, <1>14, <1>15, <1>16, FlatWrites

LEMMA EditUnitInv ==
  ASSUME FlatInv, NEW u \in Units, EditUnit(u)
  PROVE  FlatInv'
<1>1. PICK x : /\ x = (IF stock[u] = Null THEN Typed ELSE [stock[u] EXCEPT !.value = "typed"])
               /\ stock' = [stock EXCEPT ![u] = x]
  BY DEF EditUnit
<1>2. IsUnit(x) /\ KnownWriter(x, u)
  <2>1. CASE stock[u] = Null
    BY <1>1, <2>1 DEF KnownWriter, IsUnit, Typed
  <2>2. CASE stock[u] # Null
    <3>1. IsUnit(stock[u]) /\ KnownWriter(stock[u], u)
      BY <2>2 DEF FlatInv, UnitsKnown
    <3>2. x = [stock[u] EXCEPT !.value = "typed"]
      BY <1>1, <2>2
    <3> QED BY <3>1, <3>2 DEF KnownWriter, IsUnit
  <2> QED BY <2>1, <2>2
<1>3. UNCHANGED <<erased, change, wrote, flatAdmin>>
  BY DEF EditUnit
<1>4. FlatShape'
  BY <1>1, <1>3 DEF FlatInv, FlatShape, IsChange
<1>5. OneRow' /\ RowForWriter' /\ BeforesKnown'
  BY <1>3 DEF FlatInv, OneRow, RowForWriter, RowOf, BeforesKnown, KnownWriter, IsUnit
<1>6. UnitsKnown'
  <2> SUFFICES ASSUME NEW v \in Units, stock'[v] # Null
               PROVE  IsUnit(stock'[v]) /\ (stock'[v].by # Null => stock'[v].by \in wrote[v])
    BY <1>3 DEF UnitsKnown, KnownWriter, IsUnit
  <2> QED BY <1>1, <1>2 DEF FlatInv, FlatShape, UnitsKnown, KnownWriter
<1>7. ASSUME NEW k \in Underway'
      PROVE  FlatJobSound(k)'
  <2>1. FlatJobSound(k)
    BY <1>3 DEF Underway, FlatInv
  <2> QED BY <1>3, <1>4, <2>1, FlatJobSoundOn DEF FlatInv, FlatOnwards
<1> QED BY <1>4, <1>5, <1>6, <1>7 DEF FlatInv

\* A unit that is deleted takes no change row along, but leaves them without it.
LEMMA UnlinkedIs ==
  ASSUME NEW c, IsChange(c), NEW gone
  PROVE  /\ IsChange(Unlinked(c, gone))
         /\ Unlinked(c, gone).batch = c.batch /\ Unlinked(c, gone).unit = c.unit
         /\ Unlinked(c, gone).before = c.before
         /\ Unlinked(c, gone).linked <=> c.linked /\ c.unit \notin gone
BY DEF Unlinked, IsChange

LEMMA MarkedIs ==
  ASSUME NEW c, IsChange(c)
  PROVE  /\ IsChange([c EXCEPT !.reverted = TRUE])
         /\ [c EXCEPT !.reverted = TRUE].batch = c.batch
         /\ [c EXCEPT !.reverted = TRUE].unit = c.unit
         /\ [c EXCEPT !.reverted = TRUE].before = c.before
         /\ [c EXCEPT !.reverted = TRUE].linked = c.linked
<1>1. PICK d : d = [c EXCEPT !.reverted = TRUE]
  OBVIOUS
<1>2. d = [batch |-> c.batch, unit |-> c.unit, linked |-> c.linked, reverted |-> TRUE,
           before |-> c.before, after |-> c.after, no |-> c.no]
  BY <1>1 DEF IsChange
<1> QED BY <1>1, <1>2 DEF IsChange

\* What a deletion of units leaves: the rows of other units, the same but for a mark.
LEMMA UnitsGone ==
  ASSUME FlatInv, NEW gone \in SUBSET Units, NEW row,
         \A c \in change : /\ IsChange(row[c]) /\ row[c].batch = c.batch /\ row[c].unit = c.unit
                           /\ row[c].before = c.before
                           /\ row[c].linked <=> c.linked /\ c.unit \notin gone,
         change' = {row[c] : c \in change},
         wrote' = [u \in Units |-> IF u \in gone THEN {} ELSE wrote[u]],
         erased' = [u \in Units |-> IF u \in gone THEN erased[u] + 1 ELSE erased[u]]
  PROVE  /\ OneRow' /\ RowForWriter' /\ BeforesKnown' /\ FlatOnwards
         /\ \A c \in change' : IsChange(c)
         /\ erased' \in [Units -> Nat] /\ wrote' \in [Units -> SUBSET FlatBatches]
<1>1. OneRow'
  <2> SUFFICES ASSUME NEW c \in change, NEW d \in change, row[c].linked, row[d].linked,
                      row[c].batch = row[d].batch, row[c].unit = row[d].unit
               PROVE  row[c] = row[d]
    BY DEF OneRow
  <2>1. c = d
    BY DEF FlatInv, OneRow
  <2> QED BY <2>1
<1>2. RowForWriter'
  <2> SUFFICES ASSUME NEW u \in Units, NEW k \in FlatBatches
               PROVE  k \in wrote'[u] <=> \E c \in change' : c.batch = k /\ c.unit = u /\ c.linked
    BY DEF RowForWriter, RowOf
  <2>1. k \in wrote[u] <=> RowOf(k, u)
    BY DEF FlatInv, RowForWriter
  <2>2. k \in wrote'[u] <=> u \notin gone /\ k \in wrote[u]
    OBVIOUS
  <2>3. (\E c \in change' : c.batch = k /\ c.unit = u /\ c.linked) <=> u \notin gone /\ RowOf(k, u)
    BY DEF RowOf
  <2> QED BY <2>1, <2>2, <2>3
<1>3. BeforesKnown'
  <2> SUFFICES ASSUME NEW c \in change, row[c].linked, c.before # Null
               PROVE  /\ IsUnit(c.before) /\ c.before.by # c.batch
                      /\ c.before.by # Null => c.before.by \in wrote'[c.unit]
    BY DEF BeforesKnown, KnownWriter, IsUnit
  <2>1. c.unit \in Units \ gone /\ c.linked
    BY DEF FlatInv, FlatShape, IsChange
  <2> QED BY <2>1 DEF FlatInv, BeforesKnown, KnownWriter
<1>4. FlatOnwards
  BY DEF FlatOnwards, FlatInv, FlatShape
<1>5. /\ \A c \in change' : IsChange(c)
      /\ erased' \in [Units -> Nat] /\ wrote' \in [Units -> SUBSET FlatBatches]
  BY DEF FlatInv, FlatShape
<1> QED BY <1>1, <1>2, <1>3, <1>4, <1>5

LEMMA RemoveUnitInv ==
  ASSUME FlatInv, NEW p \in FlatAdmins, RemoveUnit(p)
  PROVE  FlatInv'
<1>1. PICK u \in Units : u = flatAdmin[p].read
  BY FlatJobIs DEF FlatJobSound, RemoveUnit
<1>2. flatAdmin' = [flatAdmin EXCEPT ![p] = FlatFree]
  BY DEF RemoveUnit, MoveFlat
<1>3. CASE erased[u] = flatAdmin[p].to
  <2>1. /\ stock' = [stock EXCEPT ![u] = Null]
        /\ erased' = [erased EXCEPT ![u] = erased[u] + 1]
        /\ change' = {Unlinked(c, {u}) : c \in change}
        /\ wrote' = [wrote EXCEPT ![u] = {}]
    BY <1>1, <1>3 DEF RemoveUnit
  <2>2. PICK row : row = [c \in change |-> Unlinked(c, {u})]
    OBVIOUS
  <2>3. \A c \in change : /\ IsChange(row[c]) /\ row[c].batch = c.batch /\ row[c].unit = c.unit
                          /\ row[c].before = c.before
                          /\ row[c].linked <=> c.linked /\ c.unit \notin {u}
    BY <2>2, UnlinkedIs DEF FlatInv, FlatShape
  <2>4. /\ change' = {row[c] : c \in change}
        /\ wrote' = [v \in Units |-> IF v \in {u} THEN {} ELSE wrote[v]]
        /\ erased' = [v \in Units |-> IF v \in {u} THEN erased[v] + 1 ELSE erased[v]]
    BY <2>1, <2>2 DEF FlatInv, FlatShape
  <2>5. /\ OneRow' /\ RowForWriter' /\ BeforesKnown' /\ FlatOnwards
        /\ \A c \in change' : IsChange(c)
        /\ erased' \in [Units -> Nat] /\ wrote' \in [Units -> SUBSET FlatBatches]
    BY <2>3, <2>4, UnitsGone
  <2>6. FlatShape'
    BY <2>1, <2>5, <1>2 DEF FlatInv, FlatShape, IsChange
  <2>7. UnitsKnown'
    <3> SUFFICES ASSUME NEW v \in Units, stock'[v] # Null
                 PROVE  IsUnit(stock'[v]) /\ (stock'[v].by # Null => stock'[v].by \in wrote'[v])
      BY DEF UnitsKnown, KnownWriter, IsUnit
    <3>1. v # u /\ stock'[v] = stock[v] /\ wrote'[v] = wrote[v]
      BY <2>1 DEF FlatInv, FlatShape
    <3> QED BY <3>1 DEF FlatInv, UnitsKnown, KnownWriter
  <2> QED BY <2>5, <2>6, <2>7, <1>2, QuietSound, FlatWrites
<1>4. CASE erased[u] # flatAdmin[p].to
  <2>1. UNCHANGED <<stock, erased, change, wrote>>
    BY <1>1, <1>4 DEF RemoveUnit
  <2> QED BY <2>1, <1>2, QuietSound, FlatMoves
<1> QED BY <1>3, <1>4

LEMMA RemoveBatchInv ==
  ASSUME FlatInv, NEW p \in FlatAdmins, RemoveBatch(p)
  PROVE  FlatInv'
<1>1. PICK b, mine, gone : /\ b = flatAdmin[p].batch /\ mine = flatAdmin[p].to
                           /\ gone = {c.unit : c \in {d \in mine : d.before = Null}}
  OBVIOUS
<1>2. b \in FlatBatches /\ \A c \in mine : IsChange(c) /\ c.batch = b /\ c.linked
  BY <1>1, FlatJobIs DEF FlatJobSound, RemoveBatch
<1>3. /\ stock' = [u \in Units |-> IF \E c \in mine : c.unit = u
                                   THEN (CHOOSE c \in mine : c.unit = u).before ELSE stock[u]]
      /\ change' = {Unlinked(IF c \in mine THEN [c EXCEPT !.reverted = TRUE] ELSE c, gone) : c \in change}
      /\ wrote' = [u \in Units |-> IF u \in gone THEN {} ELSE wrote[u]]
      /\ erased' = [u \in Units |-> IF u \in gone THEN erased[u] + 1 ELSE erased[u]]
      /\ \A c \in mine : Standing(c)
      /\ flatAdmin' = [flatAdmin EXCEPT ![p] = [flatAdmin[p] EXCEPT !.at = "get"]]
  BY <1>1 DEF RemoveBatch, MoveFlat
<1>4. gone \in SUBSET Units
  BY <1>1, <1>2 DEF IsChange
<1>5. ASSUME NEW c \in mine
      PROVE  \E d \in change : d.linked /\ d.batch = b /\ d.unit = c.unit /\ d.before = c.before
  <2>1. PICK d \in change : d.linked /\ d = [c EXCEPT !.reverted = d.reverted]
    BY <1>3 DEF Standing
  <2>2. d = [batch |-> c.batch, unit |-> c.unit, linked |-> c.linked, reverted |-> d.reverted,
             before |-> c.before, after |-> c.after, no |-> c.no]
    BY <2>1, <1>2 DEF IsChange
  <2> QED BY <2>1, <2>2, <1>2
<1>6. \A c, d \in mine : c.unit = d.unit => c.before = d.before
  <2> SUFFICES ASSUME NEW c \in mine, NEW d \in mine, c.unit = d.unit
               PROVE  c.before = d.before
    OBVIOUS
  <2>1. PICK x \in change : x.linked /\ x.batch = b /\ x.unit = c.unit /\ x.before = c.before
    BY <1>5
  <2>2. PICK y \in change : y.linked /\ y.batch = b /\ y.unit = d.unit /\ y.before = d.before
    BY <1>5
  <2>3. x = y
    BY <2>1, <2>2 DEF FlatInv, OneRow
  <2> QED BY <2>1, <2>2, <2>3
<1>7. PICK row : row = [c \in change |->
                          Unlinked(IF c \in mine THEN [c EXCEPT !.reverted = TRUE] ELSE c, gone)]
  OBVIOUS
<1>8. \A c \in change : /\ IsChange(row[c]) /\ row[c].batch = c.batch /\ row[c].unit = c.unit
                        /\ row[c].before = c.before
                        /\ row[c].linked <=> c.linked /\ c.unit \notin gone
  <2> SUFFICES ASSUME NEW c \in change
               PROVE  /\ IsChange(row[c]) /\ row[c].batch = c.batch /\ row[c].unit = c.unit
                      /\ row[c].before = c.before
                      /\ row[c].linked <=> c.linked /\ c.unit \notin gone
    OBVIOUS
  <2>1. PICK d : d = (IF c \in mine THEN [c EXCEPT !.reverted = TRUE] ELSE c)
    OBVIOUS
  <2>2. IsChange(d) /\ d.batch = c.batch /\ d.unit = c.unit /\ d.before = c.before /\ d.linked = c.linked
    BY <2>1, MarkedIs DEF FlatInv, FlatShape
  <2>3. row[c] = Unlinked(d, gone)
    BY <1>7, <2>1
  <2> QED BY <2>2, <2>3, UnlinkedIs
<1>9. change' = {row[c] : c \in change}
  BY <1>3, <1>7
<1>10. /\ OneRow' /\ RowForWriter' /\ BeforesKnown' /\ FlatOnwards
       /\ \A c \in change' : IsChange(c)
       /\ erased' \in [Units -> Nat] /\ wrote' \in [Units -> SUBSET FlatBatches]
  BY <1>3, <1>4, <1>8, <1>9, UnitsGone
<1>11. FlatShape'
  BY <1>3, <1>10 DEF FlatInv, FlatShape, IsChange
<1>12. UnitsKnown'
  <2> SUFFICES ASSUME NEW u \in Units, stock'[u] # Null
               PROVE  IsUnit(stock'[u]) /\ (stock'[u].by # Null => stock'[u].by \in wrote'[u])
    BY DEF UnitsKnown, KnownWriter, IsUnit
  <2>1. CASE \E c \in mine : c.unit = u
    <3>1. PICK c \in mine : c.unit = u /\ stock'[u] = c.before
      BY <2>1, <1>3
    <3>2. PICK d \in change : d.linked /\ d.batch = b /\ d.unit = u /\ d.before = c.before
      BY <3>1, <1>5
    <3>3. IsUnit(c.before) /\ KnownWriter(c.before, u)
      BY <3>1, <3>2 DEF FlatInv, BeforesKnown
    <3>4. u \notin gone
      BY <3>1, <1>1, <1>6
    <3> QED BY <3>1, <3>3, <3>4, <1>3 DEF KnownWriter
  <2>2. CASE ~\E c \in mine : c.unit = u
    <3>1. u \notin gone /\ stock'[u] = stock[u]
      BY <2>2, <1>1, <1>3
    <3> QED BY <3>1, <1>3 DEF FlatInv, UnitsKnown, KnownWriter
  <2> QED BY <2>1, <2>2
<1>13. FlatJobSound([flatAdmin[p] EXCEPT !.at = "get"])
  BY QuietBecomes DEF RemoveBatch, Quiet
<1> QED BY <1>3, <1>10, <1>11, <1>12, <1>13, FlatWrites

LEMMA FlatInvNext == ASSUME FlatInv, [FlatNext]_flatVars PROVE FlatInv'
<1>1. ASSUME NEW u \in Units, EditUnit(u) PROVE FlatInv'
  BY <1>1, EditUnitInv
<1>2. ASSUME NEW p \in FlatAdmins, NEW b \in FlatBatches,
             \/ Analyze(p, b) \/ BeginResolve(p, b) \/ BeginPreviewFlat(p, b)
             \/ BeginConfirmFlat(p, b) \/ BeginRemoveBatch(p, b)
      PROVE  FlatInv'
  BY <1>2, AnalyzeInv, FlatBegins
<1>3. ASSUME NEW p \in FlatAdmins, NEW u \in Units, BeginRemoveUnit(p, u) PROVE FlatInv'
  BY <1>3, BeginRemoveUnitInv
<1>4. ASSUME NEW p \in FlatAdmins,
             \/ Get(p) \/ RepairFlat(p) \/ Resolve(p) \/ ReselectWorkbookTable(p) \/ ResolveRefused(p)
             \/ PreviewFlat(p) \/ Importing(p) \/ ConfirmInvalid(p) \/ ConfirmFlatFails(p)
             \/ RemoveBatchFails(p) \/ CrashFlat(p)
      PROVE  FlatInv'
  BY <1>4, FlatGoesOn
<1>5. ASSUME NEW p \in FlatAdmins, ReadUnits(p) \/ Commit(p) \/ ReadChanges(p) \/ RemoveBatch(p) \/ RemoveUnit(p)
      PROVE  FlatInv'
  BY <1>5, ReadUnitsInv, CommitInv, ReadChangesInv, RemoveBatchInv, RemoveUnitInv
<1>6. ASSUME UNCHANGED flatVars
      PROVE  FlatInv'
  <2>1. UNCHANGED <<stock, erased, change, wrote, flatAdmin>>
    BY <1>6 DEF flatVars
  <2>2. /\ FlatShape' /\ OneRow' /\ RowForWriter' /\ UnitsKnown' /\ BeforesKnown'
    BY <2>1 DEF FlatInv, FlatShape, OneRow, RowForWriter, RowOf, UnitsKnown, KnownWriter, BeforesKnown, IsUnit, IsChange
  <2>3. ASSUME NEW j \in Underway'
        PROVE  FlatJobSound(j)'
    BY <2>1, <2>2, <2>3, FlatJobSoundOn DEF FlatInv, FlatOnwards, Underway
  <2> QED BY <2>2, <2>3 DEF FlatInv
<1> QED BY <1>1, <1>2, <1>3, <1>4, <1>5, <1>6 DEF FlatNext

-----------------------------------------------------------------------------
\* The units and change rows of batches without tables, and what the requests in flight
\* hold of them, agree whatever the requests and admins do.
THEOREM FlatInvariant == FlatSpec => []FlatInv
<1>1. FlatInit => FlatInv
  BY FlatInvInit
<1>2. FlatInv /\ [FlatNext]_flatVars => FlatInv'
  BY FlatInvNext
<1> QED BY <1>1, <1>2, PTL DEF FlatSpec

LEMMA FlatInvTraceable == ASSUME FlatInv PROVE Traceable
<1>1. ASSUME NEW u \in Units, NEW b \in wrote[u]
      PROVE  Cardinality({c \in change : c.batch = b /\ c.unit = u /\ c.linked}) = 1
  <2>1. PICK c \in change : c.batch = b /\ c.unit = u /\ c.linked
    BY <1>1 DEF FlatInv, FlatShape, RowForWriter, RowOf
  <2>2. {d \in change : d.batch = b /\ d.unit = u /\ d.linked} = {c}
    BY <2>1 DEF FlatInv, OneRow
  <2> QED BY <2>2, FS_Singleton
<1>2. NeverItsOwnBefore
  BY DEF FlatInv, BeforesKnown, NeverItsOwnBefore
<1> QED BY <1>1, <1>2 DEF Traceable, Recorded

\* A batch without tables has one change row for every unit it wrote that is still there,
\* and no change row would put back the batch's own work.
THEOREM FlatRowsTraced == FlatSpec => []Traceable
<1>1. FlatInv => Traceable
  BY FlatInvTraceable
<1> QED BY <1>1, FlatInvariant, PTL

\* With stored tables and without: every row an import wrote can be traced to its batch.
THEOREM EveryRowTraced == Spec /\ FlatSpec => []Traced
<1>1. Owned /\ Traceable => Traced
  BY DEF Traced
<1> QED BY <1>1, AppliedRowsOwned, FlatRowsTraced, PTL

-----------------------------------------------------------------------------
(* What a batch without tables, its units and its change rows look like *)

FlatStatuses == Ended \cup {"IMPORTING", "READY", "NEEDS_INPUT"}
FlatBatchRows ==
  [status : FlatStatuses, file : BOOLEAN, tables : BOOLEAN, open : SUBSET Needs,
   preview : {"none", "good", "blocked"}, analysis : Analysis, missing : MissingPolicies]
MayBe == StockRows \cup {Null}

\* What a request holds of a batch that was used.
JobTyped(j) ==
  /\ j.at \notin {"free", "delete"} => j.batch \in FlatBatches /\ batch[j.batch] \in FlatBatchRows
  /\ j.at = "resolve" => j.read \in Analysis
  /\ j.at \in {"preview", "importing", "rows", "commit"} => j.read \in FlatBatchRows
  /\ j.at = "commit" => j.to.seen \in [Units -> MayBe]
  /\ j.at = "repair" => j.to \in FlatStatuses
  /\ j.at = "revert" => \A c \in j.to : c.before \in MayBe

FlatRows ==
  /\ stock \in [Units -> MayBe]
  /\ \A c \in change : c.before \in MayBe
  /\ \A u \in Units : stock[u] = Null => wrote[u] = {}

FlatKept ==
  /\ DOMAIN batch = FlatBatches
  /\ \A b \in FlatBatches : batch[b].status = "unused" \/ batch[b] \in FlatBatchRows
  /\ FlatRows
  /\ \A p \in FlatAdmins : JobTyped(flatAdmin[p])

\* A step of a request writes at most its own batch.
LEMMA FlatStep ==
  ASSUME FlatInv, FlatKept, NEW p \in FlatAdmins, NEW j, flatAdmin' = [flatAdmin EXCEPT ![p] = j],
         batch' = batch \/ \E b \in FlatBatches, row \in FlatBatchRows : batch' = [batch EXCEPT ![b] = row],
         FlatRows', JobTyped(j)'
  PROVE  FlatKept'
<1>1. \A b \in FlatBatches : batch[b] \in FlatBatchRows => batch'[b] \in FlatBatchRows
  BY DEF FlatKept
<1>2. \A k : JobTyped(k) => JobTyped(k)'
  BY <1>1 DEF JobTyped
<1>3. DOMAIN flatAdmin = FlatAdmins
  BY DEF FlatInv, FlatShape
<1>4. \A q \in FlatAdmins : JobTyped(flatAdmin[q])'
  <2> SUFFICES ASSUME NEW q \in FlatAdmins
               PROVE  JobTyped(flatAdmin[q])'
    OBVIOUS
  <2>1. CASE q = p
    BY <1>3, <2>1
  <2>2. CASE q # p
    BY <1>2, <1>3, <2>2 DEF FlatKept
  <2>. QED  BY <2>1, <2>2
<1>5. DOMAIN batch' = FlatBatches /\ \A b \in FlatBatches : batch'[b].status = "unused" \/ batch'[b] \in FlatBatchRows
  BY DEF FlatKept
<1>. QED  BY <1>4, <1>5 DEF FlatKept

LEMMA FlatRowsStay == ASSUME FlatRows, UNCHANGED <<stock, change, wrote>> PROVE FlatRows'
  BY DEF FlatRows

LEMMA JobOf ==
  ASSUME FlatInv, FlatKept, NEW p \in FlatAdmins
  PROVE  /\ IsJob(flatAdmin[p]) /\ JobTyped(flatAdmin[p])
         /\ flatAdmin[p].at \notin {"free", "delete"} =>
              flatAdmin[p].batch \in FlatBatches /\ batch[flatAdmin[p].batch] \in FlatBatchRows
  BY DEF FlatInv, FlatKept, FlatJobSound, Underway, JobTyped

LEMMA FreeTyped == JobTyped(FlatFree) /\ JobTyped(FlatFree)'
  BY DEF FlatFree, JobTyped

LEMMA ColumnsIs ==
  ASSUME NEW a \in Analysis, NEW ids \in SUBSET BOOLEAN, NEW q \in WithColumns(a, ids)
  PROVE  q \in Analysis
BY DEF WithColumns

\* What an answer makes of an analysis is one.
LEMMA AnsweredIs ==
  ASSUME NEW a \in Analysis, NEW field \in Fields, NEW r \in ResolvedAnalysis(a, field)
  PROVE  r \in Analysis
<1>1. a.identity \in BOOLEAN /\ {a.identity, TRUE} \in SUBSET BOOLEAN
  BY DEF Analysis
<1>2. CASE field \in {"workbook:selection", "column"}
  <2> DEFINE t == [a EXCEPT !.table = TRUE]
  <2>1. t \in Analysis
    BY DEF Analysis
  <2>2. ResolvedAnalysis(a, field) = WithColumns(t, {a.identity, TRUE})
    BY <1>2 DEF ResolvedAnalysis
  <2> HIDE DEF t
  <2>. QED  BY <1>1, <2>1, <2>2, ColumnsIs
<1>3. CASE field = "projectId"
  <2> DEFINE W == WithColumns(a, {a.identity, TRUE})
  <2>1. ResolvedAnalysis(a, field) = {[q EXCEPT !.context = @ \cup {"projectId"} \cup x] : q \in W, x \in SUBSET {"locationId"}}
    BY <1>3 DEF ResolvedAnalysis
  <2>2. W \subseteq Analysis
    BY <1>1, ColumnsIs
  <2> HIDE DEF W
  <2>3. PICK q \in W, x \in SUBSET {"locationId"} : r = [q EXCEPT !.context = @ \cup {"projectId"} \cup x]
    BY <2>1
  <2>. QED  BY <2>2, <2>3 DEF Analysis, Context
<1>4. CASE field = "mapping:externalUnitId"
  <2>1. r = [a EXCEPT !.identity = TRUE]
    BY <1>4 DEF ResolvedAnalysis
  <2>. QED  BY <2>1 DEF Analysis
<1>5. CASE field = "currency"
  <2>1. r = [a EXCEPT !.currency = TRUE]
    BY <1>5 DEF ResolvedAnalysis
  <2>. QED  BY <2>1 DEF Analysis
<1>6. CASE field = "locationId"
  <2>1. r = [a EXCEPT !.context = @ \cup {"locationId"}]
    BY <1>6 DEF ResolvedAnalysis
  <2>. QED  BY <2>1 DEF Analysis, Context
<1>7. CASE field = "policy"
  <2>1. PICK x \in RowPolicies : r = [a EXCEPT !.policy = x]
    BY <1>7 DEF ResolvedAnalysis
  <2>. QED  BY <2>1 DEF Analysis
<1>8. CASE field = "missingUnitPolicy"
  BY <1>8 DEF ResolvedAnalysis
<1>. QED  BY <1>2, <1>3, <1>4, <1>5, <1>6, <1>7, <1>8 DEF Fields, Needs, Context

LEMMA AnalyzeKept ==
  ASSUME FlatInv, FlatKept, NEW p \in FlatAdmins, NEW b \in FlatBatches, Analyze(p, b)
  PROVE  FlatKept'
<1>1. PICK a \in Workbooks, stored \in BOOLEAN, x \in MissingPolicies :
        PutFlat(b, [status |-> "FAILED", file |-> stored, tables |-> FALSE, analysis |-> a,
                    open |-> {}, preview |-> "none", missing |-> x])
  BY DEF Analyze
<1> DEFINE row == [status |-> "FAILED", file |-> stored, tables |-> FALSE, analysis |-> a,
                   open |-> {}, preview |-> "none", missing |-> x]
<1>2. row \in FlatBatchRows
  BY FlatData DEF FlatBatchRows, FlatStatuses, Ended
<1>3. batch' = [batch EXCEPT ![b] = row] /\ UNCHANGED <<stock, change, wrote, flatAdmin>>
  BY <1>1 DEF Analyze, PutFlat
<1> HIDE DEF row
<1>4. batch'[b] \in FlatBatchRows /\ DOMAIN batch' = FlatBatches
      /\ \A c \in FlatBatches : c # b => batch'[c] = batch[c]
  BY <1>2, <1>3 DEF FlatKept
<1>5. \A q \in FlatAdmins : JobTyped(flatAdmin[q])'
  BY <1>3, <1>4 DEF FlatKept, JobTyped
<1>6. FlatRows'
  BY <1>3, FlatRowsStay DEF FlatKept
<1>7. \A c \in FlatBatches : batch'[c].status = "unused" \/ batch'[c] \in FlatBatchRows
  BY <1>4 DEF FlatKept
<1>. QED  BY <1>4, <1>5, <1>6, <1>7 DEF FlatKept

LEMMA BeginsKept ==
  ASSUME FlatInv, FlatKept, NEW p \in FlatAdmins, NEW b \in FlatBatches,
         BeginResolve(p, b) \/ BeginPreviewFlat(p, b) \/ BeginConfirmFlat(p, b) \/ BeginRemoveBatch(p, b)
  PROVE  FlatKept'
<1>1. batch[b] \in FlatBatchRows
  BY DEF BeginResolve, BeginPreviewFlat, BeginConfirmFlat, BeginRemoveBatch, Flat, FlatKept
<1>2. PICK at \in {"resolve", "preview", "importing", "remove"} : \E read :
        /\ flatAdmin' = [flatAdmin EXCEPT ![p] = [FlatFree EXCEPT !.at = at, !.batch = b, !.read = read]]
        /\ at = "resolve" => read = batch[b].analysis
        /\ at \in {"preview", "importing"} => read = batch[b]
  <2>1. CASE BeginResolve(p, b)
    BY <2>1 DEF BeginResolve, MoveFlat
  <2>2. CASE BeginPreviewFlat(p, b)
    BY <2>2 DEF BeginPreviewFlat, MoveFlat
  <2>3. CASE BeginConfirmFlat(p, b)
    BY <2>3 DEF BeginConfirmFlat, MoveFlat
  <2>4. CASE BeginRemoveBatch(p, b)
    <3>1. flatAdmin' = [flatAdmin EXCEPT ![p] = [FlatFree EXCEPT !.at = "remove", !.batch = b]]
      BY <2>4 DEF BeginRemoveBatch, MoveFlat
    <3>2. DOMAIN FlatFree = {"at", "batch", "read", "to"} /\ FlatFree.read = Null
      BY DEF FlatFree
    <3>3. [FlatFree EXCEPT !.at = "remove", !.batch = b]
            = [[FlatFree EXCEPT !.at = "remove", !.batch = b] EXCEPT !.read = Null]
      BY <3>2
    <3>. QED  BY <3>1, <3>3
  <2>. QED  BY <2>1, <2>2, <2>3, <2>4
<1>3. PICK read : /\ flatAdmin' = [flatAdmin EXCEPT ![p] = [FlatFree EXCEPT !.at = at, !.batch = b, !.read = read]]
                  /\ at = "resolve" => read = batch[b].analysis
                  /\ at \in {"preview", "importing"} => read = batch[b]
  BY <1>2
<1> DEFINE j == [FlatFree EXCEPT !.at = at, !.batch = b, !.read = read]
<1>4. j.at = at /\ j.batch = b /\ j.read = read
  BY DEF FlatFree
<1>5. UNCHANGED <<batch, stock, change, wrote>>
  BY DEF BeginResolve, BeginPreviewFlat, BeginConfirmFlat, BeginRemoveBatch
<1> HIDE DEF j
<1>6. JobTyped(j)'
  BY <1>1, <1>3, <1>4, <1>5 DEF JobTyped, FlatBatchRows
<1>7. FlatRows'
  BY <1>5, FlatRowsStay DEF FlatKept
<1>. QED  BY <1>3, <1>5, <1>6, <1>7, FlatStep DEF j

\* A request whose batch gets another row, and that goes on or ends.
LEMMA WritesRow ==
  ASSUME FlatInv, FlatKept, NEW p \in FlatAdmins, flatAdmin[p].at \notin {"free", "delete"},
         NEW row \in FlatBatchRows, PutFlat(flatAdmin[p].batch, row), FlatRows',
         NEW j, MoveFlat(p, j), j.at \in {"free", "get", "refresh"}, j.at = "free" \/ j.batch = flatAdmin[p].batch
  PROVE  FlatKept'
<1>1. flatAdmin[p].batch \in FlatBatches /\ batch[flatAdmin[p].batch] \in FlatBatchRows
  BY JobOf
<1>2. batch' = [batch EXCEPT ![flatAdmin[p].batch] = row] /\ flatAdmin' = [flatAdmin EXCEPT ![p] = j]
  BY DEF PutFlat, MoveFlat
<1>3. JobTyped(j)'
  BY <1>1, <1>2 DEF JobTyped, FlatKept
<1>. QED  BY <1>1, <1>2, <1>3, FlatStep

LEMMA GetKept ==
  ASSUME FlatInv, FlatKept, NEW p \in FlatAdmins, Get(p)
  PROVE  FlatKept'
<1> DEFINE j == flatAdmin[p]
           b == j.batch
           row == batch[b]
<1>1. j.at \in {"get", "refresh"} /\ UNCHANGED <<stock, change, wrote>>
  BY DEF Get
<1>2. IsJob(j) /\ b \in FlatBatches /\ row \in FlatBatchRows
  BY <1>1, JobOf
<1>3. FlatRows'
  BY <1>1, FlatRowsStay DEF FlatKept
<1>4. ASSUME NEW s \in {"READY", "NEEDS_INPUT"}, PutFlat(b, [row EXCEPT !.status = s, !.tables = TRUE, !.preview = "none"]),
             MoveFlat(p, FlatFree)
      PROVE  FlatKept'
  <2>1. [row EXCEPT !.status = s, !.tables = TRUE, !.preview = "none"] \in FlatBatchRows
    BY <1>2 DEF FlatBatchRows, FlatStatuses
  <2>2. FlatFree.at = "free"
    BY DEF FlatFree
  <2>. QED  BY <1>1, <1>3, <1>4, <2>1, <2>2, WritesRow
<1>5. ASSUME batch' = batch, MoveFlat(p, FlatFree)
      PROVE  FlatKept'
  BY <1>3, <1>5, FreeTyped, FlatStep DEF MoveFlat
<1>6. ASSUME batch' = batch, MoveFlat(p, [j EXCEPT !.at = "repair", !.to = Derived(row)])
      PROVE  FlatKept'
  <2>0. PICK k : k = [j EXCEPT !.at = "repair", !.to = Derived(row)]
    OBVIOUS
  <2>1. k.at = "repair" /\ k.batch = b /\ k.to = Derived(row)
    BY <1>2, <2>0 DEF IsJob
  <2>2. Derived(row) \in FlatStatuses
    BY <1>2 DEF Derived, FlatStatuses, FlatBatchRows
  <2>3. MoveFlat(p, k)
    BY <1>6, <2>0
  <2>4. JobTyped(k)'
    BY <1>2, <1>6, <2>1, <2>2 DEF JobTyped
  <2>. QED  BY <1>3, <1>6, <2>3, <2>4, FlatStep DEF MoveFlat
<1>. QED  BY <1>4, <1>5, <1>6 DEF Get

LEMMA RepairKept ==
  ASSUME FlatInv, FlatKept, NEW p \in FlatAdmins, RepairFlat(p)
  PROVE  FlatKept'
<1> DEFINE j == flatAdmin[p]
           row == [batch[j.batch] EXCEPT !.status = j.to]
           k == [j EXCEPT !.at = "get"]
<1>1. j.at = "repair" /\ UNCHANGED <<stock, change, wrote>> /\ PutFlat(j.batch, row) /\ MoveFlat(p, k)
  BY DEF RepairFlat
<1>2. IsJob(j) /\ batch[j.batch] \in FlatBatchRows /\ j.to \in FlatStatuses
  BY <1>1, JobOf DEF JobTyped
<1>3. row \in FlatBatchRows
  BY <1>2 DEF FlatBatchRows
<1>4. k.at = "get" /\ k.batch = j.batch
  BY <1>2 DEF IsJob
<1>. QED  BY <1>1, <1>3, <1>4, FlatRowsStay, WritesRow DEF FlatKept

LEMMA ResolveKept ==
  ASSUME FlatInv, FlatKept, NEW p \in FlatAdmins, Resolve(p) \/ ReselectWorkbookTable(p)
  PROVE  FlatKept'
<1> DEFINE j == flatAdmin[p]
           k == [j EXCEPT !.at = "refresh"]
<1>1. j.at = "resolve" /\ UNCHANGED <<stock, change, wrote>> /\ MoveFlat(p, k)
  BY DEF Resolve, ReselectWorkbookTable
<1>2. IsJob(j) /\ batch[j.batch] \in FlatBatchRows /\ j.read \in Analysis
  BY <1>1, JobOf DEF JobTyped
<1>3. k.at = "refresh" /\ k.batch = j.batch
  BY <1>2 DEF IsJob
<1>4. PICK row \in FlatBatchRows : PutFlat(j.batch, row)
  <2>1. CASE Resolve(p)
    <3>1. PICK field \in Fields, x \in MissingPolicies : \E r \in ResolvedAnalysis(j.read, field) :
            PutFlat(j.batch, [batch[j.batch] EXCEPT !.analysis = r, !.open = @ \ Closes(field, r), !.missing = x])
      BY <2>1 DEF Resolve
    <3>2. PICK r \in ResolvedAnalysis(j.read, field) :
            PutFlat(j.batch, [batch[j.batch] EXCEPT !.analysis = r, !.open = @ \ Closes(field, r), !.missing = x])
      BY <3>1
    <3>3. r \in Analysis
      BY <1>2, AnsweredIs
    <3>4. [batch[j.batch] EXCEPT !.analysis = r, !.open = @ \ Closes(field, r), !.missing = x] \in FlatBatchRows
      BY <1>2, <3>3 DEF FlatBatchRows
    <3>. QED  BY <3>2, <3>4
  <2>2. CASE ReselectWorkbookTable(p)
    <3>1. PICK r \in ResolvedAnalysis(j.read, "workbook:selection") : \E open \in NewIssues(r) :
            PutFlat(j.batch, [batch[j.batch] EXCEPT !.analysis = r, !.status = "NEEDS_INPUT", !.open = open])
      BY <2>2 DEF ReselectWorkbookTable
    <3>2. PICK open \in NewIssues(r) :
            PutFlat(j.batch, [batch[j.batch] EXCEPT !.analysis = r, !.status = "NEEDS_INPUT", !.open = open])
      BY <3>1
    <3>3. "workbook:selection" \in Fields
      BY DEF Fields, Needs
    <3>4. r \in Analysis
      BY <1>2, <3>3, AnsweredIs
    <3>5. open \in SUBSET Needs
      BY DEF NewIssues, Needs, Context
    <3>6. [batch[j.batch] EXCEPT !.analysis = r, !.status = "NEEDS_INPUT", !.open = open] \in FlatBatchRows
      BY <1>2, <3>4, <3>5 DEF FlatBatchRows, FlatStatuses
    <3>. QED  BY <3>2, <3>6
  <2>. QED  BY <2>1, <2>2
<1>. QED  BY <1>1, <1>3, <1>4, FlatRowsStay, WritesRow DEF FlatKept

LEMMA PreviewKept ==
  ASSUME FlatInv, FlatKept, NEW p \in FlatAdmins, PreviewFlat(p) \/ ConfirmInvalid(p) \/ ConfirmFlatFails(p)
  PROVE  FlatKept'
<1> DEFINE j == flatAdmin[p]
           k == [j EXCEPT !.at = "get"]
<1>1. j.at \in {"preview", "rows", "commit"} /\ UNCHANGED <<stock, change, wrote>>
  BY DEF PreviewFlat, ConfirmInvalid, ConfirmFlatFails
<1>2. IsJob(j) /\ batch[j.batch] \in FlatBatchRows
  BY <1>1, JobOf
<1>3. k.at = "get" /\ k.batch = j.batch /\ FlatFree.at = "free"
  BY <1>2 DEF IsJob, FlatFree
<1>4. FlatRows'
  BY <1>1, FlatRowsStay DEF FlatKept
<1>5. CASE PreviewFlat(p)
  <2> DEFINE valid == AnalysisValid(j.read.analysis)
             row == [batch[j.batch] EXCEPT !.preview = IF valid THEN "good" ELSE "blocked",
                                           !.status = IF valid THEN "READY" ELSE "NEEDS_INPUT"]
  <2>1. PutFlat(j.batch, row) /\ MoveFlat(p, k)
    BY <1>5 DEF PreviewFlat
  <2> HIDE DEF valid
  <2>2. row \in FlatBatchRows
    BY <1>2 DEF FlatBatchRows, FlatStatuses
  <2> HIDE DEF row, k
  <2>. QED  BY <1>1, <1>3, <1>4, <2>1, <2>2, WritesRow
<1>6. CASE ConfirmInvalid(p) \/ ConfirmFlatFails(p)
  <2>1. PICK s \in {"NEEDS_INPUT", "FAILED"} : PutFlat(j.batch, [batch[j.batch] EXCEPT !.status = s]) /\ MoveFlat(p, FlatFree)
    BY <1>6 DEF ConfirmInvalid, ConfirmFlatFails
  <2>2. [batch[j.batch] EXCEPT !.status = s] \in FlatBatchRows
    BY <1>2 DEF FlatBatchRows, FlatStatuses, Ended
  <2>. QED  BY <1>1, <1>3, <1>4, <2>1, <2>2, WritesRow
<1>. QED  BY <1>5, <1>6

LEMMA ImportingKept ==
  ASSUME FlatInv, FlatKept, NEW p \in FlatAdmins, Importing(p)
  PROVE  FlatKept'
<1> DEFINE j == flatAdmin[p]
           row == [batch[j.batch] EXCEPT !.status = "IMPORTING"]
<1>0. PICK k : k = [j EXCEPT !.at = "rows"]
  OBVIOUS
<1>1. /\ j.at = "importing" /\ UNCHANGED <<stock, change, wrote>>
      /\ batch' = [batch EXCEPT ![j.batch] = row] /\ flatAdmin' = [flatAdmin EXCEPT ![p] = k]
  BY <1>0 DEF Importing, PutFlat, MoveFlat
<1>2. IsJob(j) /\ j.batch \in FlatBatches /\ batch[j.batch] \in FlatBatchRows /\ j.read \in FlatBatchRows
  BY <1>1, JobOf DEF JobTyped
<1>3. row \in FlatBatchRows
  BY <1>2 DEF FlatBatchRows, FlatStatuses
<1>4. k.at = "rows" /\ k.batch = j.batch /\ k.read = j.read
  BY <1>0, <1>2 DEF IsJob
<1> HIDE DEF row
<1>5. JobTyped(k)'
  BY <1>1, <1>2, <1>3, <1>4 DEF JobTyped, FlatKept
<1>6. FlatRows'
  BY <1>1, FlatRowsStay DEF FlatKept
<1>. QED  BY <1>1, <1>2, <1>3, <1>5, <1>6, FlatStep

\* What a transaction reads: the units, or the change rows to revert.
LEMMA ReadsKept ==
  ASSUME FlatInv, FlatKept, NEW p \in FlatAdmins, ReadUnits(p) \/ ReadChanges(p)
  PROVE  FlatKept'
<1> DEFINE j == flatAdmin[p]
<1>1. j.at \in {"rows", "remove"} /\ UNCHANGED <<batch, stock, change, wrote>>
  BY DEF ReadUnits, ReadChanges
<1>2. IsJob(j) /\ JobTyped(j) /\ j.batch \in FlatBatches /\ batch[j.batch] \in FlatBatchRows
  BY <1>1, JobOf
<1>3. FlatRows'
  BY <1>1, FlatRowsStay DEF FlatKept
<1>4. CASE ReadUnits(p)
  <2>0. PICK k : k = [j EXCEPT !.at = "commit", !.to = [seen |-> stock, life |-> erased]]
    OBVIOUS
  <2>1. flatAdmin' = [flatAdmin EXCEPT ![p] = k] /\ j.at = "rows"
    BY <1>4, <2>0 DEF ReadUnits, MoveFlat
  <2>2. k.at = "commit" /\ k.batch = j.batch /\ k.read = j.read /\ k.to.seen = stock
    BY <1>2, <2>0 DEF IsJob
  <2>3. JobTyped(k)'
    BY <1>1, <1>2, <2>1, <2>2 DEF JobTyped, FlatKept, FlatRows
  <2>. QED  BY <1>1, <1>3, <2>1, <2>3, FlatStep
<1>5. CASE ReadChanges(p)
  <2>1. PICK to \in SUBSET change : flatAdmin' = [flatAdmin EXCEPT ![p] = [j EXCEPT !.at = "revert", !.to = to]]
    <3> DEFINE mine == {c \in change : c.batch = j.batch /\ ~c.reverted /\ ~Conflicting(c)}
               created == {c \in mine : c.before = Null}
    <3>1. PICK mode \in {"ROLLBACK_SAFE", "DELETE_EXCLUSIVE_RECORDS"}, withMedia \in SUBSET created :
            MoveFlat(p, [j EXCEPT !.at = "revert",
                          !.to = (IF mode = "ROLLBACK_SAFE" THEN mine ELSE created) \ withMedia])
      BY <1>5 DEF ReadChanges
    <3> DEFINE to == (IF mode = "ROLLBACK_SAFE" THEN mine ELSE created) \ withMedia
    <3>2. to \in SUBSET change
      OBVIOUS
    <3>3. flatAdmin' = [flatAdmin EXCEPT ![p] = [j EXCEPT !.at = "revert", !.to = to]]
      BY <3>1 DEF MoveFlat
    <3> HIDE DEF to
    <3>. QED  BY <3>2, <3>3
  <2>0. PICK k : k = [j EXCEPT !.at = "revert", !.to = to]
    OBVIOUS
  <2>2. k.at = "revert" /\ k.batch = j.batch /\ k.to = to
    BY <1>2, <2>0 DEF IsJob
  <2>3. flatAdmin' = [flatAdmin EXCEPT ![p] = k]
    BY <2>0, <2>1
  <2>4. JobTyped(k)'
    BY <1>1, <1>2, <2>2 DEF JobTyped, FlatKept, FlatRows
  <2>. QED  BY <1>1, <1>3, <2>3, <2>4, FlatStep
<1>. QED  BY <1>4, <1>5

LEMMA OutcomeIs ==
  ASSUME FlatInv, FlatKept, NEW p \in FlatAdmins, flatAdmin[p].at = "commit", NEW u \in DOMAIN Outcome(p)
  PROVE  Outcome(p)[u] \in StockRows
<1> DEFINE j == flatAdmin[p]
           b == j.batch
           a == j.read.analysis
           seen == j.to.seen
           missing == j.read.missing
<1>1. b \in FlatBatches /\ a \in Analysis /\ seen \in [Units -> MayBe] /\ Units = Units
  BY JobOf DEF JobTyped, FlatBatchRows
<1>2. /\ DOMAIN Outcome(p) = ToWrite(b, a, seen) \cup Missed(b, a, missing, seen)
      /\ Outcome(p)[u] = IF u \in Taken(b, a) THEN RowWritten(b, a, u, seen[u]) ELSE Withdrawn(missing, seen[u])
  BY DEF Outcome
<1> HIDE DEF b, a, seen, missing
<1>3. CASE u \in Taken(b, a)
  <2>1. u \in Units
    BY <1>1, <1>3, FlatConstants DEF Taken
  <2>2. seen[u] = Null \/ seen[u] \in StockRows
    BY <1>1, <2>1 DEF MayBe
  <2>3. RowWritten(b, a, u, seen[u]) \in StockRows
    BY <1>1, <2>2 DEF RowWritten, StockRows, Analysis
  <2>. QED  BY <1>2, <1>3, <2>3
<1>4. CASE u \notin Taken(b, a)
  <2>1. u \in Missed(b, a, missing, seen)
    BY <1>2, <1>4 DEF ToWrite
  <2>2. u \in Units /\ seen[u] # Null
    BY <2>1 DEF Missed
  <2>3. seen[u] \in StockRows
    BY <1>1, <2>2 DEF MayBe
  <2>4. Withdrawn(missing, seen[u]) \in StockRows
    BY <2>3 DEF Withdrawn, StockRows
  <2>. QED  BY <1>2, <1>4, <2>4
<1>. QED  BY <1>3, <1>4

LEMMA CommitKept ==
  ASSUME FlatInv, FlatKept, NEW p \in FlatAdmins, Commit(p)
  PROVE  FlatKept'
<1> DEFINE j == flatAdmin[p]
           b == j.batch
           seen == j.to.seen
           new == Outcome(p)
           row == [batch[b] EXCEPT !.status = "COMPLETED"]
           k == [j EXCEPT !.at = "get"]
<1>1. /\ j.at = "commit" /\ PutFlat(b, row) /\ MoveFlat(p, k)
      /\ stock' = [u \in Units |-> IF u \in DOMAIN new THEN new[u] ELSE stock[u]]
      /\ change' = change \cup {ChangeRow(b, u, seen[u], new[u]) : u \in DOMAIN new}
      /\ wrote' = [u \in Units |-> wrote[u] \cup (IF u \in DOMAIN new THEN {b} ELSE {})]
  BY DEF Commit
<1>2. IsJob(j) /\ batch[b] \in FlatBatchRows /\ seen \in [Units -> MayBe]
  BY <1>1, JobOf DEF JobTyped
<1>3. row \in FlatBatchRows
  BY <1>2 DEF FlatBatchRows, FlatStatuses, Ended
<1>4. k.at = "get" /\ k.batch = b
  BY <1>2 DEF IsJob
<1>5. \A u \in DOMAIN new : new[u] \in StockRows /\ u \in Units
  <2>1. \A u \in DOMAIN new : new[u] \in StockRows
    BY <1>1, OutcomeIs
  <2>2. b \in FlatBatches
    BY <1>1, JobOf
  <2>3. DOMAIN new \subseteq Units
    BY <2>2, FlatConstants DEF Outcome, ToWrite, Missed, Taken
  <2>. QED  BY <2>1, <2>3
<1> HIDE DEF row, k, new, seen, b
<1>6. FlatRows'
  <2>1. stock' \in [Units -> MayBe]
    BY <1>1, <1>5 DEF FlatKept, FlatRows, MayBe
  <2>2. \A u \in DOMAIN new : ChangeRow(b, u, seen[u], new[u]).before \in MayBe
    BY <1>2, <1>5 DEF ChangeRow
  <2>3. \A c \in change' : c.before \in MayBe
    BY <1>1, <2>2 DEF FlatKept, FlatRows
  <2>4. \A u \in Units : stock'[u] = Null => wrote'[u] = {}
    BY <1>1, <1>5, FlatData DEF FlatKept, FlatRows
  <2>. QED  BY <2>1, <2>3, <2>4 DEF FlatRows
<1>. QED  BY <1>1, <1>3, <1>4, <1>6, WritesRow DEF b

LEMMA RemoveBatchKept ==
  ASSUME FlatInv, FlatKept, NEW p \in FlatAdmins, RemoveBatch(p)
  PROVE  FlatKept'
<1> DEFINE j == flatAdmin[p]
           b == j.batch
           mine == j.to
           gone == {c.unit : c \in {d \in mine : d.before = Null}}
           row == [batch[b] EXCEPT !.status = "ROLLED_BACK"]
           k == [j EXCEPT !.at = "get"]
<1>1. /\ j.at = "revert" /\ PutFlat(b, row) /\ MoveFlat(p, k)
      /\ stock' = [u \in Units |-> IF \E c \in mine : c.unit = u
                                   THEN (CHOOSE c \in mine : c.unit = u).before ELSE stock[u]]
      /\ change' = {Unlinked(IF c \in mine THEN [c EXCEPT !.reverted = TRUE] ELSE c, gone) : c \in change}
      /\ wrote' = [u \in Units |-> IF u \in gone THEN {} ELSE wrote[u]]
  BY DEF RemoveBatch
<1>2. IsJob(j) /\ batch[b] \in FlatBatchRows /\ \A c \in mine : c.before \in MayBe
  BY <1>1, JobOf DEF JobTyped
<1>3. row \in FlatBatchRows
  BY <1>2 DEF FlatBatchRows, FlatStatuses, Ended
<1>4. k.at = "get" /\ k.batch = b
  BY <1>2 DEF IsJob
<1>5. \A u \in Units : \/ \E c \in mine : c.unit = u /\ stock'[u] = c.before
                       \/ stock'[u] = stock[u]
  <2> SUFFICES ASSUME NEW u \in Units, \E c \in mine : c.unit = u
               PROVE  \E c \in mine : c.unit = u /\ stock'[u] = c.before
    BY <1>1
  <2> DEFINE d == CHOOSE c \in mine : c.unit = u
  <2>1. d \in mine /\ d.unit = u
    OBVIOUS
  <2>2. stock'[u] = d.before
    BY <1>1
  <2> HIDE DEF d
  <2>. QED  BY <2>1, <2>2
<1>6. \A c \in change : Unlinked(IF c \in mine THEN [c EXCEPT !.reverted = TRUE] ELSE c, gone).before \in MayBe
  <2> SUFFICES ASSUME NEW c \in change
               PROVE  Unlinked(IF c \in mine THEN [c EXCEPT !.reverted = TRUE] ELSE c, gone).before = c.before
    BY DEF FlatKept, FlatRows
  <2>1. IsChange(c)
    BY DEF FlatInv, FlatShape
  <2> DEFINE d == IF c \in mine THEN [c EXCEPT !.reverted = TRUE] ELSE c
  <2>2. IsChange(d) /\ d.before = c.before
    BY <2>1 DEF IsChange
  <2> HIDE DEF d, gone
  <2>3. Unlinked(d, gone).before = d.before
    BY <2>2 DEF Unlinked, IsChange
  <2>. QED  BY <2>2, <2>3 DEF d
<1>7. \A u \in Units : (\E c \in mine : c.unit = u /\ c.before = Null) => wrote'[u] = {}
  BY <1>1
<1>8. \A u \in Units : wrote'[u] = {} \/ wrote'[u] = wrote[u]
  BY <1>1
<1> DEFINE put(c) == Unlinked(IF c \in mine THEN [c EXCEPT !.reverted = TRUE] ELSE c, gone)
<1>9. change' = {put(c) : c \in change} /\ \A c \in change : put(c).before \in MayBe
  BY <1>1, <1>6
<1>10. DOMAIN stock' = Units /\ stock' = [u \in Units |-> stock'[u]]
  BY <1>1
<1> HIDE DEF row, k, mine, gone, b, put
<1>11. FlatRows'
  <2>1. \A u \in Units : stock'[u] \in MayBe
    BY <1>2, <1>5 DEF FlatKept, FlatRows
  <2>2. stock' \in [Units -> MayBe]
    BY <1>10, <2>1
  <2>3. \A c \in change' : c.before \in MayBe
    BY <1>9
  <2>4. \A u \in Units : stock'[u] = Null => wrote'[u] = {}
    BY <1>5, <1>7, <1>8 DEF FlatKept, FlatRows
  <2>. QED  BY <2>2, <2>3, <2>4 DEF FlatRows
<1>. QED  BY <1>1, <1>3, <1>4, <1>11, WritesRow DEF b

LEMMA UnitsKept ==
  ASSUME FlatInv, FlatKept, NEW p \in FlatAdmins,
         RemoveUnit(p) \/ (\E u \in Units : BeginRemoveUnit(p, u))
  PROVE  FlatKept'
<1>1. CASE RemoveUnit(p)
  <2> DEFINE u == flatAdmin[p].read
  <2>1. /\ batch' = batch /\ flatAdmin' = [flatAdmin EXCEPT ![p] = FlatFree]
        /\ \/ UNCHANGED <<stock, change, wrote>>
           \/ /\ stock' = [stock EXCEPT ![u] = Null] /\ wrote' = [wrote EXCEPT ![u] = {}]
              /\ change' = {Unlinked(c, {u}) : c \in change}
    BY <1>1 DEF RemoveUnit, MoveFlat
  <2>2. \A c \in change : Unlinked(c, {u}).before \in MayBe
    <3> SUFFICES ASSUME NEW c \in change
                 PROVE  Unlinked(c, {u}).before = c.before
      BY DEF FlatKept, FlatRows
    <3>1. IsChange(c)
      BY DEF FlatInv, FlatShape
    <3>. QED  BY <3>1 DEF Unlinked, IsChange
  <2> HIDE DEF u
  <2>3. FlatRows'
    <3>1. CASE UNCHANGED <<stock, change, wrote>>
      BY <3>1, FlatRowsStay DEF FlatKept
    <3>2. CASE /\ stock' = [stock EXCEPT ![u] = Null] /\ wrote' = [wrote EXCEPT ![u] = {}]
               /\ change' = {Unlinked(c, {u}) : c \in change}
      <4>1. stock' \in [Units -> MayBe]
        BY <3>2 DEF FlatKept, FlatRows, MayBe
      <4>2. \A v \in Units : stock'[v] = Null => wrote'[v] = {}
        <5>1. DOMAIN stock = Units /\ DOMAIN wrote = Units
          BY DEF FlatKept, FlatRows, FlatInv, FlatShape
        <5>. QED  BY <3>2, <5>1 DEF FlatKept, FlatRows
      <4>3. \A c \in change' : c.before \in MayBe
        BY <2>2, <3>2
      <4>. QED  BY <4>1, <4>2, <4>3 DEF FlatRows
    <3>. QED  BY <2>1, <3>1, <3>2
  <2>. QED  BY <2>1, <2>3, FreeTyped, FlatStep
<1>2. CASE \E u \in Units : BeginRemoveUnit(p, u)
  <2>0. PICK u \in Units : BeginRemoveUnit(p, u)
    BY <1>2
  <2>1. PICK j : flatAdmin' = [flatAdmin EXCEPT ![p] = j] /\ j.at = "delete"
    <3>1. PICK j : j = [FlatFree EXCEPT !.at = "delete", !.read = u, !.to = erased[u]]
      OBVIOUS
    <3>2. j.at = "delete"
      BY <3>1 DEF FlatFree
    <3>3. flatAdmin' = [flatAdmin EXCEPT ![p] = j]
      BY <2>0, <3>1 DEF BeginRemoveUnit, MoveFlat
    <3>. QED  BY <3>2, <3>3
  <2>2. UNCHANGED <<batch, stock, change, wrote>>
    BY <1>2 DEF BeginRemoveUnit
  <2>3. JobTyped(j)' /\ FlatRows'
    BY <2>1, <2>2, FlatRowsStay DEF JobTyped, FlatKept
  <2>. QED  BY <2>1, <2>2, <2>3, FlatStep
<1>. QED  BY <1>1, <1>2

LEMMA EditKept ==
  ASSUME FlatInv, FlatKept, NEW u \in Units, EditUnit(u)
  PROVE  FlatKept'
<1>1. /\ stock' = [stock EXCEPT ![u] = IF @ = Null THEN Typed ELSE [@ EXCEPT !.value = "typed"]]
      /\ UNCHANGED <<batch, change, flatAdmin, wrote>>
  BY DEF EditUnit
<1> DEFINE x == IF stock[u] = Null THEN Typed ELSE [stock[u] EXCEPT !.value = "typed"]
<1>2. x \in StockRows
  BY DEF FlatKept, FlatRows, MayBe, StockRows, Typed
<1>3. stock' = [stock EXCEPT ![u] = x]
  BY <1>1
<1> HIDE DEF x
<1>4. FlatRows'
  BY <1>1, <1>2, <1>3, FlatData DEF FlatKept, FlatRows, MayBe
<1>5. \A p \in FlatAdmins : JobTyped(flatAdmin[p])'
  BY <1>1 DEF FlatKept, JobTyped
<1>. QED  BY <1>1, <1>4, <1>5 DEF FlatKept

\* A request is refused, fails or is lost.
LEMMA EndsKept ==
  ASSUME FlatInv, FlatKept, NEW p \in FlatAdmins, ResolveRefused(p) \/ RemoveBatchFails(p) \/ CrashFlat(p)
  PROVE  FlatKept'
<1>1. flatAdmin' = [flatAdmin EXCEPT ![p] = FlatFree] /\ UNCHANGED <<batch, stock, change, wrote>>
  BY DEF ResolveRefused, RemoveBatchFails, CrashFlat, MoveFlat
<1>. QED  BY <1>1, FreeTyped, FlatRowsStay, FlatStep DEF FlatKept

LEMMA FlatKeptNext == FlatInv /\ FlatKept /\ [FlatNext]_flatVars => FlatKept'
<1> SUFFICES ASSUME FlatInv, FlatKept, [FlatNext]_flatVars
             PROVE  FlatKept'
  OBVIOUS
<1>1. CASE UNCHANGED flatVars
  BY <1>1 DEF flatVars, FlatKept, FlatRows, JobTyped
<1>2. CASE FlatNext
  BY <1>2, EditKept, AnalyzeKept, BeginsKept, UnitsKept, GetKept, RepairKept, ResolveKept, PreviewKept,
     ImportingKept, ReadsKept, CommitKept, RemoveBatchKept, EndsKept DEF FlatNext
<1>. QED  BY <1>1, <1>2

LEMMA FlatKeptInit == FlatInit => FlatKept
<1> SUFFICES ASSUME FlatInit
             PROVE  FlatKept
  OBVIOUS
<1>1. FlatRows
  BY DEF FlatInit, FlatRows, MayBe
<1>. QED  BY <1>1, FreeTyped DEF FlatInit, FlatKept

\* A batch without tables keeps its form, and no unit that is gone counts as written.
THEOREM FlatKeepsForm == FlatSpec => []FlatTyped
<1>1. FlatInv /\ FlatKept => FlatTyped
  BY DEF FlatInv, FlatShape, FlatKept, FlatRows, FlatBatchRows, FlatStatuses, FlatTyped
<1>. QED  BY <1>1, FlatInvInit, FlatInvNext, FlatKeptInit, FlatKeptNext, PTL DEF FlatSpec

-----------------------------------------------------------------------------
(* The phases of batches with tables: the inductive invariant *)

Sheets == [version : Nat, previewed : Nat, groups : [Words -> Phases \cup {None}],
           default : Phases \cup {None}, open : BOOLEAN, preview : {"none", "ok", "bad"}, done : BOOLEAN]
Maps == [at : {"map", "issues"}, about : Batches, word : Words, phase : Phases, row : Sheets]
Reads == [at : {"preview", "confirm"}, about : Batches, word : {None}, phase : {None}, row : Sheets]
VerdictJobs == [at : {"verdict"}, about : Batches, word : {"ok", "bad"}, phase : {None}, row : {None}]
Deletions == [at : {"delete"}, about : {None}, word : {None}, phase : Phases, row : {None}]
PhaseJobs == {Free} \cup Maps \cup Reads \cup VerdictJobs \cup Deletions
Placings == [batch : Batches, version : Nat, phase : Phases \cup {None}, drifted : BOOLEAN]

PhaseShape ==
  /\ sheet \in [Batches -> Sheets]
  /\ name \in [Phases -> Words \cup {Unborn, Gone, None}]
  /\ alias \in [Words -> Phases \cup {None}]
  /\ placed \in [Listed -> Placings \cup {None}]
  /\ admin \in [Admins -> PhaseJobs]

Born(h) == name[h] # Unborn

\* A row of batch b as it is, or as a request read it some time ago.
RowSound(b, r) ==
  /\ r.version \in 1..sheet[b].version
  /\ r.default = Default[b] \/ (r.default = None /\ name[Default[b]] = Gone)
  /\ \A w \in Words : r.groups[w] # None => Born(r.groups[w])

\* What a row gives the units now was shown for its version, or the project changed since.
Shown(b, r) ==
  \/ b \notin Mixed /\ [batch |-> b, version |-> r.version] \in drift
  \/ \A u \in Listed, h \in Phases :
       h \in Resolved(b, r, PhaseWord[b][u]) /\ Live(h) =>
         [batch |-> b, version |-> r.version, unit |-> u, phase |-> h] \in shown

SheetSound(b, r) == RowSound(b, r) /\ (r.previewed = r.version => Shown(b, r))

\* The groups of a sheet change with its version only.
SameGroups(b, r) == r.version = sheet[b].version => r.groups = sheet[b].groups

PhaseJobSound(j) ==
  /\ j.at \in {"map", "preview", "confirm"} => RowSound(j.about, j.row)
  /\ j.at = "map" => Born(j.phase)
  /\ j.at = "preview" => SameGroups(j.about, j.row)
  /\ j.at = "confirm" => Shown(j.about, j.row)

\* Aliases and units are of phases that exist.
PhasesRefer ==
  /\ \A w \in Words : alias[w] # None => Live(alias[w])
  /\ \A u \in Listed : placed[u] # None /\ placed[u].phase # None => Live(placed[u].phase)

PhaseInv ==
  /\ PhaseShape /\ PhasesRefer /\ PlacedAsPreviewed
  /\ \A b \in Batches, r \in Sheets : r = sheet[b] => SheetSound(b, r)
  /\ \A p \in Admins, j \in PhaseJobs : j = admin[p] => PhaseJobSound(j)

-----------------------------------------------------------------------------
(* What every step does *)

Onwards ==
  /\ shown \subseteq shown'
  /\ \A b \in Batches : /\ sheet[b].version <= sheet'[b].version
                        /\ sheet[b].version = sheet'[b].version => sheet[b].groups = sheet'[b].groups
  /\ \A h \in Phases : /\ Born(h) => Born(h)'
                       /\ name[h] = Gone => name'[h] = Gone

ShownStays ==
  \A b \in Batches, r \in Sheets : RowSound(b, r) /\ Shown(b, r) => Shown(b, r)'

LEMMA RowSoundOn ==
  ASSUME PhaseShape, PhaseShape', Onwards
  PROVE  \A b \in Batches, r \in Sheets : RowSound(b, r) => RowSound(b, r)'
<1> SUFFICES ASSUME NEW b \in Batches, NEW r \in Sheets, RowSound(b, r)
             PROVE  RowSound(b, r)'
  OBVIOUS
<1>1. sheet[b].version \in Nat /\ sheet'[b].version \in Nat
  BY DEF PhaseShape, Sheets
<1>2. (r.version \in 1..sheet[b].version)'
  BY <1>1 DEF RowSound, Onwards, Sheets
<1>3. (r.default = Default[b] \/ (r.default = None /\ name[Default[b]] = Gone))'
  BY PhaseConstants DEF RowSound, Onwards
<1>4. ASSUME NEW w \in Words, r.groups[w] # None
      PROVE  Born(r.groups[w])'
  BY <1>4 DEF RowSound, Onwards, Sheets
<1> QED BY <1>2, <1>3, <1>4 DEF RowSound

\* For a table of several projects nothing that was shown is ever resolved otherwise.
LEMMA MixedStays ==
  ASSUME PhaseShape, PhaseShape', Onwards
  PROVE  \A b \in Mixed, r \in Sheets : RowSound(b, r) /\ Shown(b, r) => Shown(b, r)'
<1> SUFFICES ASSUME NEW b \in Mixed, NEW r \in Sheets, RowSound(b, r), Shown(b, r),
                    NEW u \in Listed, NEW h \in Phases,
                    h \in Resolved(b, r, PhaseWord[b][u])', Live(h)'
             PROVE  [batch |-> b, version |-> r.version, unit |-> u, phase |-> h] \in shown'
  BY DEF Shown
<1>1. /\ PhaseWord[b][u] # Empty /\ PhaseWord[b][u] \in Words
      /\ h = r.groups[PhaseWord[b][u]] /\ h # None
  BY PhaseConstants DEF Resolved, Grouped
<1>2. Live(h)
  BY <1>1 DEF Live, RowSound, Onwards, Born
<1>3. h \in Resolved(b, r, PhaseWord[b][u])
  BY <1>1, <1>2 DEF Resolved, Grouped
<1> QED BY <1>2, <1>3 DEF Shown, Onwards

\* A step that changes no phase and no alias, or that marks every version so far.
LEMMA ShownOn ==
  ASSUME PhaseShape, PhaseShape', Onwards,
         UNCHANGED <<name, alias, drift>> \/ drift' = Drifted
  PROVE  ShownStays
<1> SUFFICES ASSUME NEW b \in Batches, NEW r \in Sheets, RowSound(b, r), Shown(b, r), b \notin Mixed
             PROVE  Shown(b, r)'
  BY MixedStays DEF ShownStays
<1>1. CASE UNCHANGED <<name, alias, drift>>
  BY <1>1 DEF Shown, Resolved, Structured, Live, Onwards
<1>2. CASE drift' = Drifted
  BY <1>2 DEF Shown, Drifted, RowSound
<1> QED BY <1>1, <1>2

\* The fields of a row that say where its units go.
AlikeRows(r, s) == r.version = s.version /\ r.default = s.default /\ r.groups = s.groups

LEMMA AlikeSound ==
  ASSUME NEW b, NEW r, NEW s, AlikeRows(r, s)
  PROVE  /\ RowSound(b, r) => RowSound(b, s)
         /\ Shown(b, r) => Shown(b, s)
BY DEF AlikeRows, RowSound, Shown, Resolved, Grouped, Structured

\* A job that no step is about.
LEMMA JobSoundOn ==
  ASSUME PhaseShape, PhaseShape', Onwards, ShownStays
  PROVE  \A j \in PhaseJobs : PhaseJobSound(j) => PhaseJobSound(j)'
<1> SUFFICES ASSUME NEW j \in PhaseJobs, PhaseJobSound(j)
             PROVE  PhaseJobSound(j)'
  OBVIOUS
<1>1. j.at \in {"map", "preview", "confirm"} => j.about \in Batches /\ j.row \in Sheets
  BY DEF PhaseJobs, Free, Maps, Reads, VerdictJobs, Deletions
<1>2. j.at = "map" => j.phase \in Phases
  BY DEF PhaseJobs, Free, Maps, Reads, VerdictJobs, Deletions
<1>3. (j.at \in {"map", "preview", "confirm"} => RowSound(j.about, j.row))'
  BY <1>1, RowSoundOn DEF PhaseJobSound
<1>4. (j.at = "map" => Born(j.phase))'
  BY <1>2 DEF PhaseJobSound, Onwards
<1>5. (j.at = "preview" => SameGroups(j.about, j.row))'
  <2> SUFFICES ASSUME j.at = "preview", j.row.version = sheet'[j.about].version
               PROVE  j.row.groups = sheet'[j.about].groups
    BY DEF SameGroups
  <2>1. /\ j.row.version \in 1..sheet[j.about].version
        /\ j.row.version = sheet[j.about].version => j.row.groups = sheet[j.about].groups
    BY DEF PhaseJobSound, RowSound, SameGroups
  <2>2. sheet[j.about].version \in Nat /\ sheet[j.about].version <= sheet'[j.about].version
    BY <1>1 DEF PhaseShape, Sheets, Onwards
  <2>3. j.row.version = sheet[j.about].version
    BY <2>1, <2>2
  <2> QED BY <1>1, <2>1, <2>3 DEF Onwards
<1>6. (j.at = "confirm" => Shown(j.about, j.row))'
  BY <1>1 DEF PhaseJobSound, ShownStays
<1> QED BY <1>3, <1>4, <1>5, <1>6 DEF PhaseJobSound

\* A step is right when what it changes is.
LEMMA StepKeeps ==
  ASSUME PhaseInv, PhaseShape', Onwards, ShownStays, PhasesRefer', PlacedAsPreviewed',
         \A b \in Batches, r \in Sheets : r = sheet'[b] /\ r # sheet[b] => SheetSound(b, r)',
         \A p \in Admins, j \in PhaseJobs : j = admin'[p] /\ j # admin[p] => PhaseJobSound(j)'
  PROVE  PhaseInv'
<1>1. ASSUME NEW b \in Batches, NEW r \in Sheets, r = sheet'[b]
      PROVE  SheetSound(b, r)'
  <2>1. CASE r = sheet[b]
    <3>1. SheetSound(b, r)
      BY <2>1 DEF PhaseInv
    <3>2. RowSound(b, r)'
      BY <3>1, RowSoundOn DEF SheetSound, PhaseInv
    <3>3. r.previewed = r.version => Shown(b, r)'
      BY <3>1 DEF SheetSound, ShownStays
    <3> QED BY <3>2, <3>3 DEF SheetSound
  <2> QED BY <1>1, <2>1
<1>2. ASSUME NEW p \in Admins, NEW j \in PhaseJobs, j = admin'[p]
      PROVE  PhaseJobSound(j)'
  <2>1. CASE j = admin[p]
    <3>1. PhaseJobSound(j)
      BY <2>1 DEF PhaseInv
    <3> QED BY <3>1, JobSoundOn DEF PhaseInv
  <2> QED BY <1>2, <2>1
<1> QED BY <1>1, <1>2 DEF PhaseInv

LEMMA PlacedStays ==
  ASSUME PlacedAsPreviewed, Onwards, UNCHANGED placed
  PROVE  PlacedAsPreviewed'
BY DEF PlacedAsPreviewed, Onwards

\* A request begins, goes on or ends without writing.
LEMMA JobMoves ==
  ASSUME PhaseInv, UNCHANGED <<sheet, name, alias, placed, shown, drift>>,
         NEW p \in Admins, NEW j \in PhaseJobs, PhaseJobSound(j), admin' = [admin EXCEPT ![p] = j]
  PROVE  PhaseInv'
<1>1. PhaseShape'
  BY DEF PhaseInv, PhaseShape
<1>2. Onwards
  BY DEF Onwards, PhaseInv, PhaseShape, Sheets, Born
<1>3. ShownStays
  BY <1>1, <1>2, ShownOn DEF PhaseInv
<1>4. PhasesRefer'
  BY DEF PhaseInv, PhasesRefer, Live
<1>5. PhaseJobSound(j)'
  BY <1>1, <1>2, <1>3, JobSoundOn DEF PhaseInv
<1>6. ASSUME NEW q \in Admins, NEW k \in PhaseJobs, k = admin'[q], k # admin[q]
      PROVE  PhaseJobSound(k)'
  BY <1>5, <1>6 DEF PhaseInv, PhaseShape
<1> QED BY <1>1, <1>2, <1>3, <1>4, <1>6, PlacedStays, StepKeeps DEF PhaseInv

\* A sheet is written where its units do not depend on, and the request goes on.
LEMMA SheetMoves ==
  ASSUME PhaseInv, UNCHANGED <<name, alias, shown, drift>>, PhasesRefer', PlacedAsPreviewed',
         placed' \in [Listed -> Placings \cup {None}],
         NEW b \in Batches, NEW r \in Sheets, sheet' = [sheet EXCEPT ![b] = r],
         AlikeRows(sheet[b], r), r.previewed = sheet[b].previewed,
         NEW p \in Admins, NEW j \in PhaseJobs, PhaseJobSound(j), admin' = [admin EXCEPT ![p] = j]
  PROVE  PhaseInv'
<1>1. PhaseShape'
  BY DEF PhaseInv, PhaseShape
<1>2. Onwards
  BY DEF Onwards, PhaseInv, PhaseShape, Sheets, Born, AlikeRows
<1>3. ShownStays
  BY <1>1, <1>2, ShownOn DEF PhaseInv
<1>4. PhaseJobSound(j)'
  BY <1>1, <1>2, <1>3, JobSoundOn DEF PhaseInv
<1>5. ASSUME NEW q \in Admins, NEW k \in PhaseJobs, k = admin'[q], k # admin[q]
      PROVE  PhaseJobSound(k)'
  BY <1>4, <1>5 DEF PhaseInv, PhaseShape
<1>6. SheetSound(b, r)'
  <2>1. SheetSound(b, sheet[b])
    BY DEF PhaseInv, PhaseShape
  <2>2. SheetSound(b, r)
    BY <2>1, AlikeSound DEF SheetSound, AlikeRows
  <2> QED BY <2>2, <1>1, <1>2, <1>3, RowSoundOn DEF SheetSound, ShownStays, PhaseInv
<1>7. ASSUME NEW c \in Batches, NEW t \in Sheets, t = sheet'[c], t # sheet[c]
      PROVE  SheetSound(c, t)'
  BY <1>6, <1>7 DEF PhaseInv, PhaseShape
<1> QED BY <1>1, <1>2, <1>3, <1>5, <1>7, StepKeeps

\* A request that ended knows nothing that could be wrong.
LEMMA QuietJobs ==
  /\ Free \in PhaseJobs
  /\ \A j \in PhaseJobs : j.at \notin {"map", "preview", "confirm"} => PhaseJobSound(j)
BY DEF PhaseJobs, Free, PhaseJobSound

-----------------------------------------------------------------------------
(* The initial state *)

LEMMA PhaseInvInit == ASSUME PhaseInit PROVE PhaseInv
<1>1. PhaseShape
  <2>1. ASSUME NEW b \in Batches
        PROVE  [NewSheet(b) EXCEPT !.open = Unanswered(b, NewSheet(b))] \in Sheets
    BY PhaseConstants DEF NewSheet, Sheets, Unanswered
  <2>2. sheet \in [Batches -> Sheets]
    BY <2>1 DEF PhaseInit
  <2> QED BY <2>2, QuietJobs, PhaseConstants DEF PhaseInit, PhaseShape
<1>2. PhasesRefer /\ PlacedAsPreviewed
  BY DEF PhaseInit, PhasesRefer, PlacedAsPreviewed
<1>3. ASSUME NEW b \in Batches, NEW r \in Sheets, r = sheet[b]
      PROVE  SheetSound(b, r)
  <2>1. /\ r.version = 1 /\ r.previewed = 0 /\ r.default = Default[b]
        /\ \A w \in Words : r.groups[w] = None
    BY <1>3 DEF PhaseInit, NewSheet
  <2> QED BY <2>1, <1>3 DEF SheetSound, RowSound
<1>4. ASSUME NEW p \in Admins, NEW j \in PhaseJobs, j = admin[p]
      PROVE  PhaseJobSound(j)
  BY <1>4, QuietJobs DEF PhaseInit, Free
<1> QED BY <1>1, <1>2, <1>3, <1>4 DEF PhaseInv

-----------------------------------------------------------------------------
(* The steps *)

LEMMA BeginMapInv ==
  ASSUME PhaseInv, NEW p \in Admins, NEW b \in Batches, NEW w \in Words, NEW h \in Phases,
         BeginMap(p, b, w, h)
  PROVE  PhaseInv'
<1> DEFINE j == [Free EXCEPT !.at = "map", !.about = b, !.word = w, !.phase = h, !.row = sheet[b]]
<1>1. sheet[b] \in Sheets /\ SheetSound(b, sheet[b])
  BY DEF PhaseInv, PhaseShape
<1>2. j \in PhaseJobs
  BY <1>1 DEF PhaseJobs, Maps, Free
<1>3. PhaseJobSound(j)
  BY <1>1 DEF PhaseJobSound, SheetSound, Free, BeginMap, Live, Born
<1> QED BY <1>2, <1>3, JobMoves DEF BeginMap, Begin

LEMMA BeginPreviewInv ==
  ASSUME PhaseInv, NEW p \in Admins, NEW b \in Batches, BeginPreview(p, b)
  PROVE  PhaseInv'
<1> DEFINE j == [Free EXCEPT !.at = "preview", !.about = b, !.row = sheet[b]]
<1>1. sheet[b] \in Sheets /\ SheetSound(b, sheet[b])
  BY DEF PhaseInv, PhaseShape
<1>2. j \in PhaseJobs
  BY <1>1 DEF PhaseJobs, Reads, Free
<1>3. PhaseJobSound(j)
  BY <1>1 DEF PhaseJobSound, SheetSound, SameGroups, Free
<1> QED BY <1>2, <1>3, JobMoves DEF BeginPreview, Begin

LEMMA BeginConfirmInv ==
  ASSUME PhaseInv, NEW p \in Admins, NEW b \in Batches, BeginConfirm(p, b)
  PROVE  PhaseInv'
<1> DEFINE j == [Free EXCEPT !.at = "confirm", !.about = b, !.row = sheet[b]]
<1>1. sheet[b] \in Sheets /\ SheetSound(b, sheet[b])
  BY DEF PhaseInv, PhaseShape
<1>2. j \in PhaseJobs
  BY <1>1 DEF PhaseJobs, Reads, Free
<1>3. PhaseJobSound(j)
  BY <1>1 DEF PhaseJobSound, SheetSound, Free, BeginConfirm
<1> QED BY <1>2, <1>3, JobMoves DEF BeginConfirm, Begin

LEMMA BeginDeletePhaseInv ==
  ASSUME PhaseInv, NEW p \in Admins, NEW h \in Phases, BeginDeletePhase(p, h)
  PROVE  PhaseInv'
<1> DEFINE j == [Free EXCEPT !.at = "delete", !.phase = h]
<1>1. j \in PhaseJobs /\ PhaseJobSound(j)
  BY DEF PhaseJobs, Deletions, Free, PhaseJobSound
<1> QED BY <1>1, JobMoves DEF BeginDeletePhase, Begin

LEMMA AbandonInv ==
  ASSUME PhaseInv, NEW p \in Admins, Abandon(p)
  PROVE  PhaseInv'
<1>1. PhaseJobSound(Free)
  BY QuietJobs DEF Free
<1> QED BY <1>1, QuietJobs, JobMoves DEF Abandon, End

\* A request that is not free is about a batch.
LEMMA JobIs ==
  ASSUME PhaseInv, NEW p \in Admins
  PROVE  /\ admin[p] \in PhaseJobs /\ PhaseJobSound(admin[p])
         /\ admin[p].at \in {"map", "issues"} => admin[p] \in Maps
         /\ admin[p].at \in {"preview", "confirm"} => admin[p] \in Reads
         /\ admin[p].at = "verdict" => admin[p] \in VerdictJobs
         /\ admin[p].at = "delete" => admin[p] \in Deletions
<1>1. admin[p] \in PhaseJobs /\ PhaseJobSound(admin[p])
  BY DEF PhaseInv, PhaseShape
<1> QED BY <1>1 DEF PhaseJobs, Free, Maps, Reads, VerdictJobs, Deletions

\* Nothing that is referred to goes, and what is placed is as it was.
LEMMA ReferStays ==
  ASSUME PhaseInv, UNCHANGED <<name, alias, placed, shown>>
  PROVE  /\ PhasesRefer' /\ PlacedAsPreviewed'
         /\ placed' \in [Listed -> Placings \cup {None}]
<1>1. PhasesRefer'
  BY DEF PhaseInv, PhasesRefer, Live
<1>2. PlacedAsPreviewed'
  BY DEF PhaseInv, PlacedAsPreviewed
<1>3. placed' \in [Listed -> Placings \cup {None}]
  BY DEF PhaseInv, PhaseShape
<1> QED BY <1>1, <1>2, <1>3

LEMMA RebuildSheetIssuesInv ==
  ASSUME PhaseInv, NEW p \in Admins, RebuildSheetIssues(p)
  PROVE  PhaseInv'
<1> DEFINE b == admin[p].about
           r == [sheet[b] EXCEPT !.open = Unanswered(b, sheet[b])]
<1>1. b \in Batches
  BY JobIs DEF RebuildSheetIssues, Maps
<1>2. sheet[b] \in Sheets
  BY <1>1 DEF PhaseInv, PhaseShape
<1>3. r \in Sheets /\ AlikeRows(sheet[b], r) /\ r.previewed = sheet[b].previewed
  BY <1>2 DEF Sheets, AlikeRows, Unanswered
<1>4. PhaseJobSound(Free) /\ Free \in PhaseJobs
  BY QuietJobs DEF Free
<1>5. /\ sheet' = [sheet EXCEPT ![b] = r] /\ admin' = [admin EXCEPT ![p] = Free]
      /\ UNCHANGED <<name, alias, placed, shown, drift>>
  BY DEF RebuildSheetIssues, Put, End
<1> HIDE DEF b, r
<1> QED BY <1>1, <1>3, <1>4, <1>5, ReferStays, SheetMoves

LEMMA VerdictInv ==
  ASSUME PhaseInv, NEW p \in Admins, Verdict(p)
  PROVE  PhaseInv'
<1> DEFINE b == admin[p].about
           r == [sheet[b] EXCEPT !.preview = admin[p].word, !.done = FALSE]
<1>1. b \in Batches /\ admin[p].word \in {"ok", "bad"}
  BY JobIs DEF Verdict, VerdictJobs
<1>2. sheet[b] \in Sheets
  BY <1>1 DEF PhaseInv, PhaseShape
<1>3. r \in Sheets /\ AlikeRows(sheet[b], r) /\ r.previewed = sheet[b].previewed
  BY <1>1, <1>2 DEF Sheets, AlikeRows
<1>4. PhaseJobSound(Free) /\ Free \in PhaseJobs
  BY QuietJobs DEF Free
<1>5. /\ sheet' = [sheet EXCEPT ![b] = r] /\ admin' = [admin EXCEPT ![p] = Free]
      /\ UNCHANGED <<name, alias, placed, shown, drift>>
  BY DEF Verdict, Put, End
<1> HIDE DEF b, r
<1> QED BY <1>1, <1>3, <1>4, <1>5, ReferStays, SheetMoves

LEMMA ConfirmFailsInv ==
  ASSUME PhaseInv, NEW p \in Admins, ConfirmFails(p)
  PROVE  PhaseInv'
<1> DEFINE b == admin[p].about
           r == [sheet[b] EXCEPT !.done = FALSE]
<1>1. b \in Batches
  BY JobIs DEF ConfirmFails, Reads
<1>2. sheet[b] \in Sheets
  BY <1>1 DEF PhaseInv, PhaseShape
<1>3. r \in Sheets /\ AlikeRows(sheet[b], r) /\ r.previewed = sheet[b].previewed
  BY <1>2 DEF Sheets, AlikeRows
<1>4. PhaseJobSound(Free) /\ Free \in PhaseJobs
  BY QuietJobs DEF Free
<1>5. /\ sheet' = [sheet EXCEPT ![b] = r] /\ admin' = [admin EXCEPT ![p] = Free]
      /\ UNCHANGED <<name, alias, placed, shown, drift>>
  BY DEF ConfirmFails, Put, End
<1> HIDE DEF b, r
<1> QED BY <1>1, <1>3, <1>4, <1>5, ReferStays, SheetMoves

\* The rows are placed where they resolve, which is what a preview showed.
LEMMA ConfirmSheetsInv ==
  ASSUME PhaseInv, NEW p \in Admins, ConfirmSheets(p)
  PROVE  PhaseInv'
<1> DEFINE b == admin[p].about
           v == admin[p].row.version
           r == [sheet[b] EXCEPT !.done = TRUE]
           k == [batch |-> b, version |-> v]
<1>1. /\ b \in Batches /\ admin[p].row \in Sheets /\ Shown(b, admin[p].row)
  BY JobIs DEF ConfirmSheets, Reads, PhaseJobSound
<1>2. sheet[b] \in Sheets
  BY <1>1 DEF PhaseInv, PhaseShape
<1>3. r \in Sheets /\ AlikeRows(sheet[b], r) /\ r.previewed = sheet[b].previewed
  BY <1>2 DEF Sheets, AlikeRows
<1>4. PhaseJobSound(Free) /\ Free \in PhaseJobs
  BY QuietJobs DEF Free
<1>5. /\ sheet' = [sheet EXCEPT ![b] = r] /\ admin' = [admin EXCEPT ![p] = Free]
      /\ UNCHANGED <<name, alias, shown, drift>>
  BY DEF ConfirmSheets, Put, End
<1>6. PICK to \in [Listed -> Phases] :
        /\ \A u \in Listed : to[u] \in Resolved(b, admin[p].row, PhaseWord[b][u]) /\ Live(to[u])
        /\ placed' = [u \in Listed |-> [batch |-> b, version |-> v, phase |-> to[u], drifted |-> k \in drift]]
  BY DEF ConfirmSheets
<1>7. placed' \in [Listed -> Placings \cup {None}]
  BY <1>1, <1>6 DEF Placings, Sheets
<1>8. PhasesRefer'
  BY <1>5, <1>6 DEF PhaseInv, PhasesRefer, Live
<1>9. ASSUME NEW u \in Listed
      PROVE  \/ [batch |-> placed'[u].batch, version |-> placed'[u].version, unit |-> u,
                 phase |-> placed'[u].phase] \in shown'
             \/ placed'[u].batch \notin Mixed /\ placed'[u].drifted
  <2>1. /\ placed'[u].batch = b /\ placed'[u].version = v /\ placed'[u].phase = to[u]
        /\ placed'[u].drifted = (k \in drift)
    BY <1>6
  <2>2. \/ b \notin Mixed /\ k \in drift
        \/ [batch |-> b, version |-> v, unit |-> u, phase |-> to[u]] \in shown
    BY <1>1, <1>6 DEF Shown
  <2> QED BY <2>1, <2>2, <1>5
<1>10. PlacedAsPreviewed'
  BY <1>9 DEF PlacedAsPreviewed
<1> HIDE DEF b, r
<1> QED BY <1>1, <1>3, <1>4, <1>5, <1>7, <1>8, <1>10, SheetMoves

\* A value is mapped: a new version of the sheet, which nobody has previewed.
LEMMA NewVersion ==
  ASSUME PhaseInv, UNCHANGED <<name, placed, shown>>, alias' \in [Words -> Phases \cup {None}],
         \A w \in Words : alias'[w] # None => Live(alias'[w]),
         UNCHANGED <<alias, drift>> \/ drift' = Drifted,
         NEW b \in Batches, NEW r \in Sheets, sheet' = [sheet EXCEPT ![b] = r],
         r.version = sheet[b].version + 1, r.previewed = 0, r.default = sheet[b].default,
         \A w \in Words : r.groups[w] # None => Born(r.groups[w]),
         NEW p \in Admins, NEW j \in PhaseJobs, j.at = "issues", admin' = [admin EXCEPT ![p] = j]
  PROVE  PhaseInv'
<1>1. PhaseShape'
  BY DEF PhaseInv, PhaseShape
<1>2. Onwards
  BY DEF Onwards, PhaseInv, PhaseShape, Sheets, Born
<1>3. ShownStays
  BY <1>1, <1>2, ShownOn DEF PhaseInv
<1>4. PhasesRefer'
  BY DEF PhaseInv, PhasesRefer, Live
<1>5. PlacedAsPreviewed'
  BY <1>2, PlacedStays DEF PhaseInv
<1>6. ASSUME NEW q \in Admins, NEW k \in PhaseJobs, k = admin'[q], k # admin[q]
      PROVE  PhaseJobSound(k)'
  <2>1. k.at = "issues"
    BY <1>6 DEF PhaseInv, PhaseShape
  <2> QED BY <2>1 DEF PhaseJobSound
<1>7. ASSUME NEW c \in Batches, NEW t \in Sheets, t = sheet'[c], t # sheet[c]
      PROVE  SheetSound(c, t)'
  <2>1. c = b /\ t = r
    BY <1>7 DEF PhaseInv, PhaseShape
  <2>2. RowSound(b, sheet[b]) /\ sheet[b].version \in Nat
    BY DEF PhaseInv, PhaseShape, SheetSound, Sheets
  <2>3. sheet'[b] = r
    BY DEF PhaseInv, PhaseShape
  <2>4. RowSound(b, r)'
    BY <2>2, <2>3 DEF RowSound, Born
  <2>5. r.previewed # r.version
    BY <2>2
  <2> QED BY <2>1, <2>4, <2>5 DEF SheetSound
<1> QED BY <1>1, <1>2, <1>3, <1>4, <1>5, <1>6, <1>7, StepKeeps

LEMMA UnpreviewedRow ==
  ASSUME NEW s \in Sheets
  PROVE  /\ Unpreviewed(s) \in Sheets
         /\ Unpreviewed(s).version = s.version + 1 /\ Unpreviewed(s).previewed = 0
         /\ Unpreviewed(s).default = s.default /\ Unpreviewed(s).groups = s.groups
<1> DEFINE v == [s EXCEPT !.version = s.version + 1]
           q == [v EXCEPT !.previewed = 0]
           n == [q EXCEPT !.preview = "none"]
<1>1. /\ v \in Sheets /\ v.version = s.version + 1
      /\ v.default = s.default /\ v.groups = s.groups
  BY DEF Sheets
<1>2. /\ q \in Sheets /\ q.version = v.version /\ q.previewed = 0
      /\ q.default = v.default /\ q.groups = v.groups
  <2> HIDE DEF v
  <2> QED BY <1>1 DEF Sheets
<1>3. /\ n \in Sheets /\ n.version = q.version /\ n.previewed = q.previewed
      /\ n.default = q.default /\ n.groups = q.groups
  <2> HIDE DEF q
  <2> QED BY <1>2 DEF Sheets
<1>4. Unpreviewed(s) = [n EXCEPT !.done = FALSE]
  BY DEF Unpreviewed
<1> HIDE DEF n
<1> QED BY <1>1, <1>2, <1>3, <1>4 DEF Sheets

LEMMA MapProjectValueInv ==
  ASSUME PhaseInv, NEW p \in Admins, MapProjectValue(p)
  PROVE  PhaseInv'
<1> DEFINE j == admin[p]
           b == j.about
           r == GroupMapped(sheet[b], [j.row.groups EXCEPT ![j.word] = j.phase])
<1>1. j \in Maps /\ b \in Batches /\ j.row \in Sheets /\ RowSound(b, j.row) /\ Born(j.phase)
  BY JobIs DEF MapProjectValue, Maps, PhaseJobSound
<1>2. sheet[b] \in Sheets
  BY <1>1 DEF PhaseInv, PhaseShape
<1>3. /\ r \in Sheets /\ r.version = sheet[b].version + 1 /\ r.previewed = 0
      /\ r.default = sheet[b].default
      /\ r.groups = [j.row.groups EXCEPT ![j.word] = j.phase]
  <2>1. /\ Unpreviewed(sheet[b]) \in Sheets /\ Unpreviewed(sheet[b]).version = sheet[b].version + 1
        /\ Unpreviewed(sheet[b]).previewed = 0 /\ Unpreviewed(sheet[b]).default = sheet[b].default
    BY <1>1, UnpreviewedRow DEF PhaseInv, PhaseShape
  <2>2. [j.row.groups EXCEPT ![j.word] = j.phase] \in [Words -> Phases \cup {None}]
    BY <1>1 DEF Sheets, Maps
  <2> QED BY <2>1, <2>2 DEF GroupMapped, Sheets
<1>4. \A w \in Words : r.groups[w] # None => Born(r.groups[w])
  BY <1>1, <1>3 DEF RowSound, Sheets, Maps
<1>5. [j EXCEPT !.at = "issues"] \in PhaseJobs
  BY <1>1 DEF PhaseJobs, Maps
<1>6. /\ sheet' = [sheet EXCEPT ![b] = r] /\ admin' = [admin EXCEPT ![p] = [j EXCEPT !.at = "issues"]]
      /\ UNCHANGED <<name, alias, placed, shown, drift>>
  BY DEF MapProjectValue, Put, Move
<1>7. /\ alias \in [Words -> Phases \cup {None}]
      /\ \A w \in Words : alias[w] # None => Live(alias[w])
  BY DEF PhaseInv, PhaseShape, PhasesRefer
<1>8. [j EXCEPT !.at = "issues"].at = "issues"
  BY <1>1 DEF Maps
<1> HIDE DEF j, r
<1> QED BY <1>1, <1>3, <1>4, <1>5, <1>6, <1>7, <1>8, NewVersion

LEMMA MapPhaseValueInv ==
  ASSUME PhaseInv, NEW p \in Admins, MapPhaseValue(p)
  PROVE  PhaseInv'
<1> DEFINE j == admin[p]
           b == j.about
           r == Unpreviewed(sheet[b])
<1>1. j \in Maps /\ b \in Batches /\ j.phase \in Phases /\ j.word \in Words
  BY JobIs DEF MapPhaseValue, Maps
<1>2. sheet[b] \in Sheets /\ RowSound(b, sheet[b])
  BY <1>1 DEF PhaseInv, PhaseShape, SheetSound
<1>3. CASE Live(j.phase)
  <2>1. /\ r \in Sheets /\ r.version = sheet[b].version + 1 /\ r.previewed = 0
        /\ r.default = sheet[b].default /\ r.groups = sheet[b].groups
    BY <1>2, UnpreviewedRow
  <2>2. \A w \in Words : r.groups[w] # None => Born(r.groups[w])
    BY <1>2, <2>1 DEF RowSound
  <2>3. [j EXCEPT !.at = "issues"] \in PhaseJobs /\ [j EXCEPT !.at = "issues"].at = "issues"
    BY <1>1 DEF PhaseJobs, Maps
  <2>4. /\ sheet' = [sheet EXCEPT ![b] = r] /\ admin' = [admin EXCEPT ![p] = [j EXCEPT !.at = "issues"]]
        /\ UNCHANGED <<name, placed, shown>> /\ drift' = Drifted
        /\ alias' = [alias EXCEPT ![j.word] = j.phase]
    BY <1>3 DEF MapPhaseValue, Put, Move
  <2>5. /\ alias' \in [Words -> Phases \cup {None}]
        /\ \A w \in Words : alias'[w] # None => Live(alias'[w])
    BY <1>1, <1>3, <2>4 DEF PhaseInv, PhaseShape, PhasesRefer
  <2> HIDE DEF j, r
  <2> QED BY <1>1, <2>1, <2>2, <2>3, <2>4, <2>5, NewVersion
<1>4. CASE ~Live(j.phase)
  <2>1. PhaseJobSound(Free)
    BY QuietJobs DEF Free
  <2> QED BY <1>4, <2>1, QuietJobs, JobMoves DEF MapPhaseValue, End
<1> QED BY <1>3, <1>4

LEMMA SavePhaseInv ==
  ASSUME PhaseInv, NEW h \in Phases, NEW w \in Words \cup {None}, SavePhase(h, w)
  PROVE  PhaseInv'
<1>1. /\ name' = [name EXCEPT ![h] = w] /\ name[h] # Gone /\ drift' = Drifted
      /\ UNCHANGED <<sheet, alias, placed, admin, shown>>
  BY DEF SavePhase
<1>2. PhaseShape'
  BY <1>1 DEF PhaseInv, PhaseShape
<1>3. Onwards
  BY <1>1, PhaseConstants DEF Onwards, PhaseInv, PhaseShape, Sheets, Born
<1>4. ShownStays
  BY <1>1, <1>2, <1>3, ShownOn DEF PhaseInv
<1>5. \A g \in Phases : Live(g) => Live(g)'
  BY <1>1, PhaseConstants DEF PhaseInv, PhaseShape, Live
<1>6. PhasesRefer'
  <2>1. \A v \in Words : alias[v] # None => alias[v] \in Phases /\ Live(alias[v])
    BY DEF PhaseInv, PhaseShape, PhasesRefer
  <2>2. \A u \in Listed : placed[u] # None /\ placed[u].phase # None =>
                            placed[u].phase \in Phases /\ Live(placed[u].phase)
    BY DEF PhaseInv, PhaseShape, PhasesRefer, Placings
  <2> QED BY <1>1, <1>5, <2>1, <2>2 DEF PhasesRefer, Live
<1>7. PlacedAsPreviewed'
  BY <1>1, <1>3, PlacedStays DEF PhaseInv
<1> QED BY <1>1, <1>2, <1>3, <1>4, <1>6, <1>7, StepKeeps

LEMMA DeletePhaseInv ==
  ASSUME PhaseInv, NEW p \in Admins, DeletePhase(p)
  PROVE  PhaseInv'
<1> DEFINE h == admin[p].phase
<1>1. h \in Phases /\ h # None
  BY JobIs, PhaseConstants DEF DeletePhase, Deletions
<1>2. /\ name' = [name EXCEPT ![h] = Gone] /\ drift' = Drifted
      /\ alias' = [w \in Words |-> IF alias[w] = h THEN None ELSE alias[w]]
      /\ sheet' = [b \in Batches |-> IF sheet[b].default = h THEN [sheet[b] EXCEPT !.default = None]
                                     ELSE sheet[b]]
      /\ placed' = [u \in Listed |-> IF placed[u] # None /\ placed[u].phase = h
                                     THEN [placed[u] EXCEPT !.phase = None] ELSE placed[u]]
      /\ admin' = [admin EXCEPT ![p] = Free] /\ shown' = shown
  BY DEF DeletePhase, End
<1> HIDE DEF h
<1>3. \A b \in Batches : /\ sheet'[b] \in Sheets
                         /\ sheet'[b].version = sheet[b].version /\ sheet'[b].groups = sheet[b].groups
                         /\ sheet'[b].previewed = sheet[b].previewed
                         /\ sheet'[b].default = IF sheet[b].default = h THEN None ELSE sheet[b].default
  BY <1>2 DEF PhaseInv, PhaseShape, Sheets
<1>4. \A u \in Listed : /\ placed'[u] \in Placings \cup {None}
                        /\ placed[u] = None => placed'[u] = None
                        /\ placed[u] # None => /\ placed'[u].batch = placed[u].batch
                                               /\ placed'[u].version = placed[u].version
                                               /\ placed'[u].drifted = placed[u].drifted
                                               /\ placed'[u].phase \in {placed[u].phase, None} \ {h}
  BY <1>1, <1>2 DEF PhaseInv, PhaseShape, Placings
<1>5. PhaseShape'
  <2>1. sheet' \in [Batches -> Sheets]
    BY <1>2, <1>3
  <2>2. placed' \in [Listed -> Placings \cup {None}]
    BY <1>2, <1>4
  <2>3. alias' \in [Words -> Phases \cup {None}] /\ name' \in [Phases -> Words \cup {Unborn, Gone, None}]
    BY <1>2 DEF PhaseInv, PhaseShape
  <2>4. admin' \in [Admins -> PhaseJobs]
    BY <1>2, QuietJobs DEF PhaseInv, PhaseShape
  <2> QED BY <2>1, <2>2, <2>3, <2>4 DEF PhaseShape
<1>6. Onwards
  BY <1>2, <1>3 DEF Onwards, PhaseInv, PhaseShape, Sheets, Born, Unborn, Gone
<1>7. ShownStays
  BY <1>2, <1>5, <1>6, ShownOn DEF PhaseInv
<1>8. \A g \in Phases \ {h} : Live(g) => Live(g)'
  BY <1>2 DEF PhaseInv, PhaseShape, Live
<1>9. PhasesRefer'
  <2>1. ASSUME NEW w \in Words, alias'[w] # None
        PROVE  Live(alias[w])'
    <3>1. alias'[w] = alias[w] /\ alias[w] \in Phases \ {h} /\ Live(alias[w])
      BY <1>2, <2>1 DEF PhaseInv, PhaseShape, PhasesRefer
    <3> QED BY <1>8, <3>1, <2>1 DEF Live
  <2>2. ASSUME NEW u \in Listed, placed'[u] # None, placed'[u].phase # None
        PROVE  Live(placed[u].phase)'
    <3>1. placed[u] # None /\ placed'[u].phase = placed[u].phase /\ placed[u].phase \in Phases \ {h}
      BY <1>4, <2>2 DEF PhaseInv, PhaseShape, Placings
    <3>2. Live(placed[u].phase)
      BY <2>2, <3>1 DEF PhaseInv, PhasesRefer
    <3> QED BY <1>8, <3>1, <3>2 DEF Live
  <2> QED BY <2>1, <2>2 DEF PhasesRefer
<1>10. PlacedAsPreviewed'
  <2> SUFFICES ASSUME NEW u \in Listed, placed'[u] # None, placed'[u].phase # None
               PROVE  \/ [batch |-> placed'[u].batch, version |-> placed'[u].version, unit |-> u,
                          phase |-> placed'[u].phase] \in shown'
                      \/ placed'[u].batch \notin Mixed /\ placed'[u].drifted
    BY DEF PlacedAsPreviewed
  <2>1. placed[u] # None /\ placed'[u].phase = placed[u].phase
    BY <1>4
  <2> QED BY <1>2, <1>4, <2>1 DEF PhaseInv, PlacedAsPreviewed
<1>11. ASSUME NEW q \in Admins, NEW k \in PhaseJobs, k = admin'[q], k # admin[q]
       PROVE  PhaseJobSound(k)'
  <2>1. k = Free
    BY <1>2, <1>11 DEF PhaseInv, PhaseShape
  <2> QED BY <2>1 DEF PhaseJobSound, Free
<1>12. ASSUME NEW b \in Batches, NEW r \in Sheets, r = sheet'[b], r # sheet[b]
       PROVE  SheetSound(b, r)'
  <2>1. PICK s \in Sheets : s = sheet[b]
    BY DEF PhaseInv, PhaseShape
  <2>2. SheetSound(b, s)
    BY <2>1 DEF PhaseInv
  <2>3. s.default = h /\ r.default = None /\ r.version = s.version /\ r.groups = s.groups /\ r.previewed = s.previewed
    BY <1>2, <1>3, <1>12, <2>1
  <2>4. RowSound(b, s)'
    BY <1>5, <1>6, <2>2, RowSoundOn DEF PhaseInv, SheetSound
  <2>5. name'[Default[b]] = Gone
    BY <1>1, <1>2, <2>2, <2>3 DEF SheetSound, RowSound, PhaseInv, PhaseShape
  <2>6. RowSound(b, r)'
    BY <2>3, <2>4, <2>5 DEF RowSound
  <2>7. ASSUME r.previewed = r.version
        PROVE  Shown(b, r)'
    <3>1. Shown(b, s)'
      BY <1>7, <2>2, <2>3, <2>7 DEF SheetSound, ShownStays
    <3>2. CASE b \in Mixed
      BY <2>3, <3>1, <3>2 DEF Shown, Resolved, Grouped
    <3>3. CASE b \notin Mixed
      BY <1>2, <2>2, <2>3, <3>3 DEF Shown, Drifted, SheetSound, RowSound
    <3> QED BY <3>2, <3>3
  <2> QED BY <2>6, <2>7 DEF SheetSound
<1> QED BY <1>5, <1>6, <1>7, <1>9, <1>10, <1>11, <1>12, StepKeeps

\* What a preview resolves is shown, and it is what any other row of the same version, as
\* far as it stands, resolves to.
LEMMA PreviewShows ==
  ASSUME PhaseInv, NEW p \in Admins, PreviewSheets(p), NEW r \in Sheets,
         RowSound(admin[p].about, r), r.version = admin[p].row.version,
         admin[p].about \in Mixed => r.groups = admin[p].row.groups
  PROVE  \A u \in Listed, h \in Phases :
           h \in Resolved(admin[p].about, r, PhaseWord[admin[p].about][u]) /\ Live(h) =>
             [batch |-> admin[p].about, version |-> r.version, unit |-> u, phase |-> h] \in shown'
<1> DEFINE b == admin[p].about
           t == admin[p].row
<1> SUFFICES ASSUME NEW u \in Listed, NEW h \in Phases, h \in Resolved(b, r, PhaseWord[b][u]), Live(h)
             PROVE  [batch |-> b, version |-> r.version, unit |-> u, phase |-> h] \in shown'
  OBVIOUS
<1>1. b \in Batches /\ t \in Sheets /\ RowSound(b, t)
  BY JobIs DEF PreviewSheets, Reads, PhaseJobSound
<1>2. h \in Resolved(b, t, PhaseWord[b][u])
  <2>1. CASE b \in Mixed
    BY <2>1 DEF Resolved, Grouped
  <2>2. CASE b \notin Mixed /\ PhaseWord[b][u] # Empty
    BY <2>2 DEF Resolved, Structured
  <2>3. CASE b \notin Mixed /\ PhaseWord[b][u] = Empty
    <3>1. h = r.default /\ h # None
      BY <2>3 DEF Resolved, Structured
    <3>2. t.default = h
      BY <1>1, <3>1 DEF RowSound, Live
    <3> QED BY <2>3, <3>1, <3>2 DEF Resolved, Structured
  <2> QED BY <2>1, <2>2, <2>3
<1>3. shown' = shown \cup
        {x \in [batch : {b}, version : {t.version}, unit : Listed, phase : Phases] :
           x.phase \in Resolved(b, t, PhaseWord[b][x.unit])}
  BY DEF PreviewSheets
<1> QED BY <1>2, <1>3

LEMMA PreviewSheetsInv ==
  ASSUME PhaseInv, NEW p \in Admins, PreviewSheets(p)
  PROVE  PhaseInv'
<1>0. PICK b \in Batches, t \in Sheets : b = admin[p].about /\ t = admin[p].row
  BY JobIs DEF PreviewSheets, Reads
<1> DEFINE r == [sheet[b] EXCEPT !.previewed = t.version]
           w == IF \A u \in Listed : Resolved(b, t, PhaseWord[b][u]) # {} THEN "ok" ELSE "bad"
           j == [Free EXCEPT !.at = "verdict", !.about = b, !.word = w]
<1>1. RowSound(b, t) /\ SameGroups(b, t)
  BY <1>0, JobIs DEF PreviewSheets, PhaseJobSound
<1>2. sheet[b] \in Sheets /\ RowSound(b, sheet[b])
  BY <1>1 DEF PhaseInv, PhaseShape, SheetSound
<1>3. r \in Sheets /\ AlikeRows(sheet[b], r) /\ r.previewed = t.version
  BY <1>1, <1>2 DEF Sheets, AlikeRows
<1>4. /\ sheet' = [sheet EXCEPT ![b] = r] /\ UNCHANGED <<name, alias, placed>>
      /\ drift' = drift \ {[batch |-> b, version |-> t.version]} /\ shown \subseteq shown'
  BY <1>0 DEF PreviewSheets, Put
<1>5. j \in PhaseJobs /\ j.at = "verdict"
  BY <1>1 DEF PhaseJobs, VerdictJobs, Free
<1>6. admin' = [admin EXCEPT ![p] = j]
  BY <1>0 DEF PreviewSheets
<1>7. PhaseShape'
  BY <1>1, <1>3, <1>4, <1>5, <1>6 DEF PhaseInv, PhaseShape
<1>8. Onwards
  BY <1>1, <1>3, <1>4 DEF Onwards, PhaseInv, PhaseShape, Sheets, Born, AlikeRows
<1>9. ASSUME NEW s \in Sheets, RowSound(b, s), s.version = t.version, b \in Mixed => s.groups = t.groups
      PROVE  Shown(b, s)'
  <2>1. ASSUME NEW u \in Listed, NEW h \in Phases, h \in Resolved(b, s, PhaseWord[b][u])', Live(h)'
        PROVE  [batch |-> b, version |-> s.version, unit |-> u, phase |-> h] \in shown'
    <3>1. h \in Resolved(b, s, PhaseWord[b][u]) /\ Live(h)
      BY <1>4, <2>1 DEF Resolved, Grouped, Structured, Live
    <3> QED BY <1>0, <1>9, <3>1, PreviewShows
  <2> QED BY <2>1 DEF Shown
<1>10. ShownStays
  <2> SUFFICES ASSUME NEW c \in Batches, NEW s \in Sheets, RowSound(c, s), Shown(c, s), c \notin Mixed
               PROVE  Shown(c, s)'
    BY <1>7, <1>8, MixedStays DEF ShownStays, PhaseInv
  <2>1. CASE c = b /\ s.version = t.version
    BY <1>9, <2>1
  <2>2. CASE ~(c = b /\ s.version = t.version)
    <3>1. [batch |-> c, version |-> s.version] # [batch |-> b, version |-> t.version]
      BY <2>2
    <3> QED BY <1>4, <3>1 DEF Shown, Resolved, Structured, Live
  <2> QED BY <2>1, <2>2
<1>11. ASSUME NEW c \in Batches, NEW s \in Sheets, s = sheet'[c], s # sheet[c]
       PROVE  SheetSound(c, s)'
  <2>1. c = b /\ s = r
    BY <1>4, <1>11 DEF PhaseInv, PhaseShape
  <2>2. RowSound(b, s)
    BY <1>2, <1>3, <2>1, AlikeSound
  <2>3. RowSound(b, s)'
    BY <1>1, <1>7, <1>8, <2>2, RowSoundOn DEF PhaseInv
  <2>4. ASSUME s.previewed = s.version
        PROVE  Shown(b, s)'
    <3>1. s.version = t.version /\ s.groups = t.groups
      BY <1>1, <1>3, <2>1, <2>4 DEF SameGroups, AlikeRows
    <3> QED BY <1>9, <2>2, <3>1
  <2> QED BY <2>1, <2>3, <2>4 DEF SheetSound
<1>12. ASSUME NEW q \in Admins, NEW k \in PhaseJobs, k = admin'[q], k # admin[q]
       PROVE  PhaseJobSound(k)'
  <2>1. k.at = "verdict"
    BY <1>5, <1>6, <1>12 DEF PhaseInv, PhaseShape
  <2> QED BY <2>1 DEF PhaseJobSound
<1>13. PhasesRefer'
  BY <1>4 DEF PhaseInv, PhasesRefer, Live
<1>14. PlacedAsPreviewed'
  BY <1>4, <1>8, PlacedStays DEF PhaseInv
<1> QED BY <1>7, <1>8, <1>10, <1>11, <1>12, <1>13, <1>14, StepKeeps

-----------------------------------------------------------------------------
(* The theorems *)

LEMMA PhaseInvNext == ASSUME PhaseInv, [PhaseNext]_phaseVars PROVE PhaseInv'
<1>1. CASE PhaseNext
  <2>1. PICK p \in Admins :
          \/ Request(p)
          \/ MapProjectValue(p) \/ MapPhaseValue(p) \/ RebuildSheetIssues(p)
          \/ PreviewSheets(p) \/ Verdict(p) \/ ConfirmSheets(p) \/ ConfirmFails(p)
          \/ DeletePhase(p) \/ Abandon(p)
    BY <1>1 DEF PhaseNext
  <2>2. CASE Request(p)
    BY <2>2, BeginMapInv, BeginPreviewInv, BeginConfirmInv, SavePhaseInv, BeginDeletePhaseInv DEF Request
  <2> QED BY <2>1, <2>2, MapProjectValueInv, MapPhaseValueInv, RebuildSheetIssuesInv, PreviewSheetsInv,
             VerdictInv, ConfirmSheetsInv, ConfirmFailsInv, DeletePhaseInv, AbandonInv
<1>2. CASE UNCHANGED phaseVars
  <2>1. UNCHANGED <<sheet, name, alias, placed, admin, shown, drift>>
    BY <1>2 DEF phaseVars
  <2>2. PhaseShape'
    BY <2>1 DEF PhaseInv, PhaseShape
  <2>3. Onwards
    BY <2>1 DEF Onwards, PhaseInv, PhaseShape, Sheets, Born
  <2>4. ShownStays
    BY <2>1, <2>2, <2>3, ShownOn DEF PhaseInv
  <2>5. PhasesRefer' /\ PlacedAsPreviewed'
    BY <2>1, ReferStays
  <2> QED BY <2>1, <2>2, <2>3, <2>4, <2>5, StepKeeps
<1> QED BY <1>1, <1>2

\* The inductive invariant: a row that a request read, and the project as it is now, still
\* give every unit a phase that was shown for that version, or the change is on record.
THEOREM PhaseInvariant == PhaseSpec => []PhaseInv
<1>1. PhaseInit => PhaseInv
  BY PhaseInvInit
<1>2. PhaseInv /\ [PhaseNext]_phaseVars => PhaseInv'
  BY PhaseInvNext
<1> QED BY <1>1, <1>2, PTL DEF PhaseSpec

\* Whatever is mapped, renamed and deleted while requests overlap, a confirmed row is in the
\* phase that a preview of exactly this version of its sheet resolved it to, unless its table
\* has a phase column and an alias or a phase of the project changed after that preview.
THEOREM ConfirmedAsPreviewed == PhaseSpec => []PlacedAsPreviewed
<1>1. PhaseInv => PlacedAsPreviewed
  BY DEF PhaseInv
<1> QED BY <1>1, PhaseInvariant, PTL

\* Aliases and placed units always name a phase that exists.
THEOREM PhasesReferred == PhaseSpec => []PhasesRefer
<1>1. PhaseInv => PhasesRefer
  BY DEF PhaseInv
<1> QED BY <1>1, PhaseInvariant, PTL

-----------------------------------------------------------------------------
(* Versions: every version of a sheet was asked for *)

\* The requests that will write a new version.
Mapping == {p \in Admins : admin[p].at = "map"}

VersionInv ==
  /\ asked \in 0..MaxPhaseRequests
  /\ \A b \in Batches : /\ sheet[b].version + Cardinality(Mapping) <= asked + 1
                        /\ sheet[b].previewed <= sheet[b].version

LEMMA MappingFinite == IsFiniteSet(Mapping) /\ Cardinality(Mapping) \in Nat
<1>1. Mapping \in SUBSET Admins
  BY DEF Mapping
<1>2. IsFiniteSet(Mapping)
  BY <1>1, PhaseBounds, FS_Subset
<1>. QED  BY <1>2, FS_CardinalityType

LEMMA OneMore ==
  ASSUME NEW S, IsFiniteSet(S), NEW x, NEW T \in SUBSET (S \cup {x})
  PROVE  Cardinality(T) \in Nat /\ Cardinality(T) <= Cardinality(S) + 1
<1>1. IsFiniteSet(S \cup {x}) /\ Cardinality(S \cup {x}) <= Cardinality(S) + 1 /\ Cardinality(S) \in Nat
  BY FS_AddElement, FS_CardinalityType
<1>2. IsFiniteSet(T) /\ Cardinality(T) <= Cardinality(S \cup {x})
  BY <1>1, FS_Subset
<1>3. Cardinality(T) \in Nat /\ Cardinality(S \cup {x}) \in Nat
  BY <1>1, <1>2, FS_CardinalityType
<1>. QED  BY <1>1, <1>2, <1>3

LEMMA NoMore ==
  ASSUME NEW S, IsFiniteSet(S), NEW T \in SUBSET S
  PROVE  Cardinality(T) \in Nat /\ Cardinality(T) <= Cardinality(S)
  BY FS_Subset, FS_CardinalityType

LEMMA OneLess ==
  ASSUME NEW S, IsFiniteSet(S), NEW x \in S, NEW T \in SUBSET (S \ {x})
  PROVE  Cardinality(T) \in Nat /\ Cardinality(T) + 1 <= Cardinality(S)
<1>1. IsFiniteSet(S \ {x}) /\ Cardinality(S \ {x}) = Cardinality(S) - 1 /\ Cardinality(S) \in Nat
  BY FS_RemoveElement, FS_CardinalityType
<1>2. Cardinality(T) \in Nat /\ Cardinality(T) <= Cardinality(S \ {x})
  BY <1>1, NoMore
<1>. QED  BY <1>1, <1>2

\* A step that leaves the versions, and of which no more is asked.
LEMMA SameVersions ==
  ASSUME PhaseInv, VersionInv, Mapping' \in SUBSET Mapping, asked' \in asked..MaxPhaseRequests,
         \A b \in Batches : /\ sheet'[b].version = sheet[b].version
                            /\ sheet'[b].previewed <= sheet[b].version
  PROVE  VersionInv'
<1>1. Cardinality(Mapping') \in Nat /\ Cardinality(Mapping') <= Cardinality(Mapping) /\ Cardinality(Mapping) \in Nat
  BY MappingFinite, NoMore
<1>2. asked \in Nat /\ asked' \in Nat /\ asked <= asked' /\ asked' \in 0..MaxPhaseRequests
  BY PhaseBounds DEF VersionInv
<1>3. \A b \in Batches : sheet[b].version \in Nat
  BY DEF PhaseInv, PhaseShape, Sheets
<1>4. \A b \in Batches : sheet'[b].version + Cardinality(Mapping') <= asked' + 1
  BY <1>1, <1>2, <1>3 DEF VersionInv
<1>. QED  BY <1>2, <1>4 DEF VersionInv

\* A request that begins.
LEMMA BeginVersions ==
  ASSUME PhaseInv, VersionInv, NEW p \in Admins, NEW job, Begin(p, job), UNCHANGED sheet
  PROVE  VersionInv'
<1>1. Mapping' \in SUBSET (Mapping \cup {p})
  BY DEF Begin, Mapping, PhaseInv, PhaseShape
<1>2. Cardinality(Mapping') \in Nat /\ Cardinality(Mapping') <= Cardinality(Mapping) + 1 /\ Cardinality(Mapping) \in Nat
  BY <1>1, MappingFinite, OneMore
<1>3. asked \in Nat /\ asked' = asked + 1 /\ asked' \in 0..MaxPhaseRequests
  BY PhaseBounds DEF VersionInv, Begin
<1>4. \A b \in Batches : sheet[b].version \in Nat
  BY DEF PhaseInv, PhaseShape, Sheets
<1>5. \A b \in Batches : sheet[b].version + Cardinality(Mapping') <= asked' + 1
  BY <1>2, <1>3, <1>4 DEF VersionInv
<1>. QED  BY <1>3, <1>5 DEF VersionInv

\* A new version takes the place of the request that writes it.
LEMMA MapVersions ==
  ASSUME PhaseInv, VersionInv, NEW p \in Admins, MapProjectValue(p) \/ MapPhaseValue(p)
  PROVE  VersionInv'
<1> DEFINE b == admin[p].about
<1>1. p \in Mapping /\ b \in Batches
  <2>1. admin[p] \in PhaseJobs /\ admin[p].at = "map"
    BY DEF MapProjectValue, MapPhaseValue, PhaseInv, PhaseShape
  <2>. QED  BY <2>1 DEF PhaseJobs, Maps, Reads, VerdictJobs, Deletions, Free, Mapping
<1>2. admin \in [Admins -> PhaseJobs] /\ sheet[b] \in Sheets /\ sheet \in [Batches -> Sheets]
  BY <1>1 DEF PhaseInv, PhaseShape
<1>3. \A j \in PhaseJobs : DOMAIN j = {"at", "about", "word", "phase", "row"}
  BY DEF PhaseJobs, Maps, Reads, VerdictJobs, Deletions, Free
<1> DEFINE g == GroupMapped(sheet[b], [admin[p].row.groups EXCEPT ![admin[p].word] = admin[p].phase])
           u == Unpreviewed(sheet[b])
<1>4. /\ asked' = asked
      /\ \/ admin' = [admin EXCEPT ![p].at = "issues"]
         \/ admin' = [admin EXCEPT ![p] = Free]
      /\ sheet' = sheet \/ sheet' = [sheet EXCEPT ![b] = g] \/ sheet' = [sheet EXCEPT ![b] = u]
  BY DEF MapProjectValue, MapPhaseValue, Put, Move, End
<1>11. g.version = sheet[b].version + 1 /\ g.previewed = 0 /\ u.version = sheet[b].version + 1 /\ u.previewed = 0
  BY <1>2 DEF GroupMapped, Unpreviewed, Sheets
<1> HIDE DEF g, u
<1>5. Mapping' \in SUBSET (Mapping \ {p})
  BY <1>2, <1>3, <1>4 DEF Mapping, Free
<1>6. Cardinality(Mapping') \in Nat /\ Cardinality(Mapping') + 1 <= Cardinality(Mapping) /\ Cardinality(Mapping) \in Nat
  BY <1>1, <1>5, MappingFinite, OneLess
<1> HIDE DEF b
<1>7. asked \in Nat /\ asked' \in 0..MaxPhaseRequests
  BY <1>4, PhaseBounds DEF VersionInv
<1>8. \A c \in Batches : /\ sheet[c].version \in Nat /\ sheet[c].previewed <= sheet[c].version
                         /\ sheet[c].version + Cardinality(Mapping) <= asked + 1
  BY <1>2 DEF VersionInv, Sheets
<1>9. \A c \in Batches : \/ sheet'[c].version = sheet[c].version /\ sheet'[c].previewed = sheet[c].previewed
                         \/ sheet'[c].version = sheet[c].version + 1 /\ sheet'[c].previewed = 0
  BY <1>2, <1>4, <1>11
<1>10. \A c \in Batches : /\ sheet'[c].version + Cardinality(Mapping') <= asked' + 1
                          /\ sheet'[c].previewed <= sheet'[c].version
  BY <1>4, <1>6, <1>7, <1>8, <1>9
<1>. QED  BY <1>7, <1>10 DEF VersionInv

\* Any other step of a request: the sheet it is about keeps its version.
LEMMA GoesOnVersions ==
  ASSUME PhaseInv, VersionInv, NEW p \in Admins, NEW j, j.at # "map", admin' = [admin EXCEPT ![p] = j],
         asked' = asked,
         \A b \in Batches : /\ sheet'[b].version = sheet[b].version
                            /\ sheet'[b].previewed <= sheet[b].version
  PROVE  VersionInv'
<1>1. Mapping' \in SUBSET Mapping
  BY DEF Mapping, PhaseInv, PhaseShape
<1>2. asked' \in asked..MaxPhaseRequests
  BY PhaseBounds DEF VersionInv
<1>. QED  BY <1>1, <1>2, SameVersions

LEMMA VersionsKept == PhaseInv /\ VersionInv /\ [PhaseNext]_phaseVars => VersionInv'
<1> SUFFICES ASSUME PhaseInv, VersionInv, [PhaseNext]_phaseVars
             PROVE  VersionInv'
  OBVIOUS
<1>1. sheet \in [Batches -> Sheets] /\ \A b \in Batches : sheet[b].previewed <= sheet[b].version
  BY DEF PhaseInv, PhaseShape, VersionInv
<1>2. Free.at # "map"
  BY DEF Free
<1>3. ASSUME NEW p \in Admins, NEW b \in Batches, NEW r, sheet' = [sheet EXCEPT ![b] = r],
             r.version = sheet[b].version, r.previewed <= sheet[b].version
      PROVE  \A c \in Batches : /\ sheet'[c].version = sheet[c].version
                                /\ sheet'[c].previewed <= sheet[c].version
  BY <1>1, <1>3
<1>4. ASSUME NEW p \in Admins, admin[p].at \in {"issues", "preview", "verdict", "confirm"}
      PROVE  admin[p].about \in Batches /\ sheet[admin[p].about] \in Sheets
  <2>1. admin[p] \in PhaseJobs
    BY DEF PhaseInv, PhaseShape
  <2>2. admin[p].about \in Batches
    BY <1>4, <2>1 DEF PhaseJobs, Maps, Reads, VerdictJobs, Deletions, Free
  <2>. QED  BY <1>1, <2>2
<1>5. ASSUME NEW p \in Admins, Request(p)
      PROVE  VersionInv'
  <2>1. CASE \E h \in Phases, w \in Words \cup {None} : SavePhase(h, w)
    <3>1. asked' = asked + 1 /\ asked < MaxPhaseRequests /\ sheet' = sheet /\ admin' = admin
      BY <2>1 DEF SavePhase
    <3>2. Mapping' \in SUBSET Mapping /\ asked' \in asked..MaxPhaseRequests
      BY <3>1, PhaseBounds DEF Mapping, VersionInv
    <3>. QED  BY <1>1, <3>1, <3>2, SameVersions
  <2>2. CASE ~ (\E h \in Phases, w \in Words \cup {None} : SavePhase(h, w))
    <3>1. sheet' = sheet /\ \E job : Begin(p, job)
      BY <1>5, <2>2 DEF Request, BeginMap, BeginPreview, BeginConfirm, BeginDeletePhase
    <3>. QED  BY <3>1, BeginVersions
  <2>. QED  BY <2>1, <2>2
<1>6. ASSUME NEW p \in Admins, RebuildSheetIssues(p) \/ Verdict(p) \/ ConfirmSheets(p) \/ ConfirmFails(p)
      PROVE  VersionInv'
  <2> DEFINE b == admin[p].about
  <2>1. b \in Batches /\ sheet[b] \in Sheets
    BY <1>4, <1>6 DEF RebuildSheetIssues, Verdict, ConfirmSheets, ConfirmFails
  <2>2. /\ admin' = [admin EXCEPT ![p] = Free] /\ asked' = asked
        /\ \E r : sheet' = [sheet EXCEPT ![b] = r] /\ r.version = sheet[b].version /\ r.previewed = sheet[b].previewed
    <3>1. CASE RebuildSheetIssues(p)
      <4> DEFINE r == [sheet[b] EXCEPT !.open = Unanswered(b, sheet[b])]
      <4>1. sheet' = [sheet EXCEPT ![b] = r]
        BY <3>1 DEF RebuildSheetIssues, Put
      <4>2. admin' = [admin EXCEPT ![p] = Free] /\ asked' = asked
        BY <3>1 DEF RebuildSheetIssues, End
      <4>3. r.version = sheet[b].version /\ r.previewed = sheet[b].previewed
        BY <2>1 DEF Sheets
      <4> HIDE DEF r, b
      <4>. QED  BY <4>1, <4>2, <4>3
    <3>2. CASE Verdict(p)
      <4> DEFINE r == [sheet[b] EXCEPT !.preview = admin[p].word, !.done = FALSE]
      <4>1. sheet' = [sheet EXCEPT ![b] = r]
        BY <3>2 DEF Verdict, Put
      <4>2. admin' = [admin EXCEPT ![p] = Free] /\ asked' = asked
        BY <3>2 DEF Verdict, End
      <4>3. r.version = sheet[b].version /\ r.previewed = sheet[b].previewed
        BY <2>1 DEF Sheets
      <4> HIDE DEF r, b
      <4>. QED  BY <4>1, <4>2, <4>3
    <3>3. CASE ConfirmSheets(p)
      <4> DEFINE r == [sheet[b] EXCEPT !.done = TRUE]
      <4>1. sheet' = [sheet EXCEPT ![b] = r]
        BY <3>3 DEF ConfirmSheets, Put
      <4>2. admin' = [admin EXCEPT ![p] = Free] /\ asked' = asked
        BY <3>3 DEF ConfirmSheets, End
      <4>3. r.version = sheet[b].version /\ r.previewed = sheet[b].previewed
        BY <2>1 DEF Sheets
      <4> HIDE DEF r, b
      <4>. QED  BY <4>1, <4>2, <4>3
    <3>4. CASE ConfirmFails(p)
      <4> DEFINE r == [sheet[b] EXCEPT !.done = FALSE]
      <4>1. sheet' = [sheet EXCEPT ![b] = r]
        BY <3>4 DEF ConfirmFails, Put
      <4>2. admin' = [admin EXCEPT ![p] = Free] /\ asked' = asked
        BY <3>4 DEF ConfirmFails, End
      <4>3. r.version = sheet[b].version /\ r.previewed = sheet[b].previewed
        BY <2>1 DEF Sheets
      <4> HIDE DEF r, b
      <4>. QED  BY <4>1, <4>2, <4>3
    <3>. QED  BY <1>6, <3>1, <3>2, <3>3, <3>4
  <2>. QED  BY <1>1, <1>2, <1>3, <2>1, <2>2, GoesOnVersions
<1>7. ASSUME NEW p \in Admins, PreviewSheets(p)
      PROVE  VersionInv'
  <2> DEFINE b == admin[p].about
             k == admin[p].row.version
  <2>1. b \in Batches /\ sheet[b] \in Sheets
    BY <1>4, <1>7 DEF PreviewSheets
  <2>2. k <= sheet[b].version
    <3>1. admin[p] \in PhaseJobs /\ admin[p].at = "preview"
      BY <1>7 DEF PreviewSheets, PhaseInv, PhaseShape
    <3>2. RowSound(b, admin[p].row)
      BY <3>1 DEF PhaseInv, PhaseJobSound
    <3>. QED  BY <2>1, <3>2 DEF RowSound, Sheets
  <2> DEFINE r == [sheet[b] EXCEPT !.previewed = k]
             j == [Free EXCEPT !.at = "verdict", !.about = b,
                     !.word = IF \A u \in Listed : Resolved(b, admin[p].row, PhaseWord[b][u]) # {} THEN "ok" ELSE "bad"]
  <2>3. sheet' = [sheet EXCEPT ![b] = r] /\ admin' = [admin EXCEPT ![p] = j] /\ asked' = asked
    BY <1>7 DEF PreviewSheets, Put
  <2>4. r.version = sheet[b].version /\ r.previewed = k
    BY <2>1 DEF Sheets
  <2>5. j.at = "verdict"
    BY DEF Free
  <2> HIDE DEF r, j
  <2>6. j.at # "map"
    BY <2>5
  <2>. QED  BY <1>1, <1>3, <2>1, <2>2, <2>3, <2>4, <2>6, GoesOnVersions
<1>8. ASSUME NEW p \in Admins, DeletePhase(p)
      PROVE  VersionInv'
  <2>1. /\ admin' = [admin EXCEPT ![p] = Free] /\ asked' = asked
        /\ \A b \in Batches : sheet'[b] = sheet[b] \/ sheet'[b] = [sheet[b] EXCEPT !.default = None]
    BY <1>8 DEF DeletePhase, End
  <2>2. \A b \in Batches : /\ sheet'[b].version = sheet[b].version
                           /\ sheet'[b].previewed <= sheet[b].version
    BY <1>1, <2>1 DEF Sheets
  <2>. QED  BY <1>2, <2>1, <2>2, GoesOnVersions
<1>9. ASSUME NEW p \in Admins, Abandon(p)
      PROVE  VersionInv'
  BY <1>1, <1>2, <1>9, GoesOnVersions DEF Abandon, End
<1>10. CASE UNCHANGED phaseVars
  BY <1>10 DEF phaseVars, VersionInv, Mapping
<1>. QED  BY <1>5, <1>6, <1>7, <1>8, <1>9, <1>10, MapVersions DEF PhaseNext

LEMMA VersionStart == PhaseInit => VersionInv
<1> SUFFICES ASSUME PhaseInit
             PROVE  VersionInv
  OBVIOUS
<1>1. Mapping = {}
  BY DEF PhaseInit, Free, Mapping
<1>2. Cardinality(Mapping) = 0
  BY <1>1, FS_EmptySet
<1>3. \A b \in Batches : sheet[b].version = 1 /\ sheet[b].previewed = 0
  BY DEF PhaseInit, NewSheet
<1>. QED  BY <1>2, <1>3, PhaseBounds DEF PhaseInit, VersionInv

\* No version of a sheet that was not asked for, no preview of a version still to come, and
\* aliases and units are of phases that exist.
THEOREM PhasesKeepForm == PhaseSpec => []PhasesTyped
<1>1. PhaseInv /\ VersionInv => PhasesTyped
  <2> SUFFICES ASSUME PhaseInv, VersionInv
               PROVE  PhasesTyped
    OBVIOUS
  <2>1. \A b \in Batches : /\ sheet[b].version \in Nat /\ sheet[b].previewed \in Nat
                           /\ sheet[b].default \in Phases \cup {None}
    BY DEF PhaseInv, PhaseShape, Sheets
  <2>2. \A b \in Batches : sheet[b].version >= 1
    <3> SUFFICES ASSUME NEW b \in Batches
                 PROVE  sheet[b].version >= 1
      OBVIOUS
    <3>1. sheet[b] \in Sheets
      BY DEF PhaseInv, PhaseShape
    <3>2. RowSound(b, sheet[b])
      BY <3>1 DEF PhaseInv, SheetSound
    <3>. QED  BY <2>1, <3>2 DEF RowSound
  <2>3. asked \in 0..MaxPhaseRequests /\ Cardinality(Mapping) \in Nat
    BY MappingFinite DEF VersionInv
  <2>4. \A b \in Batches : sheet[b].version <= MaxPhaseRequests + 1 /\ sheet[b].previewed <= sheet[b].version
    BY <2>1, <2>3, PhaseBounds DEF VersionInv
  <2>5. \A p \in Admins : admin[p].at \in {"free", "map", "issues", "preview", "verdict", "confirm", "delete"}
    <3>1. \A j \in PhaseJobs : j.at \in {"free", "map", "issues", "preview", "verdict", "confirm", "delete"}
      BY DEF PhaseJobs, Maps, Reads, VerdictJobs, Deletions, Free
    <3>. QED  BY <3>1 DEF PhaseInv, PhaseShape
  <2>6. \A b \in Batches : sheet[b].version \in 1..(MaxPhaseRequests + 1) /\ sheet[b].previewed \in 0..sheet[b].version
    BY <2>1, <2>2, <2>4, PhaseBounds
  <2>. QED  BY <2>1, <2>5, <2>6 DEF PhasesTyped, PhaseInv, PhaseShape, PhasesRefer
<1>. QED  BY <1>1, PhaseInvInit, PhaseInvNext, VersionStart, VersionsKept, PTL DEF PhaseSpec

\* All parts of imports at once.
THEOREM ImportsKeepForm == Spec /\ FlatSpec /\ PhaseSpec => []ImportsTyped
<1>1. TypeOK /\ FlatTyped /\ PhasesTyped => ImportsTyped
  BY DEF ImportsTyped
<1>. QED  BY <1>1, ImportTyped, FlatKeepsForm, PhasesKeepForm, PTL
=============================================================================
