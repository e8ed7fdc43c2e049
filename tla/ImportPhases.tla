---------------------------- MODULE ImportPhases ----------------------------
(***************************************************************************)
(* Which phase of a project the rows of an imported table go to            *)
(* (imports/importer.service.ts).  A table of one project names phases in  *)
(* a column; its words are matched with the phases' names and with aliases *)
(* of the project, which every batch shares.  A table of several projects  *)
(* names projects, and the sheet itself keeps the group (project and       *)
(* phase) chosen for each word.  Preview and confirmation both resolve the *)
(* rows, each with what the database holds by then.                        *)
(*                                                                         *)
(* Words stand for normalized cells: spellings that normalizePhaseValue or *)
(* normalizeProjectValue makes equal are one word.                         *)
(***************************************************************************)
EXTENDS Integers, FiniteSets

CONSTANTS Batches,      \* import batches, each with one table
          Mixed,        \* the batches whose table has a project column
          Listed,       \* the units the rows are about
          Phases,       \* phases that may ever exist
          Words,        \* normalized words of the column
          PhaseWord,    \* the word in a batch's row about a unit, or Empty
          Default,      \* the phase a table was given for rows without a word
          Named,        \* the name of each phase at first: Unborn, None or a word
          Admins,       \* requests in flight
          None,
          MaxPhaseRequests  \* bound on the requests made

Empty == "empty"        \* the cell of a row without a word
Unborn == "unborn"      \* a phase not created yet
Gone == "gone"          \* a deleted phase

ASSUME PhaseConstants ==
  /\ Mixed \subseteq Batches /\ None \notin Batches \cup Phases \cup Words
  /\ PhaseWord \in [Batches -> [Listed -> Words \cup {Empty}]]
  /\ Default \in [Batches -> Phases \cup {None}]
  /\ Named \in [Phases -> Words \cup {None, Unborn}]
  /\ {Empty, Unborn, Gone} \cap (Words \cup {None}) = {}

ASSUME PhaseBounds == IsFiniteSet(Admins) /\ MaxPhaseRequests \in Nat

VARIABLES sheet,    \* DataImport and its ImportSheet
          name,     \* ProjectPhase: the word a phase's name is, None for another name
          alias,    \* ProjectPhaseAlias of the project
          placed,   \* Unit: where the last import put it
          admin,    \* where each request in flight is
          asked,    \* how many requests were made
          shown,    \* history: what previews resolved, by version of the sheet
          drift     \* history: the versions whose project changed since their preview, if any

phaseVars == <<sheet, name, alias, placed, admin, asked, shown, drift>>

Free == [at |-> "free", about |-> None, word |-> None, phase |-> None, row |-> None]

NewSheet(b) == [version |-> 1, previewed |-> 0, groups |-> [w \in Words |-> None],
                default |-> Default[b], open |-> TRUE, preview |-> "none", done |-> FALSE]

Begin(p, job) == /\ admin[p].at = "free" /\ asked < MaxPhaseRequests
                 /\ asked' = asked + 1 /\ admin' = [admin EXCEPT ![p] = job]
Move(p, place) == admin' = [admin EXCEPT ![p].at = place]
End(p) == admin' = [admin EXCEPT ![p] = Free]
Put(b, row) == sheet' = [sheet EXCEPT ![b] = row]

Live(h) == name[h] \notin {Unborn, Gone}

\* Every version so far of the tables with a phase column.
Drifted == UNION {[batch : {b}, version : 1..sheet[b].version] : b \in Batches \ Mixed}

-----------------------------------------------------------------------------
\* resolveStructuredPhase: the default for an empty cell, else the alias, else a
\* phase of that name.  The queries have no order: of two such phases either is found.
Structured(row, w) ==
  IF w = Empty THEN {row.default} \ {None}
  ELSE IF alias[w] # None THEN {alias[w]}
  ELSE {h \in Phases : name[h] = w}

\* The group the sheet keeps for the word, when its phase still exists.
Grouped(row, w) == IF w = Empty THEN {} ELSE {h \in {row.groups[w]} \ {None} : Live(h)}

Resolved(b, row, w) == IF b \in Mixed THEN Grouped(row, w) ELSE Structured(row, w)

WordsOf(b) == {PhaseWord[b][u] : u \in Listed}

\* rebuildSheetIssues: empty cells do not count, but without any word there is a question.
Unanswered(b, row) ==
  LET words == WordsOf(b) \ {Empty}
  IN  words = {} \/ \E w \in words : Resolved(b, row, w) = {}

-----------------------------------------------------------------------------
\* mapPhaseValue, mapProjectValue: the phase is looked up, the request then writes the
\* alias of the project, or the groups it read with the new one, and invalidates the
\* preview of its own sheet only.
BeginMap(p, b, w, h) ==
  /\ Live(h) /\ (b \in Mixed => ~sheet[b].done)
  /\ Begin(p, [Free EXCEPT !.at = "map", !.about = b, !.word = w, !.phase = h, !.row = sheet[b]])
  /\ UNCHANGED <<sheet, name, alias, placed, shown, drift>>

Unpreviewed(row) == [row EXCEPT !.version = row.version + 1, !.previewed = 0, !.preview = "none", !.done = FALSE]

\* Mutant: a group is stored like other settings of the sheet.
GroupKept(row, groups) == [row EXCEPT !.groups = groups]
GroupMapped(row, groups) == [Unpreviewed(row) EXCEPT !.groups = groups]

MapProjectValue(p) ==
  LET j == admin[p] IN
  /\ j.at = "map" /\ j.about \in Mixed
  /\ Put(j.about, GroupMapped(sheet[j.about], [j.row.groups EXCEPT ![j.word] = j.phase]))
  /\ Move(p, "issues")
  /\ UNCHANGED <<name, alias, placed, asked, shown, drift>>

MapPhaseValue(p) ==
  LET j == admin[p] IN
  /\ j.at = "map" /\ j.about \notin Mixed
  /\ IF Live(j.phase)
     THEN /\ alias' = [alias EXCEPT ![j.word] = j.phase]
          /\ Put(j.about, Unpreviewed(sheet[j.about]))
          /\ drift' = Drifted /\ Move(p, "issues")
     ELSE UNCHANGED <<alias, sheet, drift>> /\ End(p)
  /\ UNCHANGED <<name, placed, asked, shown>>

RebuildSheetIssues(p) ==
  LET b == admin[p].about IN
  /\ admin[p].at = "issues"
  /\ Put(b, [sheet[b] EXCEPT !.open = Unanswered(b, sheet[b])])
  /\ End(p)
  /\ UNCHANGED <<name, alias, placed, asked, shown, drift>>

-----------------------------------------------------------------------------
\* previewSheets resolves the rows and stores the version of the sheet it had read; a
\* change of the project between the two is as good as one after them.
BeginPreview(p, b) ==
  /\ ~sheet[b].open
  /\ Begin(p, [Free EXCEPT !.at = "preview", !.about = b, !.row = sheet[b]])
  /\ UNCHANGED <<sheet, name, alias, placed, shown, drift>>

PreviewSheets(p) ==
  LET j == admin[p]  b == j.about IN
  /\ j.at = "preview"
  /\ Put(b, [sheet[b] EXCEPT !.previewed = j.row.version])
  /\ shown' = shown \cup
       {s \in [batch : {b}, version : {j.row.version}, unit : Listed, phase : Phases] :
          s.phase \in Resolved(b, j.row, PhaseWord[b][s.unit])}
  /\ drift' = drift \ {[batch |-> b, version |-> j.row.version]}
  /\ admin' = [admin EXCEPT ![p] = [Free EXCEPT !.at = "verdict", !.about = b,
       !.word = IF \A u \in Listed : Resolved(b, j.row, PhaseWord[b][u]) # {} THEN "ok" ELSE "bad"]]
  /\ UNCHANGED <<name, alias, placed, asked>>

Verdict(p) ==
  LET b == admin[p].about IN
  /\ admin[p].at = "verdict"
  /\ Put(b, [sheet[b] EXCEPT !.preview = admin[p].word, !.done = FALSE])
  /\ End(p)
  /\ UNCHANGED <<name, alias, placed, asked, shown, drift>>

-----------------------------------------------------------------------------
\* confirmSheets checks the sheet it has read and resolves the rows anew.
BeginConfirm(p, b) ==
  /\ ~sheet[b].open /\ sheet[b].preview = "ok" /\ sheet[b].previewed = sheet[b].version
  /\ Begin(p, [Free EXCEPT !.at = "confirm", !.about = b, !.row = sheet[b]])
  /\ UNCHANGED <<sheet, name, alias, placed, shown, drift>>

\* All rows are written, or none: a row without a phase fails the transaction.
ConfirmSheets(p) ==
  LET j == admin[p]  b == j.about IN
  /\ j.at = "confirm"
  /\ \E to \in [Listed -> Phases] :
       /\ \A u \in Listed : to[u] \in Resolved(b, j.row, PhaseWord[b][u]) /\ Live(to[u])
       /\ placed' = [u \in Listed |-> [batch |-> b, version |-> j.row.version, phase |-> to[u],
                                      drifted |-> [batch |-> b, version |-> j.row.version] \in drift]]
  /\ Put(b, [sheet[b] EXCEPT !.done = TRUE])
  /\ End(p)
  /\ UNCHANGED <<name, alias, asked, shown, drift>>

ConfirmFails(p) ==
  /\ admin[p].at = "confirm"
  /\ Put(admin[p].about, [sheet[admin[p].about] EXCEPT !.done = FALSE])
  /\ End(p)
  /\ UNCHANGED <<name, alias, placed, asked, shown, drift>>

\* A request is lost between two of its statements.
Abandon(p) ==
  /\ admin[p].at # "free" /\ End(p)
  /\ UNCHANGED <<sheet, name, alias, placed, asked, shown, drift>>

-----------------------------------------------------------------------------
\* Phases are created, renamed and deleted in the catalogue.
SavePhase(h, w) ==
  /\ name[h] \notin {Gone, w} /\ asked < MaxPhaseRequests /\ asked' = asked + 1
  /\ name' = [name EXCEPT ![h] = w] /\ drift' = Drifted
  /\ UNCHANGED <<sheet, alias, placed, admin, shown>>

BeginDeletePhase(p, h) ==
  /\ Live(h) /\ ~\E u \in Listed : placed[u] # None /\ placed[u].phase = h
  /\ Begin(p, [Free EXCEPT !.at = "delete", !.phase = h])
  /\ UNCHANGED <<sheet, name, alias, placed, shown, drift>>

\* The aliases go along, units and defaults of tables lose their phase.
DeletePhase(p) ==
  LET h == admin[p].phase IN
  /\ admin[p].at = "delete"
  /\ name' = [name EXCEPT ![h] = Gone]
  /\ alias' = [w \in Words |-> IF alias[w] = h THEN None ELSE alias[w]]
  /\ sheet' = [b \in Batches |-> IF sheet[b].default = h THEN [sheet[b] EXCEPT !.default = None]
                                 ELSE sheet[b]]
  /\ placed' = [u \in Listed |-> IF placed[u] # None /\ placed[u].phase = h
                                THEN [placed[u] EXCEPT !.phase = None] ELSE placed[u]]
  /\ drift' = Drifted /\ End(p)
  /\ UNCHANGED <<asked, shown>>

PhaseInit ==
  /\ name = Named /\ alias = [w \in Words |-> None]
  /\ sheet = [b \in Batches |-> [NewSheet(b) EXCEPT !.open = Unanswered(b, NewSheet(b))]]
  /\ placed = [u \in Listed |-> None]
  /\ admin = [p \in Admins |-> Free] /\ asked = 0
  /\ shown = {} /\ drift = {}

Request(p) ==
  \/ \E b \in Batches, w \in Words, h \in Phases : BeginMap(p, b, w, h)
  \/ \E b \in Batches : BeginPreview(p, b) \/ BeginConfirm(p, b)
  \/ \E h \in Phases : (\E w \in Words \cup {None} : SavePhase(h, w)) \/ BeginDeletePhase(p, h)

PhaseNext ==
  \E p \in Admins :
    \/ Request(p)
    \/ MapProjectValue(p) \/ MapPhaseValue(p) \/ RebuildSheetIssues(p)
    \/ PreviewSheets(p) \/ Verdict(p) \/ ConfirmSheets(p) \/ ConfirmFails(p)
    \/ DeletePhase(p) \/ Abandon(p)

PhaseSpec == PhaseInit /\ [][PhaseNext]_phaseVars

-----------------------------------------------------------------------------
\* Versions are in range, words and names are matched with phases that exist.
PhasesTyped ==
  /\ \A b \in Batches : /\ sheet[b].version \in 1..(MaxPhaseRequests + 1)
                        /\ sheet[b].previewed \in 0..sheet[b].version
                        /\ sheet[b].default \in Phases \cup {None}
  /\ \A w \in Words : alias[w] # None => Live(alias[w])
  /\ name \in [Phases -> Words \cup {Unborn, Gone, None}]
  /\ \A u \in Listed : placed[u] # None /\ placed[u].phase # None => Live(placed[u].phase)
  /\ \A p \in Admins : admin[p].at \in {"free", "map", "issues", "preview", "verdict", "confirm", "delete"}

\* A confirmed row is in a phase that a preview of exactly this version of the sheet
\* resolved it to, whatever is mapped, renamed and deleted by overlapping requests: for
\* a table of several projects always, for one with a phase column unless an alias or a
\* phase of the project was changed after that preview (by another batch, too).
PlacedAsPreviewed ==
  \A u \in Listed :
    placed[u] # None /\ placed[u].phase # None =>
      \/ [batch |-> placed[u].batch, version |-> placed[u].version, unit |-> u,
          phase |-> placed[u].phase] \in shown
      \/ placed[u].batch \notin Mixed /\ placed[u].drifted
=============================================================================
