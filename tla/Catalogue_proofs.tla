--------------------------- MODULE Catalogue_proofs ---------------------------
(***************************************************************************)
(* What administrators keep of a project, for any number of them and of    *)
(* its rows.                                                               *)
(*                                                                         *)
(* Units (UnitPlacement): every reference is to a row that exists, and a   *)
(* unit no unchecked edit placed stands inside its project.  What a        *)
(* handler checked before it awaited stays true until it writes, although  *)
(* nothing holds it: a phase and a building never change their project, a  *)
(* unit changes its own only by an edit that leaves a mark, and an         *)
(* identifier that is gone is never used again (Evolves).                  *)
(*                                                                         *)
(* Content (ProjectContent): what a request found when it began is so      *)
(* still when it writes, or the history says that another request wrote    *)
(* (LookSound); a file is meant by one request, and by none that has lost  *)
(* its row (NameSound, NamesApart).                                        *)
(*                                                                         *)
(* Documents (ProjectKnowledge): the request that stores the items of a    *)
(* text is the only one that does, and knows how many there are to be      *)
(* (WorkSound).                                                            *)
(***************************************************************************)
EXTENDS UnitPlacement, ProjectContent, FiniteSetTheorems, FunctionTheorems, TLAPS

-----------------------------------------------------------------------------
(* Units *)


Creates == [kind : {"create"}, unit : Inventory, project : Projects, phase : Phases, building : Buildings \cup {Null}]
Drops == [kind : {"dropProject"}, project : Projects]
PhaseDrops == [kind : {"dropPhase"}, phase : Phases]
Matches == UNION {[us -> Phases \cup {Null}] : us \in SUBSET Inventory}
Backfills == [kind : {"backfill"}, project : Projects, match : Matches]
Assignments == [kind : {"ASSIGN", "REMOVE"}, unit : Inventory, building : Buildings, adopt : Phases \cup {Null},
                had : Buildings \cup {Null}, manual : BOOLEAN]
Locations == [kind : {"internal"}, unit : Inventory, building : Buildings]
BulkAssignments == [kind : {"bulk"}, project : Projects, units : SUBSET Inventory, building : Buildings \cup {Null}]
LocateJobs == [kind : {"locate"}, unit : Inventory]
Jobs == {NoJob} \cup Creates \cup Drops \cup PhaseDrops \cup Backfills \cup Assignments \cup Locations
        \cup BulkAssignments \cup LocateJobs

PlaceShape ==
  /\ project \subseteq Projects
  /\ phase \in [Phases -> Projects \cup {Null}]
  /\ building \in [Buildings -> BuildingRows \cup {Null}]
  /\ placed \in [Inventory -> UnitRows \cup {Null}]
  /\ job \in [Admins -> Jobs]

-----------------------------------------------------------------------------
(* The inductive invariant *)

\* The foreign keys of the tables.
PhaseRefers(h) == phase[h] \in project \cup {Null}
BuildingRefers(b) ==
  building[b] # Null => /\ building[b].project \in project
                        /\ building[b].phase # Null => phase[building[b].phase] # Null
\* The foreign keys of a unit's columns, and what its place says.
RowRefers(row) ==
  /\ row.project \in project
  /\ row.phase # Null => phase[row.phase] # Null
  /\ row.building # Null => building[row.building] # Null
PlaceAgrees(row) ==
  /\ row.place.by # Null <=> row.place.status \in {"CONFIRMED", "BUILDING_CONFIRMED"}
  /\ row.place.status \in {"CONFIRMED", "SUGGESTED"} => row.point

\* Phase and building of a unit, and the phase of a building, are of its project.
RowInside(row) ==
  /\ row.phase # Null => phase[row.phase] = row.project
  /\ row.building # Null => building[row.building].project = row.project
BuildingInside(b) ==
  building[b] # Null /\ building[b].phase # Null => phase[building[b].phase] = building[b].project

\* A row that was seen in project p is still of p, or gone for good.
PhaseOf(h, p) == phase[h] = p \/ (phase[h] = Null /\ h \in dead)
BuildingGone(b) == building[b] = Null /\ b \in dead
BuildingOf(b, p) == BuildingGone(b) \/ (building[b] # Null /\ building[b].project = p)
UnitGone(u) == placed[u] = Null /\ u \in dead

\* A unit seen with building b in its project: still so, or edited, or one of them is gone.
StillBeside(u, b) == u \in moved \/ UnitGone(u) \/ (placed[u] # Null /\ BuildingOf(b, placed[u].project))

\* What a handler that waits has checked.
CreateSound(j) == PhaseOf(j.phase, j.project) /\ (j.building # Null => BuildingOf(j.building, j.project))
BackfillSound(j) == \A u \in DOMAIN j.match : j.match[u] # Null => PhaseOf(j.match[u], j.project)
AssignmentSound(j) ==
  /\ StillBeside(j.unit, j.building)
  /\ j.had # Null => StillBeside(j.unit, j.had)
  /\ j.adopt # Null => \/ j.building \in moved \/ BuildingGone(j.building)
                       \/ building[j.building] # Null /\ PhaseOf(j.adopt, building[j.building].project)
LocationSound(j) == StillBeside(j.unit, j.building)
BulkSound(j) == j.building # Null => BuildingOf(j.building, j.project)
JobSound(j) ==
  /\ j \in Creates => CreateSound(j)
  /\ j \in Backfills => BackfillSound(j)
  /\ j \in Assignments => AssignmentSound(j)
  /\ j \in Locations => LocationSound(j)
  /\ j \in BulkAssignments => BulkSound(j)

PhasesRefer == \A h \in Phases : PhaseRefers(h)
BuildingsRefer == \A b \in Buildings : BuildingRefers(b)
UnitsRefer == \A u \in Inventory : placed[u] # Null => RowRefers(placed[u]) /\ PlaceAgrees(placed[u])
UnitsInside == \A u \in Inventory \ moved : placed[u] # Null => RowInside(placed[u])
BuildingsInside == \A b \in Buildings \ moved : BuildingInside(b)
JobsSound == \A a \in Admins : JobSound(job[a])

PlaceInv ==
  /\ PlaceShape
  /\ PhasesRefer /\ BuildingsRefer /\ UnitsRefer
  /\ UnitsInside /\ BuildingsInside
  /\ JobsSound

-----------------------------------------------------------------------------
(* What no step undoes *)

\* Phases and buildings keep their project while they exist, units keep it or are marked, and
\* what is gone stays gone.
PhasesEvolve ==
  /\ \A h \in Phases : phase[h] # Null => phase'[h] = phase[h] \/ (phase'[h] = Null /\ h \in dead')
  /\ \A h \in Phases : phase[h] = Null /\ h \in dead => phase'[h] = Null
BuildingsEvolve ==
  /\ \A b \in Buildings : building[b] # Null =>
       \/ building'[b] # Null /\ building'[b].project = building[b].project
       \/ building'[b] = Null /\ b \in dead'
  /\ \A b \in Buildings : BuildingGone(b) => building'[b] = Null
UnitsEvolve ==
  /\ \A u \in Inventory : placed[u] # Null =>
       \/ u \in moved'
       \/ placed'[u] = Null /\ u \in dead'
       \/ placed'[u] # Null /\ placed'[u].project = placed[u].project
  /\ \A u \in Inventory : UnitGone(u) => placed'[u] = Null
Evolves == dead \subseteq dead' /\ moved \subseteq moved' /\ PhasesEvolve /\ BuildingsEvolve /\ UnitsEvolve

LEMMA PhaseOfStays ==
  ASSUME Evolves, NEW h \in Phases, NEW p \in Projects, PhaseOf(h, p)
  PROVE  PhaseOf(h, p)'
BY PlacementAssumption DEF Evolves, PhasesEvolve, PhaseOf

LEMMA BuildingOfStays ==
  ASSUME Evolves, NEW b \in Buildings, NEW p \in Projects
  PROVE  /\ BuildingGone(b) => BuildingGone(b)'
         /\ BuildingOf(b, p) => BuildingOf(b, p)'
BY DEF Evolves, BuildingsEvolve, BuildingOf, BuildingGone

LEMMA StillBesideStays ==
  ASSUME PlaceShape, Evolves, NEW u \in Inventory, NEW b \in Buildings, StillBeside(u, b)
  PROVE  StillBeside(u, b)'
<1>1. CASE u \in moved \/ UnitGone(u)
  BY <1>1 DEF Evolves, UnitsEvolve, UnitGone, StillBeside
<1>2. CASE placed[u] # Null /\ BuildingOf(b, placed[u].project)
  <2>1. placed[u].project \in Projects
    BY <1>2 DEF PlaceShape, UnitRows
  <2>2. \A p \in Projects : BuildingOf(b, p) => BuildingOf(b, p)'
    BY BuildingOfStays
  <2>. QED  BY <1>2, <2>1, <2>2 DEF Evolves, UnitsEvolve, UnitGone, StillBeside, BuildingOf, BuildingGone
<1>. QED  BY <1>1, <1>2 DEF StillBeside

\* So what a waiting handler has checked stays true.
LEMMA JobSoundStays ==
  ASSUME PlaceShape, Evolves, NEW j \in Jobs, JobSound(j)
  PROVE  JobSound(j)'
<1>1. j \in Creates => CreateSound(j)'
  BY PhaseOfStays, BuildingOfStays DEF JobSound, CreateSound, Creates
<1>2. j \in Backfills => BackfillSound(j)'
  <2>1. SUFFICES ASSUME j \in Backfills, NEW u \in DOMAIN j.match, j.match[u] # Null
                 PROVE  PhaseOf(j.match[u], j.project)'
    BY DEF BackfillSound
  <2>2. j.match[u] \in Phases /\ j.project \in Projects
    BY <2>1 DEF Backfills, Matches
  <2>. QED  BY <2>1, <2>2, PhaseOfStays DEF JobSound, BackfillSound
<1>3. j \in Assignments => AssignmentSound(j)'
  <2>1. SUFFICES ASSUME j \in Assignments  PROVE AssignmentSound(j)'
    OBVIOUS
  <2>2. AssignmentSound(j)
    BY <2>1 DEF JobSound
  <2>3. /\ j.unit \in Inventory /\ j.building \in Buildings /\ j.adopt \in Phases \cup {Null}
        /\ j.had \in Buildings \cup {Null}
    BY <2>1 DEF Assignments
  <2>4. StillBeside(j.unit, j.building)' /\ (j.had # Null => StillBeside(j.unit, j.had)')
    BY <2>2, <2>3, StillBesideStays DEF AssignmentSound
  <2>5. ASSUME j.adopt # Null
        PROVE  (\/ j.building \in moved \/ BuildingGone(j.building)
                \/ building[j.building] # Null /\ PhaseOf(j.adopt, building[j.building].project))'
    <3>1. CASE j.building \in moved \/ BuildingGone(j.building)
      BY <2>3, <3>1 DEF Evolves, BuildingsEvolve, BuildingGone
    <3>2. CASE building[j.building] # Null /\ PhaseOf(j.adopt, building[j.building].project)
      <4>1. building[j.building].project \in Projects
        BY <2>3, <3>2 DEF PlaceShape, BuildingRows
      <4>2. \A p \in Projects : PhaseOf(j.adopt, p) => PhaseOf(j.adopt, p)'
        BY <2>3, <2>5, PhaseOfStays
      <4>3. BuildingGone(j.building)' \/ (building'[j.building] # Null
                                          /\ building'[j.building].project = building[j.building].project)
        BY <2>3, <3>2 DEF Evolves, BuildingsEvolve, BuildingGone
      <4>. QED  BY <3>2, <4>1, <4>2, <4>3 DEF PhaseOf
    <3>. QED  BY <2>2, <2>5, <3>1, <3>2 DEF AssignmentSound
  <2>. QED  BY <2>4, <2>5 DEF AssignmentSound
<1>4. j \in Locations => LocationSound(j)'
  BY StillBesideStays DEF JobSound, LocationSound, Locations
<1>5. j \in BulkAssignments => BulkSound(j)'
  BY BuildingOfStays DEF JobSound, BulkSound, BulkAssignments
<1>. QED  BY <1>1, <1>2, <1>3, <1>4, <1>5 DEF JobSound

-----------------------------------------------------------------------------
(* PlacementInit, and the shapes steps have in common *)

LEMMA PlaceInvInit == ASSUME PlacementInit PROVE PlaceInv
<1>1. NoJob \notin Creates \cup Backfills \cup Assignments \cup Locations \cup BulkAssignments
  BY DEF NoJob, Creates, Backfills, Assignments, Locations, BulkAssignments
<1>. QED  BY <1>1 DEF PlacementInit, PlaceInv, PlaceShape, PhasesRefer, PhaseRefers, BuildingsRefer, BuildingRefers,
                    UnitsRefer, UnitsInside, BuildingsInside, BuildingInside, JobsSound, JobSound, Jobs

LEMMA NoJobSound == JobSound(NoJob)
BY DEF JobSound, NoJob, Creates, Backfills, Assignments, Locations, BulkAssignments

\* A handler that checks and waits: only its request is new.
LEMMA AwaitInv ==
  ASSUME PlaceInv, NEW a \in Admins, NEW j \in Jobs, JobSound(j), Await(a, j),
         UNCHANGED <<project, phase, building, placed, dead, moved>>
  PROVE  PlaceInv'
<1>1. /\ job' \in [Admins -> Jobs]
      /\ \A b \in Admins : job'[b] = IF b = a THEN j ELSE job[b]
  BY DEF Await, PlaceInv, PlaceShape
<1>2. \A b \in Admins : JobSound(job[b])'
  BY <1>1 DEF PlaceInv, JobsSound, JobSound, CreateSound, BackfillSound, AssignmentSound, LocationSound, BulkSound,
              StillBeside, PhaseOf, BuildingOf, BuildingGone, UnitGone
<1>. QED  BY <1>1, <1>2 DEF PlaceInv, PlaceShape, PhasesRefer, PhaseRefers, BuildingsRefer, BuildingRefers,
                UnitsRefer, UnitsInside, BuildingsInside, BuildingInside, JobsSound, RowRefers, PlaceAgrees, RowInside

\* A step whose waiting requests stay or end.
JobsEnd == /\ job' \in [Admins -> Jobs]
           /\ \A a \in Admins : job'[a] = job[a] \/ job'[a] = NoJob

LEMMA FinishEnds ==
  ASSUME PlaceShape, NEW a \in Admins, Finish(a) \/ UNCHANGED job
  PROVE  JobsEnd
BY DEF PlaceShape, JobsEnd, Finish, Jobs

LEMMA JobsStaySound ==
  ASSUME PlaceInv, Evolves, JobsEnd
  PROVE  JobsSound'
<1>1. SUFFICES ASSUME NEW a \in Admins  PROVE JobSound(job[a])'
  BY DEF JobsSound
<1>2. CASE job'[a] = job[a]
  <2>1. job[a] \in Jobs /\ JobSound(job[a])
    BY DEF PlaceInv, PlaceShape, JobsSound
  <2>2. \A j \in Jobs : JobSound(j) => JobSound(j)'
    BY JobSoundStays DEF PlaceInv
  <2>. QED  BY <1>2, <2>1, <2>2 DEF JobSound, CreateSound, BackfillSound, AssignmentSound, LocationSound, BulkSound,
              StillBeside, PhaseOf, BuildingOf, BuildingGone, UnitGone
<1>3. CASE job'[a] = NoJob
  BY <1>3 DEF JobSound, NoJob, Creates, Backfills, Assignments, Locations, BulkAssignments
<1>. QED  BY <1>2, <1>3 DEF JobsEnd

\* A step that writes unit rows only: each row is kept, deleted for good, or a sound one whose
\* unit is new, marked, or still in its project.
RowWritten(u) ==
  \/ placed'[u] = placed[u]
  \/ placed'[u] = Null /\ u \in dead'
  \/ /\ placed'[u] # Null /\ RowRefers(placed'[u]) /\ PlaceAgrees(placed'[u])
     /\ u \in moved' \/ RowInside(placed'[u])
     /\ \/ placed[u] = Null /\ u \notin dead
        \/ placed[u] # Null /\ (u \in moved' \/ placed'[u].project = placed[u].project)

LEMMA UnitsWritten ==
  ASSUME PlaceInv, UNCHANGED <<project, phase, building>>,
         dead \subseteq dead', moved \subseteq moved', JobsEnd,
         placed' \in [Inventory -> UnitRows \cup {Null}], \A u \in Inventory : RowWritten(u)
  PROVE  PlaceInv'
<1>1. Evolves
  <2>1. PhasesEvolve /\ BuildingsEvolve
    BY DEF PhasesEvolve, BuildingsEvolve, BuildingGone
  <2>2. UnitsEvolve
    BY DEF UnitsEvolve, UnitGone, RowWritten
  <2>. QED  BY <2>1, <2>2 DEF Evolves
<1>2. JobsSound'
  BY <1>1, JobsStaySound
<1>3. PlaceShape'
  BY DEF PlaceInv, PlaceShape, JobsEnd
<1>4. PhasesRefer' /\ BuildingsRefer' /\ BuildingsInside'
  BY DEF PlaceInv, PhasesRefer, PhaseRefers, BuildingsRefer, BuildingRefers, BuildingsInside, BuildingInside
<1>5. UnitsRefer'
  BY DEF PlaceInv, UnitsRefer, RowWritten, RowRefers, PlaceAgrees
<1>6. UnitsInside'
  BY DEF PlaceInv, UnitsInside, RowWritten, RowInside
<1>. QED  BY <1>2, <1>3, <1>4, <1>5, <1>6 DEF PlaceInv

\* The same when one unit's row is written.
LEMMA UnitWritten ==
  ASSUME PlaceInv, UNCHANGED <<project, phase, building, dead>>,
         moved \subseteq moved', JobsEnd,
         NEW u \in Inventory, NEW row \in UnitRows, placed' = [placed EXCEPT ![u] = row],
         RowRefers(row), PlaceAgrees(row), u \in moved' \/ RowInside(row),
         \/ placed[u] = Null /\ u \notin dead
         \/ placed[u] # Null /\ (u \in moved' \/ row.project = placed[u].project)
  PROVE  PlaceInv'
<1>1. /\ placed' \in [Inventory -> UnitRows \cup {Null}] /\ row # Null
      /\ \A v \in Inventory : placed'[v] = IF v = u THEN row ELSE placed[v]
  BY PlacementAssumption DEF PlaceInv, PlaceShape
<1>2. \A v \in Inventory : RowWritten(v)
  BY <1>1 DEF RowWritten
<1>. QED  BY <1>1, <1>2, UnitsWritten

-----------------------------------------------------------------------------
(* The handlers' checks *)

\* The kind of a request tells what it holds.
LEMMA JobKinds ==
  ASSUME NEW j \in Jobs
  PROVE  /\ j.kind = "create" <=> j \in Creates
         /\ j.kind = "dropProject" <=> j \in Drops
         /\ j.kind = "dropPhase" <=> j \in PhaseDrops
         /\ j.kind = "backfill" <=> j \in Backfills
         /\ j.kind \in {"ASSIGN", "REMOVE"} <=> j \in Assignments
         /\ j.kind = "internal" <=> j \in Locations
         /\ j.kind = "bulk" <=> j \in BulkAssignments
         /\ j.kind = "locate" <=> j \in LocateJobs
<1>1. \A x : /\ x \in Creates => x.kind = "create"
             /\ x \in Drops => x.kind = "dropProject"
             /\ x \in PhaseDrops => x.kind = "dropPhase"
             /\ x \in Backfills => x.kind = "backfill"
             /\ x \in Assignments => x.kind \in {"ASSIGN", "REMOVE"}
             /\ x \in Locations => x.kind = "internal"
             /\ x \in BulkAssignments => x.kind = "bulk"
             /\ x \in LocateJobs => x.kind = "locate"
             /\ x = NoJob => x.kind = "none"
  BY DEF NoJob, Creates, Drops, PhaseDrops, Backfills, Assignments, Locations, BulkAssignments, LocateJobs
<1>. QED  BY <1>1 DEF Jobs

LEMMA BeginCreateUnitInv ==
  ASSUME PlaceInv, NEW a \in Admins, NEW u \in Inventory, NEW p \in Projects, NEW h \in Phases,
         NEW b \in Buildings \cup {Null}, BeginCreateUnit(a, u, p, h, b)
  PROVE  PlaceInv'
<1> DEFINE j == [kind |-> "create", unit |-> u, project |-> p, phase |-> h, building |-> b]
<1>1. j \in Creates /\ j.phase = h /\ j.project = p /\ j.building = b /\ j.kind = "create"
  BY DEF Creates
<1>2. Await(a, j) /\ FitsProject(p, h, b) /\ UNCHANGED <<project, phase, building, placed, dead, moved>>
  BY DEF BeginCreateUnit
<1> HIDE DEF j
<1>3. j \in Jobs
  BY <1>1 DEF Jobs
<1>4. CreateSound(j)
  BY <1>1, <1>2 DEF CreateSound, PhaseOf, BuildingOf, FitsProject
<1>5. JobSound(j)
  BY <1>1, <1>3, <1>4, JobKinds DEF JobSound
<1>. QED  BY <1>2, <1>3, <1>5, AwaitInv

LEMMA BeginDeleteInv ==
  ASSUME PlaceInv, NEW a \in Admins,
         \/ \E p \in Projects : BeginDeleteProject(a, p)
         \/ \E h \in Phases : BeginDeletePhase(a, h)
         \/ \E u \in Inventory : BeginLocate(a, u)
  PROVE  PlaceInv'
<1>1. PICK j \in Drops \cup PhaseDrops \cup LocateJobs :
        Await(a, j) /\ UNCHANGED <<project, phase, building, placed, dead, moved>>
  <2>1. \A p \in Projects : [kind |-> "dropProject", project |-> p] \in Drops
    BY DEF Drops
  <2>2. \A h \in Phases : [kind |-> "dropPhase", phase |-> h] \in PhaseDrops
    BY DEF PhaseDrops
  <2>3. \A u \in Inventory : [kind |-> "locate", unit |-> u] \in LocateJobs
    BY DEF LocateJobs
  <2>. QED  BY <2>1, <2>2, <2>3 DEF BeginDeleteProject, BeginDeletePhase, BeginLocate
<1>2. j \in Jobs
  BY DEF Jobs
<1>3. JobSound(j)
  BY <1>2, JobKinds DEF JobSound
<1>. QED  BY <1>1, <1>2, <1>3, AwaitInv

LEMMA BeginBackfillInv ==
  ASSUME PlaceInv, NEW a \in Admins, NEW p \in Projects, BeginBackfill(a, p)
  PROVE  PlaceInv'
<1>1. PICK match \in [{u \in UnitsOf(p) : placed[u].phase = Null} -> {h \in Phases : phase[h] = p} \cup {Null}] :
        Await(a, [kind |-> "backfill", project |-> p, match |-> match])
  BY DEF BeginBackfill
<1> DEFINE j == [kind |-> "backfill", project |-> p, match |-> match]
<1>2. match \in Matches
  BY PlacementAssumption DEF Matches, UnitsOf
<1>3. j \in Backfills /\ j.match = match /\ j.project = p /\ j.kind = "backfill"
  BY <1>2 DEF Backfills
<1>4. Await(a, j) /\ UNCHANGED <<project, phase, building, placed, dead, moved>>
  BY <1>1 DEF BeginBackfill
<1> HIDE DEF j
<1>5. j \in Jobs
  BY <1>3 DEF Jobs
<1>6. BackfillSound(j)
  BY <1>3 DEF BackfillSound, PhaseOf
<1>7. JobSound(j)
  BY <1>3, <1>5, <1>6, JobKinds DEF JobSound
<1>. QED  BY <1>4, <1>5, <1>7, AwaitInv

LEMMA BeginAssignmentInv ==
  ASSUME PlaceInv, NEW a \in Admins, NEW p \in Projects, NEW u \in Inventory, NEW b \in Buildings,
         NEW action \in {"ASSIGN", "REMOVE"}, BeginAssignment(a, p, u, b, action)
  PROVE  PlaceInv'
<1> DEFINE adopted == IF placed[u].phase = Null THEN building[b].phase ELSE Null
           manual == placed[u].place.source = "ADMIN_MANUAL_BUILDING"
           j == [kind |-> action, unit |-> u, building |-> b, adopt |-> adopted,
                 had |-> placed[u].building, manual |-> manual]
<1>1. /\ placed[u] # Null /\ placed[u].project = p /\ building[b] # Null /\ building[b].project = p
      /\ placed[u] \in UnitRows /\ building[b] \in BuildingRows
  BY DEF BeginAssignment, UnitsOf, Exists, PlaceInv, PlaceShape
<1>2. adopted \in Phases \cup {Null} /\ placed[u].building \in Buildings \cup {Null} /\ manual \in BOOLEAN
  BY <1>1 DEF UnitRows, BuildingRows
<1>3. adopted # Null => adopted = building[b].phase
  OBVIOUS
<1>4. Await(a, j) /\ UNCHANGED <<project, phase, building, placed, dead, moved>>
  BY DEF BeginAssignment
<1> HIDE DEF adopted, manual
<1>5. j \in Assignments
  BY <1>2 DEF Assignments
<1>6. j.unit = u /\ j.building = b /\ j.adopt = adopted /\ j.had = placed[u].building /\ j.kind = action
  OBVIOUS
<1> HIDE DEF j
<1>7. j \in Jobs
  BY <1>5 DEF Jobs
<1>8. StillBeside(u, b)
  BY <1>1 DEF StillBeside, BuildingOf
<1>9. placed[u].building # Null => StillBeside(u, placed[u].building)
  BY <1>1 DEF StillBeside, BuildingOf, PlaceInv, UnitsInside, UnitsRefer, RowRefers, RowInside
<1>10. adopted # Null => b \in moved \/ PhaseOf(adopted, building[b].project)
  BY <1>1, <1>3 DEF PlaceInv, BuildingsInside, BuildingInside, PhaseOf
<1>11. AssignmentSound(j)
  BY <1>1, <1>6, <1>8, <1>9, <1>10 DEF AssignmentSound
<1>12. JobSound(j)
  BY <1>6, <1>7, <1>11, JobKinds DEF JobSound
<1>. QED  BY <1>4, <1>7, <1>12, AwaitInv

LEMMA BeginInternalLocationInv ==
  ASSUME PlaceInv, NEW a \in Admins, NEW u \in Inventory, NEW b \in Buildings,
         BeginInternalLocation(a, u, b)
  PROVE  PlaceInv'
<1> DEFINE j == [kind |-> "internal", unit |-> u, building |-> b]
<1>1. j \in Locations /\ j.unit = u /\ j.building = b /\ j.kind = "internal"
  BY DEF Locations
<1>2. Await(a, j) /\ UNCHANGED <<project, phase, building, placed, dead, moved>>
  BY DEF BeginInternalLocation
<1> HIDE DEF j
<1>3. j \in Jobs
  BY <1>1 DEF Jobs
<1>4. LocationSound(j)
  BY <1>1 DEF BeginInternalLocation, Exists, LocationSound, StillBeside, BuildingOf
<1>5. JobSound(j)
  BY <1>1, <1>3, <1>4, JobKinds DEF JobSound
<1>. QED  BY <1>2, <1>3, <1>5, AwaitInv

LEMMA BeginBulkAssignInv ==
  ASSUME PlaceInv, NEW a \in Admins, NEW p \in Projects, NEW us \in SUBSET Inventory,
         NEW b \in Buildings \cup {Null}, BeginBulkAssign(a, p, us, b)
  PROVE  PlaceInv'
<1> DEFINE j == [kind |-> "bulk", project |-> p, units |-> us, building |-> b]
<1>1. j \in BulkAssignments /\ j.project = p /\ j.building = b /\ j.kind = "bulk"
  BY DEF BulkAssignments
<1>2. /\ Await(a, j) /\ UNCHANGED <<project, phase, building, placed, dead, moved>>
      /\ b # Null => building[b] # Null /\ building[b].project = p
  BY DEF BeginBulkAssign
<1> HIDE DEF j
<1>3. j \in Jobs
  BY <1>1 DEF Jobs
<1>4. BulkSound(j)
  BY <1>1, <1>2 DEF BulkSound, BuildingOf
<1>5. JobSound(j)
  BY <1>1, <1>3, <1>4, JobKinds DEF JobSound
<1>. QED  BY <1>2, <1>3, <1>5, AwaitInv

-----------------------------------------------------------------------------
(* Writes to units *)

LEMMA NothingWritten ==
  ASSUME PlaceInv, UNCHANGED <<project, phase, building, placed, dead>>,
         moved \subseteq moved', JobsEnd
  PROVE  PlaceInv'
<1>1. placed' \in [Inventory -> UnitRows \cup {Null}] /\ \A u \in Inventory : RowWritten(u)
  BY DEF RowWritten, PlaceInv, PlaceShape
<1>. QED  BY <1>1, UnitsWritten

\* What a running request holds.
LEMMA RunningJob ==
  ASSUME PlaceInv, NEW a \in Admins
  PROVE  job[a] \in Jobs /\ JobSound(job[a])
BY DEF PlaceInv, PlaceShape, JobsSound

LEMMA CreateUnitInv ==
  ASSUME PlaceInv, NEW a \in Admins, CreateUnit(a)
  PROVE  PlaceInv'
<1> DEFINE j == job[a]
           row == [project |-> j.project, phase |-> j.phase, building |-> j.building,
                   point |-> FALSE, place |-> Unlocated]
           may == /\ ~Exists(j.unit) /\ j.unit \notin dead /\ j.project \in project /\ phase[j.phase] # Null
                  /\ j.building # Null => building[j.building] # Null
<1>1. /\ j.kind = "create" /\ JobsEnd /\ UNCHANGED <<project, phase, building, dead, moved>>
      /\ placed' = IF may THEN [placed EXCEPT ![j.unit] = row] ELSE placed
  BY FinishEnds DEF CreateUnit, Running, PlaceInv
<1>2. CreateSound(j) /\ j \in Creates
  BY <1>1, RunningJob, JobKinds DEF JobSound
<1> HIDE DEF j
<1>3. /\ j.unit \in Inventory /\ j.project \in Projects /\ j.phase \in Phases /\ j.building \in Buildings \cup {Null}
  BY <1>2 DEF Creates
<1>4. Unlocated \in PlaceRows /\ Unlocated.by = Null /\ Unlocated.status = "UNLOCATED"
  BY DEF Unlocated, PlaceRows, PlaceStatuses
<1>5. /\ row \in UnitRows /\ row.project = j.project /\ row.phase = j.phase /\ row.building = j.building
      /\ row.place = Unlocated
  BY <1>3, <1>4 DEF UnitRows
<1> HIDE DEF row
<1>6. CASE may
  <2>1. RowRefers(row) /\ PlaceAgrees(row)
    BY <1>3, <1>4, <1>5, <1>6, PlacementAssumption DEF RowRefers, PlaceAgrees
  <2>2. RowInside(row)
    BY <1>2, <1>5, <1>6 DEF RowInside, CreateSound, PhaseOf, BuildingOf, BuildingGone
  <2>. QED  BY <1>1, <1>3, <1>5, <1>6, <2>1, <2>2, UnitWritten DEF Exists
<1>7. CASE ~may
  BY <1>1, <1>7, NothingWritten
<1>. QED  BY <1>6, <1>7

\* A row that stands where it stood keeps referring to what exists.
LEMMA ExistingUnitRow ==
  ASSUME PlaceInv, NEW u \in Inventory, Exists(u)
  PROVE  /\ placed[u] # Null /\ placed[u] \in UnitRows
         /\ RowRefers(placed[u]) /\ PlaceAgrees(placed[u])
         /\ u \notin moved => RowInside(placed[u])
BY DEF PlaceInv, PlaceShape, UnitsRefer, UnitsInside, Exists

LEMMA UpdateUnitInv ==
  ASSUME PlaceInv, NEW a \in Admins, NEW u \in Inventory, NEW p \in Projects,
         NEW h \in Phases \cup {Null}, NEW b \in Buildings \cup {Null}, UpdateUnit(a, u, p, h, b)
  PROVE  PlaceInv'
<1> DEFINE row == [placed[u] EXCEPT !.project = p, !.phase = h, !.building = b]
<1>1. placed[u] # Null /\ placed[u] \in UnitRows /\ PlaceAgrees(placed[u])
  BY ExistingUnitRow DEF UpdateUnit
<1>2. /\ row \in UnitRows /\ row.project = p /\ row.phase = h /\ row.building = b
      /\ row.place = placed[u].place /\ row.point = placed[u].point
  BY <1>1 DEF UnitRows
<1>3. /\ placed' = [placed EXCEPT ![u] = row] /\ moved' = moved \cup {u} /\ JobsEnd
      /\ UNCHANGED <<project, phase, building, dead>>
      /\ p \in project /\ (h # Null => phase[h] # Null) /\ (b # Null => building[b] # Null)
  BY FinishEnds DEF UpdateUnit, PlaceInv
<1> HIDE DEF row
<1>4. RowRefers(row) /\ PlaceAgrees(row)
  BY <1>1, <1>2, <1>3 DEF RowRefers, PlaceAgrees
<1>. QED  BY <1>1, <1>2, <1>3, <1>4, UnitWritten

LEMMA BulkAssignProjectInv ==
  ASSUME PlaceInv, NEW a \in Admins, NEW us \in SUBSET Inventory, NEW p \in Projects,
         BulkAssignProject(a, us, p)
  PROVE  PlaceInv'
<1> DEFINE row(u) == [placed[u] EXCEPT !.project = p]
<1>1. /\ placed' = [u \in Inventory |-> IF u \in us THEN row(u) ELSE placed[u]] /\ moved' = moved \cup us /\ JobsEnd
      /\ UNCHANGED <<project, phase, building, dead>> /\ p \in project /\ \A u \in us : Exists(u)
  BY FinishEnds DEF BulkAssignProject, PlaceInv
<1>2. ASSUME NEW u \in us  PROVE row(u) \in UnitRows /\ RowRefers(row(u)) /\ PlaceAgrees(row(u))
  <2>1. placed[u] \in UnitRows /\ RowRefers(placed[u]) /\ PlaceAgrees(placed[u])
    BY <1>1, ExistingUnitRow
  <2>. QED  BY <1>1, <2>1 DEF UnitRows, RowRefers, PlaceAgrees
<1> HIDE DEF row
<1>3. \A u \in us : row(u) # Null /\ placed[u] # Null
  BY <1>1, <1>2, PlacementAssumption DEF Exists
<1>4. placed' \in [Inventory -> UnitRows \cup {Null}]
  BY <1>1, <1>2 DEF PlaceInv, PlaceShape
<1>5. \A u \in Inventory : RowWritten(u)
  BY <1>1, <1>2, <1>3 DEF RowWritten
<1>. QED  BY <1>1, <1>4, <1>5, UnitsWritten

LEMMA BulkDeleteInv ==
  ASSUME PlaceInv, NEW a \in Admins, NEW us \in SUBSET Inventory, BulkDelete(a, us)
  PROVE  PlaceInv'
<1>1. /\ placed' = [u \in Inventory |-> IF u \in us THEN Null ELSE placed[u]] /\ dead' = dead \cup us /\ JobsEnd
      /\ UNCHANGED <<project, phase, building, moved>>
  BY FinishEnds DEF BulkDelete, PlaceInv
<1>2. placed' \in [Inventory -> UnitRows \cup {Null}] /\ \A u \in Inventory : RowWritten(u)
  BY <1>1 DEF RowWritten, PlaceInv, PlaceShape
<1>. QED  BY <1>1, <1>2, UnitsWritten

LEMMA BackfillInv ==
  ASSUME PlaceInv, NEW a \in Admins, BackfillLegacyUnitPhases(a)
  PROVE  PlaceInv'
<1> DEFINE j == job[a]
           due(u) == /\ u \in DOMAIN j.match /\ j.match[u] # Null /\ phase[j.match[u]] # Null
                     /\ u \in UnitsOf(j.project) /\ placed[u].phase = Null
           row(u) == [placed[u] EXCEPT !.phase = j.match[u]]
<1>1. /\ j.kind = "backfill" /\ JobsEnd /\ UNCHANGED <<project, phase, building, dead, moved>>
      /\ placed' = [u \in Inventory |-> IF due(u) THEN row(u) ELSE placed[u]]
  BY FinishEnds DEF BackfillLegacyUnitPhases, Running, PlaceInv
<1>2. BackfillSound(j) /\ j \in Backfills
  BY <1>1, RunningJob, JobKinds DEF JobSound
<1> HIDE DEF j
<1>3. ASSUME NEW u \in Inventory, due(u)
      PROVE  /\ row(u) \in UnitRows /\ RowRefers(row(u)) /\ PlaceAgrees(row(u))
             /\ u \notin moved => RowInside(row(u))
             /\ row(u).project = placed[u].project /\ placed[u] # Null
  <2>1. /\ placed[u] # Null /\ placed[u] \in UnitRows /\ RowRefers(placed[u]) /\ PlaceAgrees(placed[u])
        /\ u \notin moved => RowInside(placed[u])
    BY <1>3, ExistingUnitRow DEF UnitsOf
  <2>2. /\ j.match[u] \in Phases /\ phase[j.match[u]] = j.project /\ placed[u].project = j.project
    BY <1>2, <1>3 DEF BackfillSound, PhaseOf, Backfills, Matches, UnitsOf
  <2>. QED  BY <1>3, <2>1, <2>2 DEF UnitRows, RowRefers, PlaceAgrees, RowInside
<1> HIDE DEF row, due
<1>4. \A u \in Inventory : due(u) => row(u) # Null
  BY <1>3, PlacementAssumption
<1>5. placed' \in [Inventory -> UnitRows \cup {Null}]
  BY <1>1, <1>3 DEF PlaceInv, PlaceShape
<1>6. \A u \in Inventory : RowWritten(u)
  BY <1>1, <1>3, <1>4 DEF RowWritten, RowRefers, RowInside
<1>. QED  BY <1>1, <1>5, <1>6, UnitsWritten

LEMMA AssignInv ==
  ASSUME PlaceInv, NEW a \in Admins, Assign(a)
  PROVE  PlaceInv'
<1> DEFINE j == job[a]
           may == /\ Exists(j.unit) /\ building[j.building] # Null
                  /\ j.adopt # Null => phase[j.adopt] # Null
           place == Located("BUILDING_CONFIRMED", "ADMIN_MANUAL_BUILDING", a)
           adopted == IF j.adopt # Null THEN j.adopt ELSE placed[j.unit].phase
           row == [placed[j.unit] EXCEPT !.building = j.building, !.phase = adopted, !.place = place]
<1>1. /\ j.kind = "ASSIGN" /\ JobsEnd /\ UNCHANGED <<project, phase, building, dead>>
      /\ placed' = IF may THEN [placed EXCEPT ![j.unit] = row] ELSE placed
      /\ moved' = IF j.adopt # Null /\ j.building \in moved THEN moved \cup {j.unit} ELSE moved
  BY FinishEnds DEF Assign, Running, PlaceInv
<1>2. AssignmentSound(j) /\ j \in Assignments
  BY <1>1, RunningJob, JobKinds DEF JobSound
<1> HIDE DEF j
<1>3. /\ j.unit \in Inventory /\ j.building \in Buildings /\ j.adopt \in Phases \cup {Null}
  BY <1>2 DEF Assignments
<1>4. CASE may
  <2>1. /\ placed[j.unit] # Null /\ placed[j.unit] \in UnitRows /\ RowRefers(placed[j.unit])
        /\ j.unit \notin moved => RowInside(placed[j.unit])
    BY <1>3, <1>4, ExistingUnitRow
  <2>2. place \in PlaceRows /\ place.by = a /\ place.status = "BUILDING_CONFIRMED" /\ a # Null
    BY PlacementAssumption DEF PlaceRows, Located, PlaceStatuses
  <2>3. adopted \in Phases \cup {Null}
    BY <1>3, <2>1 DEF UnitRows
  <2> HIDE DEF place, adopted
  <2>4. /\ row \in UnitRows /\ row.project = placed[j.unit].project /\ row.phase = adopted
        /\ row.building = j.building /\ row.place = place
    BY <1>3, <2>1, <2>2, <2>3 DEF UnitRows
  <2> HIDE DEF row
  <2>5. RowRefers(row) /\ PlaceAgrees(row)
    BY <1>3, <1>4, <2>1, <2>2, <2>4 DEF RowRefers, PlaceAgrees, adopted
  <2>6. j.unit \notin moved' => RowInside(row)
    <3>1. SUFFICES ASSUME j.unit \notin moved'  PROVE RowInside(row)
      OBVIOUS
    <3>2. j.unit \notin moved /\ (j.adopt # Null => j.building \notin moved)
      BY <1>1, <3>1
    <3>3. building[j.building].project = placed[j.unit].project
      BY <1>2, <1>4, <2>1, <3>2 DEF AssignmentSound, StillBeside, UnitGone, BuildingOf, BuildingGone
    <3>4. j.adopt # Null => phase[j.adopt] = building[j.building].project
      BY <1>2, <1>4, <3>2 DEF AssignmentSound, PhaseOf, BuildingGone
    <3>. QED  BY <2>1, <2>4, <3>2, <3>3, <3>4 DEF RowInside, adopted
  <2>. QED  BY <1>1, <1>3, <1>4, <2>1, <2>4, <2>5, <2>6, UnitWritten
<1>5. CASE ~may
  BY <1>1, <1>5, NothingWritten
<1>. QED  BY <1>4, <1>5

LEMMA UnassignInv ==
  ASSUME PlaceInv, NEW a \in Admins, Unassign(a)
  PROVE  PlaceInv'
<1> DEFINE j == job[a]
           same == j.had = j.building
           may == Exists(j.unit) /\ (same \/ j.had = Null \/ building[j.had] # Null)
           left == IF same THEN Null ELSE j.had
           place == IF same /\ j.manual THEN Unlocated ELSE placed[j.unit].place
           row == [placed[j.unit] EXCEPT !.building = left, !.place = place]
<1>1. /\ j.kind = "REMOVE" /\ JobsEnd /\ UNCHANGED <<project, phase, building, dead, moved>>
      /\ placed' = IF may THEN [placed EXCEPT ![j.unit] = row] ELSE placed
  BY FinishEnds DEF Unassign, Running, PlaceInv
<1>2. AssignmentSound(j) /\ j \in Assignments
  BY <1>1, RunningJob, JobKinds DEF JobSound
<1> HIDE DEF j
<1>3. /\ j.unit \in Inventory /\ j.building \in Buildings /\ j.had \in Buildings \cup {Null}
  BY <1>2 DEF Assignments
<1>4. CASE may
  <2>1. /\ placed[j.unit] # Null /\ placed[j.unit] \in UnitRows /\ RowRefers(placed[j.unit])
        /\ PlaceAgrees(placed[j.unit]) /\ (j.unit \notin moved => RowInside(placed[j.unit]))
    BY <1>3, <1>4, ExistingUnitRow
  <2>2. /\ left \in Buildings \cup {Null}
        /\ left # Null => left = j.had /\ building[left] # Null
    BY <1>3, <1>4
  <2>3. /\ place \in PlaceRows /\ (place = placed[j.unit].place \/ place = Unlocated)
        /\ Unlocated.by = Null /\ Unlocated.status = "UNLOCATED"
    BY <2>1 DEF UnitRows, PlaceRows, Unlocated, PlaceStatuses
  <2> HIDE DEF place, left
  <2>4. /\ row \in UnitRows /\ row.project = placed[j.unit].project /\ row.phase = placed[j.unit].phase
        /\ row.building = left /\ row.place = place /\ row.point = placed[j.unit].point
    BY <2>1, <2>2, <2>3 DEF UnitRows
  <2> HIDE DEF row
  <2>5. RowRefers(row)
    BY <2>1, <2>2, <2>4 DEF RowRefers
  <2>6. PlaceAgrees(row)
    BY <2>1, <2>3, <2>4 DEF PlaceAgrees
  <2>7. j.unit \notin moved => RowInside(row)
    <3>1. left # Null /\ j.unit \notin moved => building[left].project = placed[j.unit].project
      BY <1>2, <2>1, <2>2 DEF AssignmentSound, StillBeside, UnitGone, BuildingOf, BuildingGone
    <3>. QED  BY <2>1, <2>4, <3>1 DEF RowInside
  <2>. QED  BY <1>1, <1>3, <1>4, <2>1, <2>4, <2>5, <2>6, <2>7, UnitWritten
<1>5. CASE ~may
  BY <1>1, <1>5, NothingWritten
<1>. QED  BY <1>4, <1>5

LEMMA InternalLocationInv ==
  ASSUME PlaceInv, NEW a \in Admins, InternalLocation(a)
  PROVE  PlaceInv'
<1> DEFINE j == job[a]
           may == Exists(j.unit) /\ building[j.building] # Null
           row == [placed[j.unit] EXCEPT !.building = j.building]
<1>1. /\ j.kind = "internal" /\ JobsEnd /\ UNCHANGED <<project, phase, building, dead, moved>>
      /\ placed' = IF may THEN [placed EXCEPT ![j.unit] = row] ELSE placed
  BY FinishEnds DEF InternalLocation, Running, PlaceInv
<1>2. LocationSound(j) /\ j \in Locations
  BY <1>1, RunningJob, JobKinds DEF JobSound
<1> HIDE DEF j
<1>3. j.unit \in Inventory /\ j.building \in Buildings
  BY <1>2 DEF Locations
<1>4. CASE may
  <2>1. /\ placed[j.unit] # Null /\ placed[j.unit] \in UnitRows /\ RowRefers(placed[j.unit])
        /\ PlaceAgrees(placed[j.unit]) /\ (j.unit \notin moved => RowInside(placed[j.unit]))
    BY <1>3, <1>4, ExistingUnitRow
  <2>2. /\ row \in UnitRows /\ row.project = placed[j.unit].project /\ row.phase = placed[j.unit].phase
        /\ row.building = j.building /\ row.place = placed[j.unit].place /\ row.point = placed[j.unit].point
    BY <1>3, <2>1 DEF UnitRows
  <2> HIDE DEF row
  <2>3. RowRefers(row) /\ PlaceAgrees(row)
    BY <1>4, <2>1, <2>2 DEF RowRefers, PlaceAgrees
  <2>4. j.unit \notin moved => RowInside(row)
    <3>1. j.unit \notin moved => building[j.building].project = placed[j.unit].project
      BY <1>2, <1>4, <2>1 DEF LocationSound, StillBeside, UnitGone, BuildingOf, BuildingGone
    <3>. QED  BY <2>1, <2>2, <3>1 DEF RowInside
  <2>. QED  BY <1>1, <1>3, <1>4, <2>1, <2>2, <2>3, <2>4, UnitWritten
<1>5. CASE ~may
  BY <1>1, <1>5, NothingWritten
<1>. QED  BY <1>4, <1>5

LEMMA BulkAssignMasterPlanInv ==
  ASSUME PlaceInv, NEW a \in Admins, BulkAssignMasterPlan(a)
  PROVE  PlaceInv'
<1> DEFINE j == job[a]
           gone == j.building # Null /\ building[j.building] = Null
           due(u) == u \in j.units \cap UnitsOf(j.project)
           place == Located("CONFIRMED", "MASTER_PLAN", a)
           stands(u) == IF j.building # Null THEN j.building ELSE placed[u].building
           row(u) == [placed[u] EXCEPT !.building = stands(u), !.point = TRUE, !.place = place]
<1>1. /\ j.kind = "bulk" /\ JobsEnd /\ UNCHANGED <<project, phase, building, dead, moved>>
      /\ placed' = IF gone THEN placed ELSE [u \in Inventory |-> IF due(u) THEN row(u) ELSE placed[u]]
  BY FinishEnds DEF BulkAssignMasterPlan, Running, PlaceInv
<1>2. BulkSound(j) /\ j \in BulkAssignments
  BY <1>1, RunningJob, JobKinds DEF JobSound
<1> HIDE DEF j
<1>3. place \in PlaceRows /\ place.by = a /\ place.status = "CONFIRMED" /\ a # Null
  BY PlacementAssumption DEF PlaceRows, Located, PlaceStatuses
<1> HIDE DEF place
<1>4. ASSUME ~gone, NEW u \in Inventory, due(u)
      PROVE  /\ row(u) \in UnitRows /\ RowRefers(row(u)) /\ PlaceAgrees(row(u))
             /\ u \notin moved => RowInside(row(u))
             /\ row(u).project = placed[u].project /\ placed[u] # Null
  <2>1. /\ placed[u] # Null /\ placed[u] \in UnitRows /\ RowRefers(placed[u]) /\ placed[u].project = j.project
        /\ u \notin moved => RowInside(placed[u])
    BY <1>4, ExistingUnitRow DEF UnitsOf
  <2>2. stands(u) \in Buildings \cup {Null} /\ (stands(u) # Null => building[stands(u)] # Null)
    BY <1>2, <1>4, <2>1 DEF BulkAssignments, UnitRows, RowRefers
  <2>3. u \notin moved /\ stands(u) # Null => building[stands(u)].project = j.project
    BY <1>2, <1>4, <2>1 DEF BulkSound, BuildingOf, BuildingGone, RowInside
  <2> HIDE DEF stands
  <2>4. /\ row(u) \in UnitRows /\ row(u).project = placed[u].project /\ row(u).phase = placed[u].phase
        /\ row(u).building = stands(u) /\ row(u).place = place /\ row(u).point = TRUE
    BY <1>3, <2>1, <2>2 DEF UnitRows
  <2> HIDE DEF row
  <2>5. RowRefers(row(u)) /\ PlaceAgrees(row(u))
    BY <1>3, <2>1, <2>2, <2>4 DEF RowRefers, PlaceAgrees
  <2>6. u \notin moved => RowInside(row(u))
    BY <2>1, <2>3, <2>4 DEF RowInside
  <2>. QED  BY <2>1, <2>4, <2>5, <2>6
<1>5. CASE gone
  BY <1>1, <1>5, NothingWritten
<1>6. CASE ~gone
  <2> HIDE DEF row, due, gone
  <2>1. \A u \in Inventory : due(u) => row(u) # Null
    BY <1>4, <1>6, PlacementAssumption
  <2>2. placed' \in [Inventory -> UnitRows \cup {Null}]
    BY <1>1, <1>4, <1>6 DEF PlaceInv, PlaceShape
  <2>3. \A u \in Inventory : RowWritten(u)
    BY <1>1, <1>4, <1>6, <2>1 DEF RowWritten, RowRefers, RowInside
  <2>. QED  BY <1>1, <2>2, <2>3, UnitsWritten
<1>. QED  BY <1>5, <1>6

\* A step that only says where on the plan a unit is.
LEMMA PlaceWritten ==
  ASSUME PlaceInv, NEW u \in Inventory, Exists(u), NEW point \in BOOLEAN, NEW place \in PlaceRows,
         place.by # Null <=> place.status \in {"CONFIRMED", "BUILDING_CONFIRMED"},
         place.status \in {"CONFIRMED", "SUGGESTED"} => point,
         placed' = [placed EXCEPT ![u] = [placed[u] EXCEPT !.point = point, !.place = place]],
         JobsEnd, UNCHANGED <<project, phase, building, dead, moved>>
  PROVE  PlaceInv'
<1> DEFINE row == [placed[u] EXCEPT !.point = point, !.place = place]
<1>1. /\ placed[u] # Null /\ placed[u] \in UnitRows /\ RowRefers(placed[u])
      /\ u \notin moved => RowInside(placed[u])
  BY ExistingUnitRow
<1>2. /\ row \in UnitRows /\ row.project = placed[u].project /\ row.phase = placed[u].phase
      /\ row.building = placed[u].building /\ row.place = place /\ row.point = point
  BY <1>1 DEF UnitRows
<1> HIDE DEF row
<1>3. RowRefers(row) /\ PlaceAgrees(row) /\ (u \notin moved => RowInside(row))
  BY <1>1, <1>2 DEF RowRefers, PlaceAgrees, RowInside
<1>. QED  BY <1>1, <1>2, <1>3, UnitWritten DEF row

LEMMA LocateInv ==
  ASSUME PlaceInv, NEW a \in Admins, LocateUnit(a) \/ \E u \in Inventory : SetLocation(a, u)
  PROVE  PlaceInv'
<1> DEFINE suggested(source) == Located("SUGGESTED", source, Null)
           confirmed == Located("CONFIRMED", "MASTER_PLAN", a)
<1>1. /\ \A source \in {"AI_VISION", "ADMIN_MANUAL"} :
           suggested(source) \in PlaceRows /\ suggested(source).by = Null /\ suggested(source).status = "SUGGESTED"
      /\ confirmed \in PlaceRows /\ confirmed.by = a /\ confirmed.status = "CONFIRMED" /\ a # Null
      /\ Unlocated \in PlaceRows /\ Unlocated.by = Null /\ Unlocated.status = "UNLOCATED"
  BY PlacementAssumption DEF PlaceRows, Located, Unlocated, PlaceStatuses
<1>2. CASE LocateUnit(a)
  <2> DEFINE j == job[a]
  <2>1. PICK found \in BOOLEAN :
          placed' = IF found /\ Exists(j.unit)
                    THEN [placed EXCEPT ![j.unit] =
                            [placed[j.unit] EXCEPT !.point = TRUE, !.place = suggested("AI_VISION")]]
                    ELSE placed
    BY <1>2 DEF LocateUnit
  <2>2. j.kind = "locate" /\ JobsEnd /\ UNCHANGED <<project, phase, building, dead, moved>>
    BY <1>2, FinishEnds DEF LocateUnit, Running, PlaceInv
  <2>3. j.unit \in Inventory
    BY <2>2, RunningJob, JobKinds DEF LocateJobs
  <2> HIDE DEF j, suggested
  <2>4. CASE found /\ Exists(j.unit)
    BY <1>1, <2>1, <2>2, <2>3, <2>4, PlaceWritten
  <2>5. CASE ~(found /\ Exists(j.unit))
    BY <2>1, <2>2, <2>5, NothingWritten
  <2>. QED  BY <2>4, <2>5
<1>3. ASSUME NEW u \in Inventory, SetLocation(a, u)  PROVE PlaceInv'
  <2>1. PICK place \in {suggested("ADMIN_MANUAL"), confirmed, Unlocated} :
          \E point \in IF place = Unlocated THEN {placed[u].point, FALSE} ELSE {TRUE} :
            placed' = [placed EXCEPT ![u] = [placed[u] EXCEPT !.point = point, !.place = place]]
    BY <1>3 DEF SetLocation
  <2>2. PICK point \in IF place = Unlocated THEN {placed[u].point, FALSE} ELSE {TRUE} :
          placed' = [placed EXCEPT ![u] = [placed[u] EXCEPT !.point = point, !.place = place]]
    BY <2>1
  <2>3. Exists(u) /\ JobsEnd /\ UNCHANGED <<project, phase, building, dead, moved>>
    BY <1>3, FinishEnds DEF SetLocation, PlaceInv
  <2> HIDE DEF suggested, confirmed
  <2>4. point \in BOOLEAN
    BY <2>2, <2>3, ExistingUnitRow DEF UnitRows
  <2>5. place \in PlaceRows /\ (place.by # Null <=> place.status \in {"CONFIRMED", "BUILDING_CONFIRMED"})
    BY <1>1, <2>1
  <2>6. place.status \in {"CONFIRMED", "SUGGESTED"} => point
    BY <1>1, <2>1, <2>2
  <2>. QED  BY <2>2, <2>3, <2>4, <2>5, <2>6, PlaceWritten
<1>. QED  BY <1>2, <1>3

-----------------------------------------------------------------------------
(* Writes to projects, phases and buildings *)

LEMMA StructureWritten ==
  ASSUME PlaceInv, PlaceShape', Evolves, JobsEnd,
         PhasesRefer', BuildingsRefer', UnitsRefer', UnitsInside', BuildingsInside'
  PROVE  PlaceInv'
BY JobsStaySound DEF PlaceInv

LEMMA CreateProjectInv ==
  ASSUME PlaceInv, NEW a \in Admins, NEW p \in Projects, CreateProject(a, p)
  PROVE  PlaceInv'
<1>1. /\ JobsEnd /\ UNCHANGED <<phase, building, placed, dead, moved>> /\ project' = project \cup {p}
  BY FinishEnds DEF CreateProject, PlaceInv
<1>2. Evolves
  BY <1>1 DEF Evolves, PhasesEvolve, BuildingsEvolve, UnitsEvolve, BuildingGone, UnitGone
<1>3. PlaceShape'
  BY <1>1 DEF PlaceInv, PlaceShape, JobsEnd
<1>4. PhasesRefer' /\ BuildingsRefer' /\ UnitsRefer'
  BY <1>1 DEF PlaceInv, PhasesRefer, PhaseRefers, BuildingsRefer, BuildingRefers, UnitsRefer, RowRefers, PlaceAgrees
<1>5. UnitsInside' /\ BuildingsInside'
  BY <1>1 DEF PlaceInv, UnitsInside, BuildingsInside, RowInside, BuildingInside
<1>. QED  BY <1>1, <1>2, <1>3, <1>4, <1>5, StructureWritten

\* Rows below a deleted project lose their reference; nobody's rows in other projects change theirs.
LEMMA DeleteProjectInv ==
  ASSUME PlaceInv, NEW a \in Admins, DeleteProject(a)
  PROVE  PlaceInv'
<1> DEFINE p == job[a].project
           lost(h) == IF h # Null /\ phase'[h] = Null THEN Null ELSE h
           out(b) == IF b # Null /\ building'[b] = Null THEN Null ELSE b
           brow(b) == [building[b] EXCEPT !.phase = lost(building[b].phase)]
           row(u) == [placed[u] EXCEPT !.phase = lost(placed[u].phase), !.building = out(placed[u].building)]
<1>1. job[a].kind = "dropProject" /\ JobsEnd /\ moved' = moved
  BY FinishEnds DEF DeleteProject, Running, PlaceInv
<1>2. p \in Projects
  BY <1>1, RunningJob, JobKinds DEF Drops
<1>3. CASE ~(UnitsOf(p) = {} /\ p \in project)
  BY <1>1, <1>3, NothingWritten DEF DeleteProject
<1>4. CASE UnitsOf(p) = {} /\ p \in project
  <2>1. /\ project' = project \ {p}
        /\ phase' = [h \in Phases |-> IF phase[h] = p THEN Null ELSE phase[h]]
        /\ building' = [b \in Buildings |-> IF building[b] = Null \/ building[b].project = p THEN Null ELSE brow(b)]
        /\ placed' = [u \in Inventory |-> IF ~Exists(u) THEN Null ELSE row(u)]
        /\ dead' = dead \cup {p} \cup {h \in Phases : phase[h] = p}
                        \cup {b \in Buildings : building[b] # Null /\ building[b].project = p}
    BY <1>4 DEF DeleteProject
  <2>2. \A h \in Phases : phase[h] \in project \cup {Null} /\ phase[h] \in Projects \cup {Null}
    BY DEF PlaceInv, PlaceShape, PhasesRefer, PhaseRefers
  <2>3. \A h \in Phases : phase'[h] = IF phase[h] = p THEN Null ELSE phase[h]
    BY <2>1
  <2>4. ASSUME NEW b \in Buildings, building[b] # Null, building[b].project # p
        PROVE  /\ brow(b) \in BuildingRows /\ brow(b).project = building[b].project
               /\ brow(b).project \in project'
               /\ brow(b).phase # Null => brow(b).phase = building[b].phase /\ phase'[brow(b).phase] # Null
    <3>1. building[b] \in BuildingRows /\ building[b].project \in project
      BY <2>4 DEF PlaceInv, PlaceShape, BuildingsRefer, BuildingRefers
    <3>2. /\ lost(building[b].phase) \in Phases \cup {Null}
          /\ lost(building[b].phase) # Null => /\ lost(building[b].phase) = building[b].phase
                                              /\ phase'[building[b].phase] # Null
      BY <3>1 DEF BuildingRows
    <3> HIDE DEF lost
    <3>. QED  BY <2>1, <2>4, <3>1, <3>2 DEF BuildingRows
  <2>5. \A b \in Buildings : building'[b] = IF building[b] = Null \/ building[b].project = p THEN Null ELSE brow(b)
    BY <2>1
  <2> HIDE DEF brow
  <2>6. \A b \in Buildings : building[b] # Null /\ building[b].project # p => brow(b) # Null
    BY <2>4, PlacementAssumption
  <2>7. ASSUME NEW u \in Inventory, Exists(u)
        PROVE  /\ row(u) \in UnitRows /\ row(u).project = placed[u].project /\ row(u).project \in project'
               /\ row(u).place = placed[u].place /\ row(u).point = placed[u].point
               /\ row(u).phase # Null => row(u).phase = placed[u].phase /\ phase'[row(u).phase] # Null
               /\ row(u).building # Null => row(u).building = placed[u].building /\ building'[row(u).building] # Null
    <3>1. placed[u] \in UnitRows /\ RowRefers(placed[u]) /\ placed[u].project # p
      BY <1>4, <2>7, ExistingUnitRow DEF UnitsOf
    <3>2. /\ lost(placed[u].phase) \in Phases \cup {Null}
          /\ lost(placed[u].phase) # Null => lost(placed[u].phase) = placed[u].phase /\ phase'[placed[u].phase] # Null
          /\ out(placed[u].building) \in Buildings \cup {Null}
          /\ out(placed[u].building) # Null => /\ out(placed[u].building) = placed[u].building
                                              /\ building'[placed[u].building] # Null
      BY <3>1 DEF UnitRows
    <3> HIDE DEF lost, out
    <3>. QED  BY <2>1, <3>1, <3>2 DEF UnitRows, RowRefers
  <2> HIDE DEF row, p, lost, out
  <2>8. \A u \in Inventory : Exists(u) => row(u) # Null
    BY <2>7, PlacementAssumption
  <2>9. \A u \in Inventory : placed'[u] = IF ~Exists(u) THEN Null ELSE row(u)
    BY <2>1
  <2>10. PlaceShape'
    BY <1>1, <2>1, <2>2, <2>4, <2>7 DEF PlaceInv, PlaceShape, JobsEnd
  <2>11. Evolves
    <3>1. dead \subseteq dead' /\ PhasesEvolve
      BY <1>2, <2>1, <2>2, <2>3 DEF PhasesEvolve
    <3>2. BuildingsEvolve
      BY <2>1, <2>4, <2>5, <2>6 DEF BuildingsEvolve, BuildingGone
    <3>3. UnitsEvolve
      BY <2>7, <2>8, <2>9 DEF UnitsEvolve, UnitGone, Exists
    <3>. QED  BY <1>1, <3>1, <3>2, <3>3 DEF Evolves
  <2>12. PhasesRefer' /\ BuildingsRefer'
    BY <2>1, <2>2, <2>3, <2>4, <2>5 DEF PhasesRefer, PhaseRefers, BuildingsRefer, BuildingRefers
  <2>13. UnitsRefer'
    <3>1. ASSUME NEW u \in Inventory, placed'[u] # Null  PROVE RowRefers(placed[u])' /\ PlaceAgrees(placed[u])'
      <4>1. Exists(u) /\ placed'[u] = row(u) /\ PlaceAgrees(placed[u])
        BY <2>9, <3>1, ExistingUnitRow
      <4>. QED  BY <2>7, <4>1 DEF RowRefers, PlaceAgrees
    <3>. QED  BY <3>1 DEF UnitsRefer
  <2>14. UnitsInside'
    <3>1. ASSUME NEW u \in Inventory \ moved', placed'[u] # Null  PROVE RowInside(placed[u])'
      <4>1. Exists(u) /\ placed'[u] = row(u) /\ RowInside(placed[u]) /\ placed[u] \in UnitRows
        BY <1>1, <2>9, <3>1, ExistingUnitRow
      <4>2. row(u).phase # Null => row(u).phase \in Phases /\ phase'[row(u).phase] = phase[row(u).phase]
        BY <2>3, <2>7, <4>1 DEF UnitRows
      <4>3. row(u).building # Null => /\ row(u).building \in Buildings
                                      /\ building'[row(u).building].project = building[row(u).building].project
        BY <2>4, <2>5, <2>7, <4>1 DEF UnitRows
      <4>. QED  BY <2>7, <4>1, <4>2, <4>3 DEF RowInside
    <3>. QED  BY <3>1 DEF UnitsInside
  <2>15. BuildingsInside'
    <3>1. ASSUME NEW b \in Buildings \ moved', building'[b] # Null, building'[b].phase # Null
          PROVE  phase'[building'[b].phase] = building'[b].project
      <4>1. /\ building[b] # Null /\ building[b].project # p /\ building'[b] = brow(b)
            /\ building[b] \in BuildingRows
        BY <2>5, <3>1 DEF PlaceInv, PlaceShape
      <4>2. /\ brow(b).phase = building[b].phase /\ phase'[brow(b).phase] # Null /\ building[b].phase \in Phases
            /\ brow(b).project = building[b].project
        BY <2>4, <3>1, <4>1 DEF BuildingRows
      <4>3. phase[building[b].phase] = building[b].project
        BY <1>1, <3>1, <4>1, <4>2 DEF PlaceInv, BuildingsInside, BuildingInside
      <4>. QED  BY <2>3, <4>1, <4>2, <4>3
    <3>. QED  BY <3>1 DEF BuildingsInside, BuildingInside
  <2>. QED  BY <1>1, <2>10, <2>11, <2>12, <2>13, <2>14, <2>15, StructureWritten
<1>. QED  BY <1>3, <1>4

LEMMA CreatePhaseInv ==
  ASSUME PlaceInv, NEW a \in Admins, NEW h \in Phases, NEW p \in Projects, CreatePhase(a, h, p)
  PROVE  PlaceInv'
<1>1. /\ JobsEnd /\ UNCHANGED <<project, building, placed, dead, moved>>
      /\ phase[h] = Null /\ h \notin dead /\ p \in project
      /\ phase' = [phase EXCEPT ![h] = p] /\ phase \in [Phases -> Projects \cup {Null}]
      /\ p # Null
  BY FinishEnds, PlacementAssumption DEF CreatePhase, PlaceInv, PlaceShape
<1>2. \A g \in Phases : phase'[g] = IF g = h THEN p ELSE phase[g]
  BY <1>1
<1>3. Evolves
  BY <1>1, <1>2 DEF Evolves, PhasesEvolve, BuildingsEvolve, UnitsEvolve, BuildingGone, UnitGone
<1>4. PlaceShape'
  BY <1>1 DEF PlaceInv, PlaceShape, JobsEnd
<1>5. PhasesRefer'
  BY <1>1, <1>2 DEF PlaceInv, PhasesRefer, PhaseRefers
<1>6. ASSUME NEW b \in Buildings, building[b] # Null, building[b].phase # Null
      PROVE  building[b].phase \in Phases /\ building[b].phase # h
  BY <1>1, <1>6 DEF PlaceInv, PlaceShape, BuildingRows, BuildingsRefer, BuildingRefers
<1>7. BuildingsRefer' /\ BuildingsInside'
  BY <1>1, <1>2, <1>6 DEF PlaceInv, BuildingsRefer, BuildingRefers, BuildingsInside, BuildingInside
<1>8. ASSUME NEW u \in Inventory, placed[u] # Null, placed[u].phase # Null
      PROVE  placed[u].phase \in Phases /\ placed[u].phase # h
  BY <1>1, <1>8, ExistingUnitRow DEF Exists, UnitRows, RowRefers
<1>9. UnitsRefer' /\ UnitsInside'
  BY <1>1, <1>2, <1>8 DEF PlaceInv, UnitsRefer, UnitsInside, RowRefers, PlaceAgrees, RowInside
<1>. QED  BY <1>1, <1>3, <1>4, <1>5, <1>7, <1>9, StructureWritten

LEMMA DeletePhaseInv ==
  ASSUME PlaceInv, NEW a \in Admins, DeletePhase(a)
  PROVE  PlaceInv'
<1> DEFINE h == job[a].phase
           row(u) == [placed[u] EXCEPT !.phase = Null]
           brow(b) == [building[b] EXCEPT !.phase = Null]
<1>1. /\ job[a].kind = "dropPhase" /\ JobsEnd /\ UNCHANGED <<project, moved>>
      /\ phase' = [phase EXCEPT ![h] = Null] /\ dead' = dead \cup {h}
      /\ placed' = [u \in Inventory |-> IF Exists(u) /\ placed[u].phase = h THEN row(u) ELSE placed[u]]
      /\ building' = [b \in Buildings |-> IF building[b] # Null /\ building[b].phase = h THEN brow(b) ELSE building[b]]
  BY FinishEnds DEF DeletePhase, Running, PlaceInv
<1>2. h \in Phases
  BY <1>1, RunningJob, JobKinds DEF PhaseDrops
<1> HIDE DEF h
<1>3. \A g \in Phases : phase'[g] = IF g = h THEN Null ELSE phase[g]
  BY <1>1, <1>2 DEF PlaceInv, PlaceShape
<1>4. ASSUME NEW u \in Inventory, Exists(u)
      PROVE  /\ row(u) \in UnitRows /\ row(u).project = placed[u].project /\ row(u).phase = Null
             /\ row(u).building = placed[u].building
             /\ row(u).place = placed[u].place /\ row(u).point = placed[u].point
  BY <1>4, ExistingUnitRow DEF UnitRows
<1>5. ASSUME NEW b \in Buildings, building[b] # Null
      PROVE  brow(b) \in BuildingRows /\ brow(b).project = building[b].project /\ brow(b).phase = Null
  BY <1>5 DEF PlaceInv, PlaceShape, BuildingRows
<1> HIDE DEF row, brow
<1>6. \A u \in Inventory : Exists(u) => row(u) # Null
  BY <1>4, PlacementAssumption
<1>7. \A b \in Buildings : building[b] # Null => brow(b) # Null
  BY <1>5, PlacementAssumption
<1>8. \A u \in Inventory : /\ placed'[u] # Null <=> placed[u] # Null
                           /\ placed[u] # Null =>
                                /\ placed'[u].project = placed[u].project /\ placed'[u].building = placed[u].building
                                /\ placed'[u].place = placed[u].place /\ placed'[u].point = placed[u].point
                                /\ placed'[u].phase = IF placed[u].phase = h THEN Null ELSE placed[u].phase
  BY <1>1, <1>4, <1>6 DEF Exists
<1>9. \A b \in Buildings : /\ building'[b] # Null <=> building[b] # Null
                           /\ building[b] # Null =>
                                /\ building'[b].project = building[b].project
                                /\ building'[b].phase = IF building[b].phase = h THEN Null ELSE building[b].phase
  BY <1>1, <1>5, <1>7
<1>10. PlaceShape'
  BY <1>1, <1>4, <1>5 DEF PlaceInv, PlaceShape, JobsEnd, Exists
<1>11. Evolves
  BY PlacementAssumption, <1>1, <1>3, <1>8, <1>9 DEF Evolves, PhasesEvolve, BuildingsEvolve, UnitsEvolve, BuildingGone, UnitGone
<1>12. PhasesRefer'
  BY <1>1, <1>3 DEF PlaceInv, PhasesRefer, PhaseRefers
<1>13. \A b \in Buildings : building[b] # Null => building[b].phase \in Phases \cup {Null}
  BY DEF PlaceInv, PlaceShape, BuildingRows
<1>14. BuildingsRefer' /\ BuildingsInside'
  BY <1>1, <1>3, <1>9, <1>13 DEF PlaceInv, BuildingsRefer, BuildingRefers, BuildingsInside, BuildingInside
<1>15. \A u \in Inventory : placed[u] # Null =>
         placed[u].phase \in Phases \cup {Null} /\ placed[u].building \in Buildings \cup {Null}
  BY DEF PlaceInv, PlaceShape, UnitRows
<1>16. UnitsRefer'
  BY PlacementAssumption, <1>1, <1>3, <1>8, <1>9, <1>15 DEF PlaceInv, UnitsRefer, RowRefers, PlaceAgrees
<1>17. UnitsInside'
  <2>1. ASSUME NEW u \in Inventory \ moved', placed'[u] # Null  PROVE RowInside(placed[u])'
    <3>1. placed[u] # Null /\ RowInside(placed[u]) /\ RowRefers(placed[u])
      BY PlacementAssumption, <1>1, <1>8, <2>1 DEF PlaceInv, UnitsInside, UnitsRefer
    <3>. QED  BY PlacementAssumption, <1>3, <1>8, <1>9, <1>15, <3>1 DEF RowInside, RowRefers
  <2>. QED  BY <2>1 DEF UnitsInside
<1>. QED  BY <1>1, <1>10, <1>11, <1>12, <1>14, <1>16, <1>17, StructureWritten

\* A building row is written: a new one, or one that keeps its project.
LEMMA BuildingWritten ==
  ASSUME PlaceInv, UNCHANGED <<project, phase, placed, dead>>, moved \subseteq moved', JobsEnd,
         NEW b \in Buildings, NEW row \in BuildingRows, building' = [building EXCEPT ![b] = row],
         row.project \in project, row.phase # Null => phase[row.phase] # Null,
         b \in moved' \/ row.phase = Null \/ phase[row.phase] = row.project,
         \/ building[b] = Null /\ b \notin dead
         \/ building[b] # Null /\ row.project = building[b].project
  PROVE  PlaceInv'
<1>1. /\ \A c \in Buildings : building'[c] = IF c = b THEN row ELSE building[c]
      /\ row # Null
  BY PlacementAssumption DEF PlaceInv, PlaceShape
<1>2. Evolves
  BY <1>1 DEF Evolves, PhasesEvolve, BuildingsEvolve, UnitsEvolve, BuildingGone, UnitGone
<1>3. PlaceShape'
  BY DEF PlaceInv, PlaceShape, JobsEnd
<1>4. PhasesRefer' /\ BuildingsRefer'
  BY <1>1 DEF PlaceInv, PhasesRefer, PhaseRefers, BuildingsRefer, BuildingRefers
<1>5. BuildingsInside'
  BY <1>1 DEF PlaceInv, BuildingsInside, BuildingInside
<1>6. ASSUME NEW u \in Inventory, placed[u] # Null, placed[u].building # Null
      PROVE  /\ placed[u].building \in Buildings /\ building[placed[u].building] # Null
             /\ building'[placed[u].building] # Null
             /\ building'[placed[u].building].project = building[placed[u].building].project
  <2>1. placed[u].building \in Buildings /\ building[placed[u].building] # Null
    BY <1>6, ExistingUnitRow DEF Exists, UnitRows, RowRefers
  <2>. QED  BY <1>1, <2>1
<1>7. UnitsRefer' /\ UnitsInside'
  BY <1>6 DEF PlaceInv, UnitsRefer, UnitsInside, RowRefers, PlaceAgrees, RowInside
<1>. QED  BY <1>2, <1>3, <1>4, <1>5, <1>7, StructureWritten

LEMMA CreateBuildingInv ==
  ASSUME PlaceInv, NEW a \in Admins, NEW b \in Buildings, NEW p \in Projects,
         NEW h \in Phases \cup {Null}, CreateBuilding(a, b, p, h)
  PROVE  PlaceInv'
<1> DEFINE row == [project |-> p, phase |-> h]
<1>1. row \in BuildingRows /\ row.project = p /\ row.phase = h
  BY DEF BuildingRows
<1>2. /\ JobsEnd /\ UNCHANGED <<project, phase, placed, dead>>
      /\ building[b] = Null /\ b \notin dead /\ p \in project /\ (h # Null => phase[h] # Null)
      /\ building' = [building EXCEPT ![b] = row]
      /\ moved' = IF h # Null /\ phase[h] # p THEN moved \cup {b} ELSE moved
  BY FinishEnds DEF CreateBuilding, PlaceInv
<1> HIDE DEF row
<1>. QED  BY <1>1, <1>2, BuildingWritten

LEMMA UpdateBuildingInv ==
  ASSUME PlaceInv, NEW a \in Admins, NEW b \in Buildings, NEW h \in Phases, UpdateBuilding(a, b, h)
  PROVE  PlaceInv'
<1> DEFINE row == [building[b] EXCEPT !.phase = h]
<1>1. /\ JobsEnd /\ UNCHANGED <<project, phase, placed, dead>>
      /\ building[b] # Null /\ phase[h] # Null
      /\ building' = [building EXCEPT ![b] = row]
      /\ moved' = IF phase[h] # building[b].project THEN moved \cup {b} ELSE moved
  BY FinishEnds DEF UpdateBuilding, PlaceInv
<1>2. building[b] \in BuildingRows /\ building[b].project \in project
  BY <1>1 DEF PlaceInv, PlaceShape, BuildingsRefer, BuildingRefers
<1>3. row \in BuildingRows /\ row.project = building[b].project /\ row.phase = h
  BY <1>2 DEF BuildingRows
<1> HIDE DEF row
<1>. QED  BY <1>1, <1>2, <1>3, BuildingWritten

LEMMA DeleteBuildingInv ==
  ASSUME PlaceInv, NEW a \in Admins, NEW b \in Buildings, DeleteBuilding(a, b)
  PROVE  PlaceInv'
<1> DEFINE row(u) == [placed[u] EXCEPT !.building = Null]
<1>1. /\ JobsEnd /\ UNCHANGED <<project, phase, moved>>
      /\ building' = [building EXCEPT ![b] = Null] /\ dead' = dead \cup {b}
      /\ placed' = [u \in Inventory |-> IF Exists(u) /\ placed[u].building = b THEN row(u) ELSE placed[u]]
  BY FinishEnds DEF DeleteBuilding, PlaceInv
<1>2. \A c \in Buildings : building'[c] = IF c = b THEN Null ELSE building[c]
  BY <1>1 DEF PlaceInv, PlaceShape
<1>3. ASSUME NEW u \in Inventory, Exists(u)
      PROVE  /\ row(u) \in UnitRows /\ row(u).project = placed[u].project /\ row(u).phase = placed[u].phase
             /\ row(u).building = Null
             /\ row(u).place = placed[u].place /\ row(u).point = placed[u].point
  BY <1>3, ExistingUnitRow DEF UnitRows
<1> HIDE DEF row
<1>4. \A u \in Inventory : Exists(u) => row(u) # Null
  BY <1>3, PlacementAssumption
<1>5. \A u \in Inventory : /\ placed'[u] # Null <=> placed[u] # Null
                           /\ placed[u] # Null =>
                                /\ placed'[u].project = placed[u].project /\ placed'[u].phase = placed[u].phase
                                /\ placed'[u].place = placed[u].place /\ placed'[u].point = placed[u].point
                                /\ placed'[u].building = IF placed[u].building = b THEN Null ELSE placed[u].building
  BY <1>1, <1>3, <1>4 DEF Exists
<1>6. PlaceShape'
  BY <1>1, <1>3 DEF PlaceInv, PlaceShape, JobsEnd
<1>7. Evolves
  BY PlacementAssumption, <1>1, <1>2, <1>5 DEF Evolves, PhasesEvolve, BuildingsEvolve, UnitsEvolve, BuildingGone, UnitGone
<1>8. PhasesRefer' /\ BuildingsRefer' /\ BuildingsInside'
  BY <1>1, <1>2 DEF PlaceInv, PhasesRefer, PhaseRefers, BuildingsRefer, BuildingRefers, BuildingsInside, BuildingInside
<1>9. \A u \in Inventory : placed[u] # Null => placed[u].building \in Buildings \cup {Null}
  BY DEF PlaceInv, PlaceShape, UnitRows
<1>10. UnitsRefer'
  BY PlacementAssumption, <1>1, <1>2, <1>5, <1>9 DEF PlaceInv, UnitsRefer, RowRefers, PlaceAgrees
<1>11. UnitsInside'
  BY PlacementAssumption, <1>1, <1>2, <1>5, <1>9 DEF PlaceInv, UnitsInside, RowInside
<1>. QED  BY <1>1, <1>6, <1>7, <1>8, <1>10, <1>11, StructureWritten

-----------------------------------------------------------------------------
(* Theorems *)

LEMMA PlaceInvNext ==
  ASSUME PlaceInv, [PlacementNext]_placeVars
  PROVE  PlaceInv'
<1>1. CASE UNCHANGED placeVars
  <2>1. JobsEnd
    BY <1>1, FinishEnds DEF placeVars, PlaceInv, PlaceShape, JobsEnd
  <2>. QED  BY <1>1, <2>1, NothingWritten DEF placeVars
<1>2. ASSUME NEW a \in Admins,
             \/ \E p \in Projects : CreateProject(a, p) \/ BeginDeleteProject(a, p) \/ BeginBackfill(a, p)
             \/ \E p \in Projects, h \in Phases : CreatePhase(a, h, p)
             \/ \E h \in Phases : BeginDeletePhase(a, h)
             \/ \E b \in Buildings, p \in Projects, h \in Phases \cup {Null} : CreateBuilding(a, b, p, h)
             \/ \E b \in Buildings, h \in Phases : UpdateBuilding(a, b, h)
             \/ \E b \in Buildings : DeleteBuilding(a, b)
             \/ DeleteProject(a) \/ DeletePhase(a)
      PROVE  PlaceInv'
  BY <1>2, CreateProjectInv, BeginDeleteInv, BeginBackfillInv, CreatePhaseInv, CreateBuildingInv,
     UpdateBuildingInv, DeleteBuildingInv, DeleteProjectInv, DeletePhaseInv
<1>3. ASSUME NEW a \in Admins,
             \/ \E u \in Inventory, p \in Projects, h \in Phases, b \in Buildings \cup {Null} :
                  BeginCreateUnit(a, u, p, h, b)
             \/ \E u \in Inventory, p \in Projects, h \in Phases \cup {Null}, b \in Buildings \cup {Null} :
                  UpdateUnit(a, u, p, h, b)
             \/ \E us \in SUBSET Inventory, p \in Projects : BulkAssignProject(a, us, p)
             \/ \E us \in SUBSET Inventory : BulkDelete(a, us)
             \/ \E u \in Inventory, p \in Projects, b \in Buildings, act \in {"ASSIGN", "REMOVE"} :
                  BeginAssignment(a, p, u, b, act)
             \/ \E u \in Inventory, b \in Buildings : BeginInternalLocation(a, u, b)
             \/ \E us \in SUBSET Inventory, p \in Projects, b \in Buildings \cup {Null} : BeginBulkAssign(a, p, us, b)
      PROVE  PlaceInv'
  BY <1>3, BeginCreateUnitInv, UpdateUnitInv, BulkAssignProjectInv, BulkDeleteInv, BeginAssignmentInv,
     BeginInternalLocationInv, BeginBulkAssignInv
<1>4. ASSUME NEW a \in Admins,
             \/ \E u \in Inventory : BeginLocate(a, u) \/ SetLocation(a, u)
             \/ CreateUnit(a) \/ BackfillLegacyUnitPhases(a)
             \/ Assign(a) \/ Unassign(a) \/ InternalLocation(a) \/ BulkAssignMasterPlan(a) \/ LocateUnit(a)
      PROVE  PlaceInv'
  BY <1>4, BeginDeleteInv, LocateInv, CreateUnitInv, BackfillInv, AssignInv, UnassignInv, InternalLocationInv,
     BulkAssignMasterPlanInv
<1>. QED  BY <1>1, <1>2, <1>3, <1>4 DEF PlacementNext

\* The inductive invariant holds in every reachable state.
THEOREM PlacementInvariant == PlacementSpec => []PlaceInv
<1>1. PlacementInit => PlaceInv
  BY PlaceInvInit
<1>2. PlaceInv /\ [PlacementNext]_placeVars => PlaceInv'
  BY PlaceInvNext
<1>. QED  BY <1>1, <1>2, PTL DEF PlacementSpec

\* Foreign keys hold and the columns of a place agree in every interleaving of the admins'
\* requests, for any number of rows.
THEOREM PlacementTyped == PlacementSpec => []PlacementTypeOK
<1>1. PlaceInv => PlacementTypeOK
  BY DEF PlaceInv, PhasesRefer, PhaseRefers, BuildingsRefer, BuildingRefers, UnitsRefer, RowRefers, PlaceAgrees,
         Exists, PlacementTypeOK
<1>. QED  BY <1>1, PlacementInvariant, PTL

\* A unit no unchecked edit placed stands inside its project: phase and building are of that
\* project, whatever happened between the check of a handler and its write.
THEOREM UnitsStayInside == PlacementSpec => []InsideProject
<1>1. PlaceInv => InsideProject
  BY DEF PlaceInv, UnitsInside, RowInside, Exists, InsideProject
<1>. QED  BY <1>1, PlacementInvariant, PTL

-----------------------------------------------------------------------------
(* Documents *)

ItemRows == [of : Texts, status : ItemStatuses, source : {"cited", "found", Blank}, vetted : BOOLEAN]
Records == [structured : {"pending", "stored", "unavailable"}, status : ItemStatuses, due : Nat, together : BOOLEAN]
Work == [at : {"free", "read", "store", "paste", "category", "approve"}, about : Texts \cup {Blank},
         left : Readings \cup {<<>>}]

KnowledgeShape ==
  /\ knowledge \in [Texts -> Records \cup {Blank}]
  /\ item \in [Items -> ItemRows \cup {Blank}]
  /\ admin \in [Editors -> Work]
  /\ asked \in 0..MaxEdits

\* The request that stores the items of a text, if there is one, is the only one, and knows
\* what is stored already.
Storing(task) == task.at \in {"read", "store", "category"}
WorkSound(task) ==
  Storing(task) =>
    /\ task.about \in Texts /\ knowledge[task.about] # Blank
    /\ IF task.at = "category"
       THEN ~knowledge[task.about].together /\ knowledge[task.about].due = Cardinality(WithContent(task.left))
       ELSE knowledge[task.about].together /\ Of(task.about) = {}
WorkApart == \A p, q \in Editors : Storing(admin[p]) /\ Storing(admin[q]) /\ admin[p].about = admin[q].about => p = q

ItemsCounted(k) ==
  /\ IsFiniteSet(Of(k))
  /\ knowledge[k] = Blank => Of(k) = {}
  /\ knowledge[k] # Blank => IF knowledge[k].together THEN Cardinality(Of(k)) = knowledge[k].due
                               ELSE Cardinality(Of(k)) <= knowledge[k].due

KnowledgeInv ==
  /\ KnowledgeShape
  /\ \A i \in Items : item[i] # Blank /\ item[i].status = "APPROVED" => item[i].vetted
  /\ \A k \in Texts : ItemsCounted(k)
  /\ \A p \in Editors : WorkSound(admin[p])
  /\ WorkApart

LEMMA NoRowIsBlank == Blank \notin ItemRows /\ Blank \notin Records
  BY KnowledgeAssumption DEF ItemRows, Records, ItemStatuses

\* The categories of a reading that have content, counted.
LEMMA ContentCounted ==
  ASSUME NEW reading \in Readings \cup {<<>>}
  PROVE  /\ WithContent(reading) \subseteq Int /\ IsFiniteSet(WithContent(reading))
         /\ Cardinality(WithContent(reading)) \in Nat
<1>1. reading \in Seq({"empty", "cited", "found", "own"})
  <2>1. Readings \subseteq Seq({"empty", "cited", "found", "own"})
    BY KnowledgeAssumption
  <2>2. <<>> \in Seq({"empty", "cited", "found", "own"})
    OBVIOUS
  <2>3. CASE reading \in Readings
    BY <2>1, <2>3
  <2>4. CASE reading = <<>>
    BY <2>2, <2>4
  <2>. QED  BY <2>3, <2>4
<1>2. DOMAIN reading = 1..Len(reading) /\ Len(reading) \in Nat
  BY <1>1
<1>3. IsFiniteSet(1..Len(reading)) /\ WithContent(reading) \subseteq 1..Len(reading)
  BY <1>2, FS_Interval DEF WithContent
<1>. QED  BY <1>3, FS_Subset, FS_CardinalityType

NextOnes(S, n) == {c \in S : Cardinality({d \in S : d <= c}) = n}

\* The categories to store next: one, while there are any left.
LEMMA NextCategory ==
  ASSUME NEW S, S \subseteq Int, IsFiniteSet(S), NEW n \in Nat,
         NEW todo, todo = NextOnes(S, n)
  PROVE  /\ IsFiniteSet(todo) /\ todo \subseteq S
         /\ todo # {} => Cardinality(todo) = 1 /\ n <= Cardinality(S)
<1>1. ASSUME NEW c \in todo, NEW d \in todo, c < d PROVE FALSE
  <2> DEFINE C == {x \in S : x <= c}
             D == {x \in S : x <= d}
  <2>1. c \in S /\ d \in S /\ c \in Int /\ d \in Int
    BY DEF NextOnes
  <2>2. \A x \in S : x \in Int /\ (x <= c => x <= d)
    BY <1>1, <2>1
  <2>3. C \subseteq D /\ D \subseteq S
    BY <2>2
  <2>4. d \in D /\ d \notin C
    BY <1>1, <2>1
  <2>5. Cardinality(C) = n /\ Cardinality(D) = n
    BY DEF NextOnes
  <2>6. C \subseteq D /\ d \in D /\ d \notin C /\ Cardinality(C) = n /\ Cardinality(D) = n /\ D \subseteq S
    BY <2>3, <2>4, <2>5
  <2> HIDE DEF C, D
  <2>7. IsFiniteSet(D)
    BY <2>6, FS_Subset
  <2>. QED  BY <2>6, <2>7, FS_Subset
<1>2. \A c, d \in todo : c = d
  <2>1. \A c \in todo : c \in Int
    BY DEF NextOnes
  <2>. QED  BY <1>1, <2>1
<1>3. todo \subseteq S /\ IsFiniteSet(todo)
  BY FS_Subset DEF NextOnes
<1>4. ASSUME todo # {} PROVE Cardinality(todo) = 1 /\ n <= Cardinality(S)
  <2>1. PICK c : c \in todo
    BY <1>4
  <2>2. todo = {c}
    BY <1>2, <2>1
  <2>3. Cardinality({c}) = 1
    BY FS_Singleton
  <2> DEFINE C == {x \in S : x <= c}
  <2>4. C \subseteq S /\ Cardinality(C) = n
    BY <2>1 DEF NextOnes
  <2> HIDE DEF C
  <2>5. Cardinality(C) <= Cardinality(S)
    BY <2>4, FS_Subset
  <2>. QED  BY <2>2, <2>3, <2>4, <2>5
<1>. QED  BY <1>3, <1>4

\* New items of a text are rows that were not there, as many as categories.
LEMMA ItemsAdded ==
  ASSUME KnowledgeInv, NEW k \in Texts, NEW reading \in Readings \cup {<<>>}, NEW S, S \subseteq WithContent(reading),
         IsFiniteSet(S), NEW rows \in NewRows(S), item' = CreatedItems(k, reading, rows)
  PROVE  /\ item' \in [Items -> ItemRows \cup {Blank}]
         /\ \A i \in Items : item'[i] # Blank /\ item'[i].status = "APPROVED" => item'[i].vetted
         /\ \A c \in Texts : c # k => Of(c)' = Of(c)
         /\ Of(k)' = Of(k) \cup DOMAIN rows /\ Of(k) \cap DOMAIN rows = {}
         /\ IsFiniteSet(Of(k)') /\ Cardinality(Of(k)') = Cardinality(Of(k)) + Cardinality(S)
<1>1. PICK new \in SUBSET Unused : rows \in Bijection(new, S)
  BY DEF NewRows
<1>2. DOMAIN rows = new /\ new \subseteq Items /\ \A i \in new : item[i] = Blank /\ rows[i] \in S
  BY <1>1 DEF Bijection, Injection, Surjection, Unused
<1>3. IsFiniteSet(new) /\ Cardinality(new) = Cardinality(S)
  <2>1. ExistsBijection(new, S)
    BY <1>1 DEF ExistsBijection
  <2>2. ExistsBijection(S, new)
    BY <2>1, Fun_ExistsBijSymmetric
  <2>. QED  BY <2>2, FS_Bijection
<1>4. \A i \in new : item'[i] = [of |-> k, status |-> "PENDING", source |-> Source(reading[rows[i]]), vetted |-> FALSE]
  BY <1>2 DEF CreatedItems
<1>5. \A i \in new : item'[i] \in ItemRows /\ item'[i].of = k /\ item'[i].status # "APPROVED"
  <2>1. ASSUME NEW i \in new
        PROVE  item'[i] \in ItemRows /\ item'[i].of = k /\ item'[i].status # "APPROVED"
    <3>1. Source(reading[rows[i]]) \in {"cited", "found", Blank}
      BY DEF Source
    <3>2. \A v \in {"cited", "found", Blank} :
            [of |-> k, status |-> "PENDING", source |-> v, vetted |-> FALSE] \in ItemRows
      BY DEF ItemRows, ItemStatuses
    <3>. QED  BY <1>4, <2>1, <3>1, <3>2
  <2>. QED  BY <2>1
<1>6. item' = [i \in Items |-> item'[i]] /\ \A i \in Items \ new : item'[i] = item[i]
  BY <1>2 DEF CreatedItems
<1>7. item' \in [Items -> ItemRows \cup {Blank}]
  BY <1>5, <1>6 DEF KnowledgeInv, KnowledgeShape
<1>8. /\ \A c \in Texts : c # k => Of(c)' = Of(c)
      /\ Of(k)' = Of(k) \cup new /\ Of(k) \cap new = {}
  BY <1>2, <1>5, <1>6, NoRowIsBlank DEF Of
<1>9. IsFiniteSet(Of(k)') /\ Cardinality(Of(k)') = Cardinality(Of(k)) + Cardinality(S)
  <2>1. IsFiniteSet(Of(k))
    BY DEF KnowledgeInv, ItemsCounted
  <2>2. Cardinality(Of(k) \cap new) = 0
    BY <1>8, FS_EmptySet
  <2>3. Cardinality(Of(k)) \in Nat /\ Cardinality(new) \in Nat
    BY <1>3, <2>1, FS_CardinalityType
  <2>4. Cardinality(Of(k) \cup new) = Cardinality(Of(k)) + Cardinality(new) - Cardinality(Of(k) \cap new)
    BY <1>3, <2>1, FS_Union
  <2>5. IsFiniteSet(Of(k) \cup new)
    BY <1>3, <2>1, FS_Union
  <2>. QED  BY <1>3, <1>8, <2>2, <2>3, <2>4, <2>5
<1>. QED  BY <1>2, <1>5, <1>6, <1>7, <1>8, <1>9 DEF KnowledgeInv

\* Items that keep their text are the items they were.
LEMMA ItemsStay ==
  ASSUME KnowledgeInv, \A i \in Items : (item'[i] = Blank <=> item[i] = Blank)
                                        /\ (item[i] # Blank => item'[i].of = item[i].of)
  PROVE  \A k : Of(k)' = Of(k)
  BY DEF Of

\* A text whose record and items say the same of what is stored.
Alike(c) ==
  /\ knowledge'[c] = Blank <=> knowledge[c] = Blank
  /\ knowledge[c] # Blank => knowledge'[c].together = knowledge[c].together /\ knowledge'[c].due = knowledge[c].due
  /\ Of(c)' = Of(c)

\* One request goes on, and changes no text that another one stores.
LEMMA OneJob ==
  ASSUME KnowledgeInv, NEW p \in Editors, NEW task \in Work, admin' = [admin EXCEPT ![p] = task],
         \A q \in Editors : q # p /\ Storing(admin[q]) => Alike(admin[q].about),
         WorkSound(admin[p])',
         Storing(task) => \A q \in Editors : q # p /\ Storing(admin[q]) => admin[q].about # task.about
  PROVE  admin' \in [Editors -> Work] /\ (\A q \in Editors : WorkSound(admin[q]))' /\ WorkApart'
<1>1. admin \in [Editors -> Work]
  BY DEF KnowledgeInv, KnowledgeShape
<1>2. admin' \in [Editors -> Work] /\ admin'[p] = task /\ \A q \in Editors : q # p => admin'[q] = admin[q]
  BY <1>1
<1>3. ASSUME NEW q \in Editors PROVE WorkSound(admin[q])'
  <2>1. CASE q = p
    BY <2>1
  <2>2. CASE q # p
    <3>1. WorkSound(admin[q]) /\ admin'[q] = admin[q] /\ (Storing(admin[q]) => Alike(admin[q].about))
      BY <1>2, <2>2 DEF KnowledgeInv
    <3>. QED  BY <3>1 DEF WorkSound, Storing, Alike
  <2>. QED  BY <2>1, <2>2
<1>4. WorkApart'
  BY <1>2 DEF WorkApart, KnowledgeInv, Storing
<1>. QED  BY <1>2, <1>3, <1>4

LEMMA StillCounted == ASSUME KnowledgeInv PROVE \A c \in Texts : Alike(c) => ItemsCounted(c)'
  BY DEF KnowledgeInv, ItemsCounted, Alike

\* What other requests store are texts that are there.
LEMMA OthersStore ==
  ASSUME KnowledgeInv, NEW p \in Editors, NEW k, \A c \in Texts : c # k => Alike(c),
         \A q \in Editors : q # p /\ Storing(admin[q]) => admin[q].about # k
  PROVE  \A q \in Editors : q # p /\ Storing(admin[q]) => Alike(admin[q].about)
  BY DEF KnowledgeInv, WorkSound

LEMMA NobodyStores ==
  ASSUME KnowledgeInv, \A c \in Texts : Alike(c)
  PROVE  \A q \in Editors : Storing(admin[q]) => Alike(admin[q].about)
  BY DEF KnowledgeInv, WorkSound

\* A request is counted when it is made.
LEMMA OneMoreAsked == ASSUME KnowledgeInv, asked < MaxEdits, asked' = asked + 1 PROVE asked' \in 0..MaxEdits
<1>1. asked \in 0..MaxEdits /\ MaxEdits \in Nat
  BY KnowledgeAssumption DEF KnowledgeInv, KnowledgeShape
<1>. QED  BY <1>1

LEMMA BeginUploadInv == ASSUME KnowledgeInv, NEW p \in Editors, NEW k \in Texts, BeginUpload(p, k) PROVE KnowledgeInv'
<1> DEFINE task == [NoTask EXCEPT !.at = "read", !.about = k]
           row == [structured |-> "pending", status |-> "PENDING", due |-> 0, together |-> TRUE]
<1>1. /\ knowledge[k] = Blank /\ Of(k) = {} /\ knowledge' = [knowledge EXCEPT ![k] = row] /\ item' = item
      /\ admin' = [admin EXCEPT ![p] = task] /\ asked' \in 0..MaxEdits
      /\ knowledge \in [Texts -> Records \cup {Blank}]
  BY KnowledgeAssumption DEF BeginUpload, Begin, KnowledgeInv, KnowledgeShape, ItemsCounted
<1>2. row \in Records /\ task \in Work /\ task.at = "read" /\ task.about = k /\ row.due = 0 /\ row.together
  BY DEF Records, ItemStatuses, Work, NoTask
<1> HIDE DEF task, row
<1>3. /\ knowledge'[k] = row /\ row # Blank /\ knowledge' \in [Texts -> Records \cup {Blank}]
      /\ \A c \in Texts : c # k => Alike(c)
  BY <1>1, <1>2, NoRowIsBlank DEF Alike, Of
<1>4. \A q \in Editors : Storing(admin[q]) => admin[q].about # k
  BY <1>1 DEF KnowledgeInv, WorkSound
<1>5. WorkSound(admin[p])' /\ ItemsCounted(k)'
  <2>1. Of(k)' = {} /\ admin'[p] = task
    BY <1>1 DEF Of, KnowledgeInv, KnowledgeShape
  <2>. QED  BY <1>2, <1>3, <2>1, FS_EmptySet DEF WorkSound, ItemsCounted
<1>6. /\ admin' \in [Editors -> Work] /\ (\A q \in Editors : WorkSound(admin[q]))' /\ WorkApart'
      /\ \A c \in Texts : c # k => ItemsCounted(c)'
  BY <1>1, <1>2, <1>3, <1>4, <1>5, OneJob, StillCounted, OthersStore
<1>. QED  BY <1>1, <1>3, <1>5, <1>6 DEF KnowledgeInv, KnowledgeShape

\* A request ends, or goes on, and changes no text.
LEMMA QuietJob ==
  ASSUME KnowledgeInv, NEW p \in Editors, NEW task \in Work, admin' = [admin EXCEPT ![p] = task],
         UNCHANGED <<knowledge, item>>, asked' \in 0..MaxEdits,
         Storing(task) => Storing(admin[p]) /\ task.about = admin[p].about /\ task.at # "category" /\ admin[p].at # "category"
  PROVE  KnowledgeInv'
<1>1. \A c \in Texts : Alike(c)
  BY DEF Alike, Of
<1>2. WorkSound(admin[p])'
  <2>1. admin'[p] = task
    BY DEF KnowledgeInv, KnowledgeShape
  <2>. QED  BY <2>1 DEF WorkSound, KnowledgeInv, Storing, Of
<1>3. Storing(task) => \A q \in Editors : q # p /\ Storing(admin[q]) => admin[q].about # task.about
  BY DEF KnowledgeInv, WorkApart
<1>4. /\ admin' \in [Editors -> Work] /\ (\A q \in Editors : WorkSound(admin[q]))' /\ WorkApart'
      /\ \A c \in Texts : ItemsCounted(c)'
  BY <1>1, <1>2, <1>3, OneJob, StillCounted, NobodyStores
<1>. QED  BY <1>4 DEF KnowledgeInv, KnowledgeShape

LEMMA NoTaskQuiet == NoTask \in Work /\ ~Storing(NoTask)
  BY DEF NoTask, Work, Storing

LEMMA ExtractKnowledgeInv == ASSUME KnowledgeInv, NEW p \in Editors, ExtractKnowledge(p) PROVE KnowledgeInv'
<1>1. PICK reading \in Readings \cup {<<>>} : Go(p, "store", reading)
  BY DEF ExtractKnowledge
<1> DEFINE task == [admin[p] EXCEPT !.at = "store", !.left = reading]
<1>2. admin[p] \in Work /\ admin[p].at = "read" /\ UNCHANGED <<knowledge, item, asked>> /\ asked \in 0..MaxEdits
      /\ admin \in [Editors -> Work]
  BY DEF ExtractKnowledge, KnowledgeInv, KnowledgeShape
<1>3. task \in Work /\ task.at = "store" /\ task.about = admin[p].about
  BY <1>2 DEF Work
<1>4. admin' = [admin EXCEPT ![p] = task]
  BY <1>1 DEF Go
<1> HIDE DEF task
<1>. QED  BY <1>2, <1>3, <1>4, QuietJob DEF Storing

LEMMA StoreUploadInv == ASSUME KnowledgeInv, NEW p \in Editors, StoreUpload(p) PROVE KnowledgeInv'
<1>0. PICK k, reading : k = admin[p].about /\ reading = admin[p].left
  OBVIOUS
<1> DEFINE S == WithContent(reading)
           row == [knowledge[k] EXCEPT !.structured = IF reading = <<>> THEN "unavailable" ELSE "stored",
                                       !.due = Cardinality(S)]
<1>1. /\ admin[p] \in Work /\ admin[p].at = "store" /\ WorkSound(admin[p]) /\ Storing(admin[p])
      /\ knowledge \in [Texts -> Records \cup {Blank}]
  BY DEF StoreUpload, KnowledgeInv, KnowledgeShape, Storing
<1>2. /\ k \in Texts /\ knowledge[k] \in Records /\ knowledge[k].together /\ Of(k) = {} /\ reading \in Readings \cup {<<>>}
  BY <1>0, <1>1 DEF WorkSound, Work
<1>3. IsFiniteSet(S) /\ Cardinality(S) \in Nat
  BY <1>2, ContentCounted
<1>4. row \in Records /\ row.due = Cardinality(S) /\ row.together /\ row # Blank
  BY <1>2, <1>3, NoRowIsBlank DEF Records
<1>5. /\ knowledge' = [knowledge EXCEPT ![k] = row] /\ admin' = [admin EXCEPT ![p] = NoTask] /\ asked' = asked
      /\ \E rows \in NewRows(S) : item' = CreatedItems(k, reading, rows)
  BY <1>0, <1>2 DEF StoreUpload, End
<1> HIDE DEF row
<1>6. PICK rows \in NewRows(S) : item' = CreatedItems(k, reading, rows)
  BY <1>5
<1>7. /\ item' \in [Items -> ItemRows \cup {Blank}]
      /\ \A i \in Items : item'[i] # Blank /\ item'[i].status = "APPROVED" => item'[i].vetted
      /\ \A c \in Texts : c # k => Of(c)' = Of(c)
      /\ IsFiniteSet(Of(k)') /\ Cardinality(Of(k)') = Cardinality(Of(k)) + Cardinality(S)
  <2> HIDE DEF S
  <2>1. S \subseteq WithContent(reading)
    BY DEF S
  <2>. QED  BY <1>2, <1>3, <1>6, <2>1, ItemsAdded
<1> HIDE DEF S
<1>8. Cardinality(Of(k)') = Cardinality(S)
  BY <1>2, <1>3, <1>7, FS_EmptySet
<1>9. /\ knowledge'[k] = row /\ knowledge' \in [Texts -> Records \cup {Blank}]
      /\ \A c \in Texts : c # k => Alike(c)
  BY <1>1, <1>2, <1>4, <1>5, <1>7 DEF Alike
<1>10. ItemsCounted(k)'
  BY <1>4, <1>7, <1>8, <1>9 DEF ItemsCounted
<1>11. \A q \in Editors : q # p /\ Storing(admin[q]) => admin[q].about # k
  BY <1>0, <1>1 DEF KnowledgeInv, WorkApart
<1>12. /\ admin' \in [Editors -> Work] /\ (\A q \in Editors : WorkSound(admin[q]))' /\ WorkApart'
       /\ \A c \in Texts : c # k => ItemsCounted(c)'
  <2>1. WorkSound(admin[p])'
    <3>1. admin'[p] = NoTask
      BY <1>5 DEF KnowledgeInv, KnowledgeShape
    <3>. QED  BY <3>1, NoTaskQuiet DEF WorkSound
  <2>. QED  BY <1>5, <1>9, <1>11, <2>1, NoTaskQuiet, OneJob, StillCounted, OthersStore
<1>. QED  BY <1>5, <1>7, <1>9, <1>10, <1>12 DEF KnowledgeInv, KnowledgeShape

LEMMA BeginPasteInv == ASSUME KnowledgeInv, NEW p \in Editors, BeginPaste(p) PROVE KnowledgeInv'
<1>1. PICK reading \in Readings : Begin(p, [NoTask EXCEPT !.at = "paste", !.left = reading])
  BY DEF BeginPaste
<1> DEFINE task == [NoTask EXCEPT !.at = "paste", !.left = reading]
<1>2. task \in Work /\ ~Storing(task)
  BY DEF Work, NoTask, Storing
<1>3. admin' = [admin EXCEPT ![p] = task] /\ UNCHANGED <<knowledge, item>> /\ asked' \in 0..MaxEdits
  BY <1>1, OneMoreAsked DEF Begin, BeginPaste
<1> HIDE DEF task
<1>. QED  BY <1>2, <1>3, QuietJob

LEMMA StorePasteInv == ASSUME KnowledgeInv, NEW p \in Editors, StorePaste(p) PROVE KnowledgeInv'
<1>0. PICK reading : reading = admin[p].left
  OBVIOUS
<1> DEFINE S == WithContent(reading)
           row == [structured |-> "stored", status |-> "PENDING", due |-> Cardinality(S), together |-> FALSE]
<1>1. PICK k \in Texts : /\ knowledge[k] = Blank /\ knowledge' = [knowledge EXCEPT ![k] = row]
                         /\ admin' = [admin EXCEPT ![p].at = "category", ![p].about = k]
  BY <1>0 DEF StorePaste
<1> DEFINE task == [admin[p] EXCEPT !.at = "category", !.about = k]
<1>2. /\ admin[p] \in Work /\ admin \in [Editors -> Work] /\ reading \in Readings \cup {<<>>}
      /\ knowledge \in [Texts -> Records \cup {Blank}] /\ Of(k) = {}
      /\ UNCHANGED <<item, asked>>
  BY <1>0, <1>1 DEF KnowledgeInv, KnowledgeShape, Work, ItemsCounted, StorePaste
<1>3. Cardinality(S) \in Nat
  BY <1>2, ContentCounted
<1>4. /\ task \in Work /\ task.at = "category" /\ task.about = k /\ task.left = reading
      /\ row \in Records /\ row.due = Cardinality(S) /\ ~row.together /\ row # Blank
  <2>1. task \in Work /\ task.at = "category" /\ task.about = k /\ task.left = reading
    BY <1>0, <1>2 DEF Work
  <2>2. row \in Records /\ row.due = Cardinality(S) /\ ~row.together
    BY <1>3 DEF Records, ItemStatuses
  <2>. QED  BY <2>1, <2>2, NoRowIsBlank
<1>5. admin' = [admin EXCEPT ![p] = task]
  BY <1>1, <1>2
<1> HIDE DEF task, row
<1>6. /\ knowledge'[k] = row /\ knowledge' \in [Texts -> Records \cup {Blank}]
      /\ (\A c \in Texts : c # k => Alike(c)) /\ Of(k)' = {}
  BY <1>1, <1>2, <1>4 DEF Alike, Of
<1>7. WorkSound(admin[p])' /\ ItemsCounted(k)'
  <2>1. Cardinality({}) = 0 /\ IsFiniteSet({})
    BY FS_EmptySet
  <2>2. WorkSound(admin[p])'
    <3>1. admin'[p] = task
      BY <1>2, <1>5
    <3>. QED  BY <1>4, <1>6, <3>1 DEF WorkSound, Storing
  <2>. QED  BY <1>3, <1>4, <1>6, <2>1, <2>2 DEF ItemsCounted
<1>8. \A q \in Editors : Storing(admin[q]) => admin[q].about # k
  BY <1>1 DEF KnowledgeInv, WorkSound
<1>9. /\ admin' \in [Editors -> Work] /\ (\A q \in Editors : WorkSound(admin[q]))' /\ WorkApart'
      /\ \A c \in Texts : c # k => ItemsCounted(c)'
  BY <1>4, <1>5, <1>6, <1>7, <1>8, OneJob, StillCounted, OthersStore
<1>. QED  BY <1>2, <1>6, <1>7, <1>9 DEF KnowledgeInv, KnowledgeShape

LEMMA PasteCategoryInv == ASSUME KnowledgeInv, NEW p \in Editors, PasteCategory(p) PROVE KnowledgeInv'
<1>0. PICK k, reading, next, todo :
        /\ k = admin[p].about /\ reading = admin[p].left /\ next = Cardinality(Of(k)) + 1
        /\ todo = NextOnes(WithContent(reading), next)
  OBVIOUS
<1> DEFINE S == WithContent(reading)
<1>1. /\ admin[p] \in Work /\ admin[p].at = "category" /\ Storing(admin[p]) /\ WorkSound(admin[p])
      /\ admin \in [Editors -> Work] /\ knowledge \in [Texts -> Records \cup {Blank}]
      /\ UNCHANGED <<knowledge, asked>> /\ asked \in 0..MaxEdits
  BY DEF PasteCategory, KnowledgeInv, KnowledgeShape, Storing
<1>2. /\ k \in Texts /\ knowledge[k] # Blank /\ ~knowledge[k].together /\ knowledge[k].due = Cardinality(S)
      /\ reading \in Readings \cup {<<>>}
  BY <1>0, <1>1 DEF WorkSound, Work
<1>3. S \subseteq Int /\ IsFiniteSet(S)
  BY <1>2, ContentCounted
<1>4. /\ IsFiniteSet(Of(k)) /\ Cardinality(Of(k)) \in Nat
  BY <1>2, FS_CardinalityType DEF KnowledgeInv, ItemsCounted
<1>5. /\ IsFiniteSet(todo) /\ (todo # {} => Cardinality(todo) = 1 /\ next <= Cardinality(S)) /\ todo \subseteq S
  <2>1. next \in Nat /\ todo = NextOnes(S, next)
    BY <1>0, <1>4
  <2> HIDE DEF S
  <2>. QED  BY <1>3, <2>1, NextCategory
<1>6. IF todo = {} THEN End(p) /\ UNCHANGED item
      ELSE (\E rows \in NewRows(todo) : item' = CreatedItems(k, reading, rows)) /\ UNCHANGED admin
  BY <1>0 DEF PasteCategory, NextOnes
<1>7. CASE todo = {}
  BY <1>1, <1>6, <1>7, QuietJob, NoTaskQuiet DEF End
<1>8. CASE todo # {}
  <2>1. PICK rows \in NewRows(todo) : item' = CreatedItems(k, reading, rows)
    BY <1>6, <1>8
  <2>2. /\ item' \in [Items -> ItemRows \cup {Blank}]
        /\ \A i \in Items : item'[i] # Blank /\ item'[i].status = "APPROVED" => item'[i].vetted
        /\ \A c \in Texts : c # k => Of(c)' = Of(c)
        /\ IsFiniteSet(Of(k)') /\ Cardinality(Of(k)') = Cardinality(Of(k)) + Cardinality(todo)
    <3>. QED  BY <1>2, <1>5, <2>1, ItemsAdded DEF S
  <2>3. Cardinality(Of(k)') <= knowledge[k].due
    BY <1>0, <1>2, <1>4, <1>5, <1>8, <2>2
  <2>4. ItemsCounted(k)'
    BY <1>1, <1>2, <2>2, <2>3 DEF ItemsCounted
  <2>5. \A c \in Texts : c # k => Alike(c)
    BY <1>1, <2>2 DEF Alike
  <2>6. WorkSound(admin[p])'
    BY <1>0, <1>1, <1>2, <1>6, <1>8 DEF WorkSound, WithContent
  <2>7. admin' = [admin EXCEPT ![p] = admin[p]]
    BY <1>1, <1>6, <1>8
  <2>8. \A q \in Editors : q # p /\ Storing(admin[q]) => admin[q].about # k
    BY <1>0, <1>1 DEF KnowledgeInv, WorkApart
  <2>9. \A c \in Texts : c # k => ItemsCounted(c)'
    BY <2>5 DEF KnowledgeInv, ItemsCounted, Alike
  <2>10. (\A q \in Editors : WorkSound(admin[q]))'
    <3>1. ASSUME NEW q \in Editors, q # p PROVE WorkSound(admin[q])'
      <4>1. WorkSound(admin[q]) /\ admin' = admin
        BY <1>6, <1>8 DEF KnowledgeInv
      <4>2. Storing(admin[q]) => admin[q].about \in Texts /\ admin[q].about # k
        BY <2>8, <3>1, <4>1 DEF WorkSound
      <4>. QED  BY <2>5, <4>1, <4>2 DEF WorkSound, Alike
    <3>. QED  BY <2>6, <3>1
  <2>11. WorkApart' /\ admin' \in [Editors -> Work]
    BY <1>1, <1>6, <1>8 DEF KnowledgeInv, WorkApart
  <2>. QED  BY <1>1, <2>2, <2>4, <2>9, <2>10, <2>11 DEF KnowledgeInv, KnowledgeShape
<1>. QED  BY <1>7, <1>8

LEMMA BeginApproveInv == ASSUME KnowledgeInv, NEW p \in Editors, NEW k \in Texts, BeginApprove(p, k) PROVE KnowledgeInv'
<1> DEFINE task == [NoTask EXCEPT !.at = "approve", !.about = k]
           row == [knowledge[k] EXCEPT !.status = "APPROVED"]
<1>1. /\ knowledge[k] \in Records /\ knowledge' = [knowledge EXCEPT ![k] = row] /\ item' = item
      /\ admin' = [admin EXCEPT ![p] = task] /\ asked' \in 0..MaxEdits
      /\ knowledge \in [Texts -> Records \cup {Blank}]
  BY KnowledgeAssumption DEF BeginApprove, Begin, KnowledgeInv, KnowledgeShape
<1>2. /\ row \in Records /\ row.together = knowledge[k].together /\ row.due = knowledge[k].due
      /\ task \in Work /\ ~Storing(task)
  BY <1>1 DEF Records, ItemStatuses, Work, NoTask, Storing
<1> HIDE DEF task, row
<1>3. knowledge' \in [Texts -> Records \cup {Blank}] /\ \A c \in Texts : Alike(c)
  BY <1>1, <1>2, NoRowIsBlank DEF Alike, Of
<1>4. WorkSound(admin[p])'
  <2>1. admin'[p] = task
    BY <1>1 DEF KnowledgeInv, KnowledgeShape
  <2>. QED  BY <1>2, <2>1 DEF WorkSound
<1>5. /\ admin' \in [Editors -> Work] /\ (\A q \in Editors : WorkSound(admin[q]))' /\ WorkApart'
      /\ \A c \in Texts : ItemsCounted(c)'
  BY <1>1, <1>2, <1>3, <1>4, OneJob, StillCounted, NobodyStores
<1>. QED  BY <1>1, <1>3, <1>5 DEF KnowledgeInv, KnowledgeShape

LEMMA ApproveItemsInv == ASSUME KnowledgeInv, NEW p \in Editors, ApproveItems(p) PROVE KnowledgeInv'
<1>1. /\ item \in [Items -> ItemRows \cup {Blank}] /\ admin' = [admin EXCEPT ![p] = NoTask]
      /\ item' = [i \in Items |-> IF i \in PendingItems
                                  THEN [item[i] EXCEPT !.status = "APPROVED", !.vetted = item[i].status # "REJECTED"]
                                  ELSE item[i]]
      /\ UNCHANGED <<knowledge, asked>>
  BY DEF ApproveItems, End, KnowledgeInv, KnowledgeShape
<1>2. ASSUME NEW i \in PendingItems
      PROVE  /\ i \in Items /\ item[i] \in ItemRows /\ item'[i] \in ItemRows /\ item'[i].vetted /\ item'[i].of = item[i].of
  <2>1. i \in Items /\ item[i] \in ItemRows /\ item[i].status = "PENDING"
    BY <1>1 DEF PendingItems
  <2>2. item'[i] = [item[i] EXCEPT !.status = "APPROVED", !.vetted = item[i].status # "REJECTED"]
    BY <1>1, <2>1
  <2>. QED  BY <2>1, <2>2 DEF ItemRows, ItemStatuses
<1>3. \A i \in Items \ PendingItems : item'[i] = item[i]
  BY <1>1
<1>4. /\ item' \in [Items -> ItemRows \cup {Blank}]
      /\ \A i \in Items : item'[i] # Blank /\ item'[i].status = "APPROVED" => item'[i].vetted
  <2>1. item' = [i \in Items |-> item'[i]]
    BY <1>1
  <2>. QED  BY <1>1, <1>2, <1>3, <2>1 DEF KnowledgeInv
<1>5. \A k : Of(k)' = Of(k)
  BY <1>2, <1>3, NoRowIsBlank, ItemsStay
<1>6. \A c \in Texts : Alike(c)
  BY <1>1, <1>5 DEF Alike
<1>7. /\ admin' \in [Editors -> Work] /\ (\A q \in Editors : WorkSound(admin[q]))' /\ WorkApart'
      /\ \A c \in Texts : ItemsCounted(c)'
  <2>1. WorkSound(admin[p])'
    <3>1. admin'[p] = NoTask
      BY <1>1 DEF KnowledgeInv, KnowledgeShape
    <3>. QED  BY <3>1, NoTaskQuiet DEF WorkSound
  <2>. QED  BY <1>1, <1>6, <2>1, NoTaskQuiet, OneJob, StillCounted, NobodyStores
<1>. QED  BY <1>1, <1>4, <1>7 DEF KnowledgeInv, KnowledgeShape

LEMMA UpdateItemInv ==
  ASSUME KnowledgeInv, NEW p \in Editors, NEW i \in Items, NEW st \in ItemStatuses \cup {Blank}, UpdateItem(p, i, st)
  PROVE  KnowledgeInv'
<1> DEFINE row == [item[i] EXCEPT !.status = IF st = Blank THEN @ ELSE st,
                                  !.vetted = IF st = Blank THEN @ ELSE st = "APPROVED"]
<1>1. /\ item \in [Items -> ItemRows \cup {Blank}] /\ item[i] \in ItemRows /\ item' = [item EXCEPT ![i] = row]
      /\ UNCHANGED <<knowledge, admin>> /\ asked' \in 0..MaxEdits
  <2>1. /\ item \in [Items -> ItemRows \cup {Blank}] /\ item[i] # Blank /\ item' = [item EXCEPT ![i] = row]
        /\ UNCHANGED <<knowledge, admin>> /\ asked < MaxEdits /\ asked' = asked + 1
    BY DEF UpdateItem, KnowledgeInv, KnowledgeShape
  <2>2. item[i] \in ItemRows
    BY <2>1
  <2>. QED  BY <2>1, <2>2, OneMoreAsked
<1>2. row \in ItemRows /\ row.of = item[i].of /\ (row.status = "APPROVED" => row.vetted)
  <2>1. CASE st = Blank
    <3>1. row = item[i]
      BY <1>1, <2>1 DEF ItemRows
    <3>. QED  BY <1>1, <3>1, NoRowIsBlank DEF KnowledgeInv
  <2>2. CASE st # Blank
    <3>1. row = [item[i] EXCEPT !.status = st, !.vetted = (st = "APPROVED")]
      BY <2>2
    <3>2. \A b \in BOOLEAN : LET r == [item[i] EXCEPT !.status = st, !.vetted = b] IN
            r \in ItemRows /\ r.of = item[i].of /\ r.status = st /\ r.vetted = b
      BY <1>1, <2>2 DEF ItemRows
    <3>3. (st = "APPROVED") \in BOOLEAN
      OBVIOUS
    <3>. QED  BY <3>1, <3>2, <3>3
  <2>. QED  BY <2>1, <2>2
<1> HIDE DEF row
<1>3. /\ item' \in [Items -> ItemRows \cup {Blank}] /\ item'[i] = row /\ \A j \in Items : j # i => item'[j] = item[j]
  BY <1>1, <1>2
<1>4. \A j \in Items : item'[j] # Blank /\ item'[j].status = "APPROVED" => item'[j].vetted
  BY <1>2, <1>3 DEF KnowledgeInv
<1>5. \A k : Of(k)' = Of(k)
  BY <1>1, <1>2, <1>3, NoRowIsBlank, ItemsStay
<1>6. \A c \in Texts : Alike(c)
  BY <1>1, <1>5 DEF Alike
<1>. QED  BY <1>1, <1>3, <1>4, <1>5, <1>6 DEF KnowledgeInv, KnowledgeShape, ItemsCounted, WorkSound, WorkApart, Alike

LEMMA KnowledgeInvInit == KnowledgeInit => KnowledgeInv
<1> SUFFICES ASSUME KnowledgeInit PROVE KnowledgeInv
  OBVIOUS
<1>1. \A k : Of(k) = {}
  BY DEF KnowledgeInit, Of
<1>2. KnowledgeShape
  BY NoTaskQuiet, KnowledgeAssumption DEF KnowledgeInit, KnowledgeShape
<1>. QED  BY <1>1, <1>2, FS_EmptySet, NoTaskQuiet DEF KnowledgeInit, KnowledgeInv, ItemsCounted, WorkSound, WorkApart

LEMMA KnowledgeInvStep == KnowledgeInv /\ [KnowledgeNext]_knowledgeVars => KnowledgeInv'
<1> SUFFICES ASSUME KnowledgeInv, [KnowledgeNext]_knowledgeVars PROVE KnowledgeInv'
  OBVIOUS
<1>1. CASE UNCHANGED knowledgeVars
  BY <1>1 DEF knowledgeVars, KnowledgeInv, KnowledgeShape, ItemsCounted, WorkSound, WorkApart, Of
<1>2. ASSUME NEW p \in Editors, NEW k \in Texts, BeginUpload(p, k) \/ BeginApprove(p, k) PROVE KnowledgeInv'
  BY <1>2, BeginUploadInv, BeginApproveInv
<1>3. ASSUME NEW p \in Editors,
             \/ BeginPaste(p) \/ ExtractKnowledge(p) \/ StoreUpload(p) \/ StorePaste(p) \/ PasteCategory(p)
             \/ ApproveItems(p)
      PROVE  KnowledgeInv'
  BY <1>3, BeginPasteInv, ExtractKnowledgeInv, StoreUploadInv, StorePasteInv, PasteCategoryInv, ApproveItemsInv
<1>4. ASSUME NEW p \in Editors, Abandon(p) PROVE KnowledgeInv'
  BY <1>4, QuietJob, NoTaskQuiet DEF Abandon, End, KnowledgeInv, KnowledgeShape
<1>5. ASSUME NEW p \in Editors, NEW i \in Items, NEW st \in ItemStatuses \cup {Blank}, UpdateItem(p, i, st)
      PROVE  KnowledgeInv'
  BY <1>5, UpdateItemInv
<1>. QED  BY <1>1, <1>2, <1>3, <1>4, <1>5 DEF KnowledgeNext

-----------------------------------------------------------------------------
(* Content *)

Pictures == [kind : {"none", "GALLERY", "BROCHURE", "UNIT_MATCH"}, gallery : Galleries, cover : BOOLEAN]

Uploads(task) == task.at \in {"media", "rule"}
Removes(task) == task.at \in {"unrule", "unstore"}

JobShape(task) ==
  /\ task = [at |-> task.at, on |-> task.on, to |-> task.to]
  /\ Uploads(task) \/ Removes(task) => task.on \in Images
  /\ task.at = "media" => task.to \in Pictures
  /\ task.at = "check" => task.on \subseteq Needs /\ task.to \subseteq {"details"}

ContentShape ==
  /\ image \in [Images -> Pictures] /\ gate \in [Gates -> {"none", "side", "main"}] /\ profiles \in Nat
  /\ edit = [p \in Editors |-> edit[p]] /\ \A p \in Editors : JobShape(edit[p])

\* A file that is uploaded has no row yet, and one that is removed none any more ...
NameSound(task) ==
  /\ Uploads(task) => task.on \in files /\ ~HasRow(task.on)
  /\ task.at = "unstore" => ~HasRow(task.on)
\* ... and no two requests mean one file.
NamesApart ==
  \A p, q \in Editors : p # q /\ Uploads(edit[p]) /\ (Uploads(edit[q]) \/ Removes(edit[q])) => edit[p].on # edit[q].on

Mains == {g \in Gates : gate[g] = "main"}

\* What a request found when it began is so still, unless others have written since.
LookSound(task, seen) ==
  /\ task.at = "media" /\ task.to.kind = "GALLERY" /\ task.to.cover /\ task.to.gallery \notin seen
       => Gallery(task.to.gallery) = {}
  /\ task.at = "gate" /\ task.to.main /\ "gate" \notin seen => Mains \subseteq {task.on}
  /\ task.at = "profile" /\ ~task.to /\ "profile" \notin seen => profiles = 0
  /\ task.at = "check" => \A n \in task.on : Met(n) \/ n \in task.to \/ n \in seen

AtMostOne(S) == \A x, y \in S : x = y

CoverSound(g) == g \in excused \/ AtMostOne(Covers(g))
MainSound == "gate" \in excused \/ AtMostOne(Mains)
ProfileSound == "profile" \in excused \/ profiles <= 1

ContentInv ==
  /\ ContentShape
  /\ \A p \in Editors : NameSound(edit[p]) /\ LookSound(edit[p], since[p])
  /\ NamesApart
  /\ \A g \in Galleries : CoverSound(g)
  /\ MainSound /\ ProfileSound
  /\ FilesKept /\ PublishedWasReady

Done(p) == IF edit'[p] = Free /\ contentRows' # contentRows THEN Wrote(p) ELSE {}

-----------------------------------------------------------------------------
\* What a step leaves in the history.
LEMMA Marked ==
  ASSUME NEW p \in Editors, Recorded(p), NEW m, m \notin Needs
  PROVE  /\ m \in excused => m \in excused'
         /\ m \in Done(p) /\ (Stray(p) \/ m \in since[p]) => m \in excused'
  BY DEF Recorded, Done

LEMMA Seen ==
  ASSUME NEW p \in Editors, Recorded(p), NEW q \in Editors, edit'[q] # Free
  PROVE  /\ \A n : n \in since[q] \/ n \in Lost => n \in since'[q]
         /\ q # p => \A n \in Done(p) : n \in since'[q]
  BY DEF Recorded, Done

LEMMA MarksAreNoNeeds == "gate" \notin Needs /\ "profile" \notin Needs /\ \A g \in Galleries : g \notin Needs
  BY DEF Needs, ReadyParts, Galleries

LEMMA LostIsLost == \A n \in Needs : Met(n) => Met(n)' \/ n \in Lost
  BY DEF Lost

LEMMA ReadyStays ==
  ASSUME NEW p \in Editors, Recorded(p), PublishedWasReady, status' = status \/ status' = "DRAFT"
  PROVE  PublishedWasReady'
<1>1. CASE status' = "DRAFT"
  BY <1>1 DEF PublishedWasReady
<1>2. CASE status' = status
  <2>1. \A n : n \in excused \/ n \in Lost => n \in excused'
    BY <1>2 DEF Recorded
  <2>. QED  BY <1>2, <2>1, LostIsLost DEF PublishedWasReady
<1>. QED  BY <1>1, <1>2

\* What other requests found, after a step that has said what it writes.
Grown(p) ==
  /\ \A g \in Galleries : g \in Done(p) \/ Gallery(g)' \subseteq Gallery(g)
  /\ "gate" \in Done(p) \/ Mains' \subseteq Mains
  /\ "profile" \in Done(p) \/ profiles' <= profiles

LEMMA OthersLook ==
  ASSUME ContentInv, NEW p \in Editors, Recorded(p), Grown(p), profiles' \in Nat,
         NEW q \in Editors, q # p, edit'[q] = edit[q]
  PROVE  LookSound(edit[q], since[q])'
<1>1. LookSound(edit[q], since[q]) /\ JobShape(edit[q]) /\ profiles \in Nat
  BY DEF ContentInv, ContentShape
<1>2. edit[q].at # "free" => edit'[q] # Free
  BY DEF Free
<1>3. edit[q].at # "free" => \A n : n \in since[q] \/ n \in Lost \/ n \in Done(p) => n \in since'[q]
  BY <1>2, Seen
<1>4. ASSUME edit[q].at = "media", edit[q].to.kind = "GALLERY", edit[q].to.cover, edit[q].to.gallery \notin since'[q]
      PROVE  Gallery(edit[q].to.gallery)' = {}
  <2>1. PICK g : g = edit[q].to.gallery
    OBVIOUS
  <2>2. g \in Galleries
    BY <1>1, <1>4, <2>1 DEF JobShape, Pictures
  <2>3. Gallery(g) = {} /\ g \notin Done(p)
    BY <1>1, <1>3, <1>4, <2>1 DEF LookSound
  <2>4. Gallery(g)' = {}
    BY <2>2, <2>3 DEF Grown
  <2>. QED  BY <2>1, <2>4
<1>5. edit[q].at = "gate" /\ edit[q].to.main /\ "gate" \notin since'[q] => Mains' \subseteq {edit[q].on}
  BY <1>1, <1>3 DEF LookSound, Grown
<1>6. edit[q].at = "profile" /\ ~edit[q].to /\ "profile" \notin since'[q] => profiles' = 0
  BY <1>1, <1>3 DEF LookSound, Grown
<1>7. edit[q].at = "check" => \A n \in edit[q].on : Met(n)' \/ n \in edit[q].to \/ n \in since'[q]
  BY <1>1, <1>3, LostIsLost DEF LookSound, JobShape
<1>. QED  BY <1>4, <1>5, <1>6, <1>7 DEF LookSound

\* The step of a request, given what it does to each part.
LEMMA StepKeeps ==
  ASSUME ContentInv, NEW p \in Editors, Recorded(p), NEW task, edit' = [edit EXCEPT ![p] = task], JobShape(task),
         image' \in [Images -> Pictures], gate' \in [Gates -> {"none", "side", "main"}], profiles' \in Nat,
         Grown(p), LookSound(edit[p], since[p])',
         (\A q \in Editors : NameSound(edit[q]))', NamesApart', FilesKept', PublishedWasReady',
         \A g \in Galleries : g \in excused' \/ Covers(g)' \subseteq Covers(g) \/ AtMostOne(Covers(g)'),
         "gate" \in excused' \/ Mains' \subseteq Mains \/ AtMostOne(Mains'),
         "profile" \in excused' \/ profiles' <= profiles \/ profiles' <= 1
  PROVE  ContentInv'
<1>1. edit = [q \in Editors |-> edit[q]] /\ \A q \in Editors : JobShape(edit[q])
  BY DEF ContentInv, ContentShape
<1>2. edit'[p] = task /\ (\A q \in Editors : q # p => edit'[q] = edit[q]) /\ edit' = [q \in Editors |-> edit'[q]]
  BY <1>1
<1>3. ContentShape'
  BY <1>1, <1>2 DEF ContentShape, JobShape, Uploads, Removes
<1>4. (\A q \in Editors : LookSound(edit[q], since[q]))'
  BY <1>2, OthersLook
<1>5. (\A g \in Galleries : CoverSound(g))'
  BY Marked, MarksAreNoNeeds DEF ContentInv, CoverSound, AtMostOne
<1>6. MainSound'
  BY Marked, MarksAreNoNeeds DEF ContentInv, MainSound, AtMostOne
<1>7. ProfileSound'
  BY Marked, MarksAreNoNeeds DEF ContentInv, ContentShape, ProfileSound
<1>. QED  BY <1>3, <1>4, <1>5, <1>6, <1>7 DEF ContentInv

LEMMA FreeJob == JobShape(Free) /\ ~Uploads(Free) /\ ~Removes(Free) /\ NameSound(Free)
  BY DEF JobShape, Uploads, Removes, NameSound, Free

\* A request that goes on, or ends, and writes nothing.
LEMMA RowsStay ==
  ASSUME ContentInv, NEW p \in Editors, Recorded(p), UNCHANGED contentRows,
         NEW task, edit' = [edit EXCEPT ![p] = task], JobShape(task), LookSound(task, since[p]),
         ~Uploads(task), task.at # "unstore", task.at = "unrule" => HasRow(task.on)
  PROVE  ContentInv'
<1>1. edit'[p] = task /\ \A q \in Editors : q # p => edit'[q] = edit[q]
  BY DEF ContentInv, ContentShape
<1>2. /\ image' = image /\ files' = files /\ gate' = gate /\ profiles' = profiles /\ status' = status
      /\ \A n : Met(n)' <=> Met(n)
      /\ \A g : Gallery(g)' = Gallery(g) /\ Covers(g)' = Covers(g)
      /\ \A i : HasRow(i)' <=> HasRow(i)
      /\ Mains' = Mains
  BY DEF contentRows, Met, In, Gallery, Covers, HasRow, Mains
<1>3. LookSound(edit[p], since[p])'
  <2>1. task.at # "free" => \A n : n \in since[p] => n \in since'[p]
    BY <1>1, Seen DEF Free
  <2>. QED  BY <1>1, <1>2, <2>1 DEF LookSound
<1>4. Grown(p)
  BY <1>2 DEF Grown, ContentInv, ContentShape
<1>5. (\A q \in Editors : NameSound(edit[q]))'
  BY <1>1, <1>2 DEF ContentInv, NameSound, Uploads
<1>6. NamesApart'
  BY <1>1, <1>2 DEF ContentInv, NamesApart, NameSound, Uploads, Removes
<1>7. FilesKept' /\ PublishedWasReady'
  BY <1>2, ReadyStays DEF ContentInv, FilesKept
<1>. QED  BY <1>2, <1>3, <1>4, <1>5, <1>6, <1>7, StepKeeps DEF ContentInv, ContentShape

\* A request that writes at once, and adds no image, no main gate and no profile.
LEMMA AtOnceKeeps ==
  ASSUME ContentInv, NEW p \in Editors, Recorded(p), edit[p] = Free, edit' = edit, files' = files,
         image' \in [Images -> Pictures], gate' \in [Gates -> {"none", "side", "main"}], profiles' \in Nat,
         \A i \in Images : HasRow(i)' => HasRow(i),
         \A g \in Galleries : Gallery(g)' \subseteq Gallery(g),
         \A g \in Galleries : Covers(g)' \subseteq Covers(g) \/ AtMostOne(Covers(g)'),
         Mains' \subseteq Mains, profiles' <= profiles, status' = status \/ status' = "DRAFT"
  PROVE  ContentInv'
<1>1. edit' = [edit EXCEPT ![p] = Free]
  BY DEF ContentInv, ContentShape
<1>2. LookSound(edit[p], since[p])'
  BY DEF LookSound, Free
<1>3. Grown(p)
  BY DEF Grown
<1>4. \A q \in Editors : (Uploads(edit[q]) \/ Removes(edit[q]) => edit[q].on \in Images) /\ NameSound(edit[q])
  BY DEF ContentInv, ContentShape, JobShape
<1>5. (\A q \in Editors : NameSound(edit[q]))'
  BY <1>4 DEF NameSound, Uploads, Removes
<1>6. NamesApart'
  BY DEF ContentInv, NamesApart, Uploads, Removes
<1>7. FilesKept' /\ PublishedWasReady'
  BY ReadyStays DEF ContentInv, FilesKept
<1>. QED  BY <1>1, <1>2, <1>3, <1>5, <1>6, <1>7, FreeJob, StepKeeps

\* An upload begins under a name of its own.
LEMMA UploadBegins ==
  ASSUME ContentInv, NEW p \in Editors, Recorded(p), NEW i \in Images, NewName(i), files' = files \cup {i},
         UNCHANGED <<image, plan, gate, profiles, has, status>>,
         NEW task, edit' = [edit EXCEPT ![p] = task], JobShape(task), LookSound(task, since[p]), Uploads(task), task.on = i
  PROVE  ContentInv'
<1>1. edit'[p] = task /\ \A q \in Editors : q # p => edit'[q] = edit[q]
  BY DEF ContentInv, ContentShape
<1>2. /\ image' = image /\ gate' = gate /\ profiles' = profiles /\ status' = status
      /\ \A n : Met(n)' <=> Met(n)
      /\ \A g : Gallery(g)' = Gallery(g) /\ Covers(g)' = Covers(g)
      /\ \A h : HasRow(h)' <=> HasRow(h)
      /\ Mains' = Mains
  BY DEF Met, In, Gallery, Covers, HasRow, Mains
<1>3. LookSound(edit[p], since[p])'
  <2>1. \A n : n \in since[p] => n \in since'[p]
    BY <1>1, Seen DEF Free, Uploads
  <2>. QED  BY <1>1, <1>2, <2>1 DEF LookSound
<1>4. Grown(p)
  BY <1>2 DEF Grown, ContentInv, ContentShape
<1>5. /\ ~HasRow(i) /\ i \notin files
      /\ \A q \in Editors : Removes(edit[q]) => edit[q].on # i
  BY DEF NewName, Removes
<1>6. \A q \in Editors : Uploads(edit[q]) => edit[q].on \in files
  BY DEF ContentInv, NameSound
<1>7. (\A q \in Editors : NameSound(edit[q]))'
  BY <1>1, <1>2, <1>5 DEF ContentInv, NameSound, Uploads
<1>8. NamesApart'
  BY <1>1, <1>5, <1>6 DEF ContentInv, NamesApart, Uploads, Removes
<1>9. FilesKept' /\ PublishedWasReady'
  BY <1>2, ReadyStays DEF ContentInv, FilesKept
<1>. QED  BY <1>2, <1>3, <1>4, <1>7, <1>8, <1>9, StepKeeps DEF ContentInv, ContentShape

-----------------------------------------------------------------------------
(* The steps of requests that write, one by one. *)

LEMMA MediaKeeps == ASSUME ContentInv, NEW p \in Editors, Media(p), Recorded(p) PROVE ContentInv'
<1>1. PICK task : task = edit[p]
  OBVIOUS
<1>2. /\ task.at = "media" /\ task.on \in Images /\ task.to \in Pictures /\ Uploads(task)
      /\ NameSound(task) /\ LookSound(task, since[p])
  BY <1>1 DEF Media, ContentInv, ContentShape, JobShape, Uploads
<1>3. /\ image' = [image EXCEPT ![task.on] = task.to] /\ edit' = [edit EXCEPT ![p] = Free] /\ UNCHANGED <<files, gate, profiles, status>>
      /\ image \in [Images -> Pictures]
  BY <1>1 DEF Media, Move, ContentInv, ContentShape
<1>4. /\ edit'[p] = Free /\ (\A q \in Editors : q # p => edit'[q] = edit[q])
      /\ image'[task.on] = task.to /\ image' \in [Images -> Pictures]
      /\ \A i \in Images : i # task.on => image'[i] = image[i]
  BY <1>2, <1>3 DEF ContentInv, ContentShape
<1>5. task.to.gallery \in Galleries /\ (contentRows' # contentRows => Done(p) = {task.to.gallery})
  <2>1. Wrote(p) = {task.to.gallery}
    <3>1. edit[p].at = "media" /\ edit[p].to = task.to
      BY <1>1, <1>2
    <3>. QED  BY <3>1 DEF Wrote, Stray
  <2>. QED  BY <1>2, <1>4, <2>1 DEF Done, Pictures
<1>6. \A g \in Galleries : g # task.to.gallery => Gallery(g)' \subseteq Gallery(g) /\ Covers(g)' \subseteq Covers(g)
  BY <1>4 DEF Gallery, Covers, In
<1>7. CASE contentRows' = contentRows
  <2>1. image' = image
    BY <1>7 DEF contentRows
  <2>. QED  BY <1>3, <1>7, <2>1, FreeJob, RowsStay DEF LookSound, Free, Uploads
<1>8. CASE contentRows' # contentRows
  <2>1. Grown(p)
    BY <1>3, <1>5, <1>6, <1>8 DEF Grown, Mains, ContentInv, ContentShape
  <2>2. ASSUME NEW g \in Galleries
        PROVE  g \in excused' \/ Covers(g)' \subseteq Covers(g) \/ AtMostOne(Covers(g)')
    <3>1. CASE g # task.to.gallery
      BY <1>6, <3>1
    <3>2. CASE g = task.to.gallery /\ ~(task.to.kind = "GALLERY" /\ task.to.cover)
      BY <1>2, <1>4, <3>2 DEF Covers, Gallery, In
    <3>3. CASE g = task.to.gallery /\ task.to.kind = "GALLERY" /\ task.to.cover /\ g \in since[p]
      BY <1>5, <1>8, <3>3, Marked, MarksAreNoNeeds
    <3>4. CASE g = task.to.gallery /\ task.to.kind = "GALLERY" /\ task.to.cover /\ g \notin since[p]
      <4>1. Gallery(g) = {}
        BY <1>2, <3>4 DEF LookSound
      <4>2. Covers(g)' \subseteq {task.on}
        BY <1>4, <4>1 DEF Covers, Gallery, In
      <4>. QED  BY <4>2 DEF AtMostOne
    <3>. QED  BY <3>1, <3>2, <3>3, <3>4
  <2>3. \A q \in Editors : q # p /\ (Uploads(edit[q]) \/ Removes(edit[q])) => edit[q].on # task.on
    BY <1>1, <1>2 DEF ContentInv, NamesApart
  <2>4. \A q \in Editors : Uploads(edit[q]) \/ Removes(edit[q]) => edit[q].on \in Images
    BY DEF ContentInv, ContentShape, JobShape
  <2>5. (\A q \in Editors : NameSound(edit[q]))'
    BY <1>3, <1>4, <2>3, <2>4, FreeJob DEF ContentInv, NameSound, HasRow, Removes, Uploads
  <2>6. NamesApart'
    BY <1>4, FreeJob DEF ContentInv, NamesApart
  <2>7. FilesKept' /\ PublishedWasReady'
    BY <1>2, <1>3, <1>4, ReadyStays DEF ContentInv, FilesKept, HasRow, NameSound
  <2>8. LookSound(edit[p], since[p])'
    BY <1>4 DEF LookSound, Free
  <2>9. Mains' = Mains
    BY <1>3 DEF Mains
  <2>. QED  BY <1>3, <1>4, <2>1, <2>2, <2>5, <2>6, <2>7, <2>8, <2>9, FreeJob, StepKeeps DEF ContentInv, ContentShape
<1>. QED  BY <1>7, <1>8

\* Steps that leave images' covers and galleries, gates, profiles and the status as they are, or
\* take images away.
LEMMA FilesKeep ==
  ASSUME ContentInv, NEW p \in Editors, Recorded(p), UNCHANGED <<gate, profiles, status>>,
         NEW task, edit' = [edit EXCEPT ![p] = task], JobShape(task), ~Uploads(task), task.at \notin {"media", "gate", "profile", "check"},
         Removes(task) => Removes(edit[p]) /\ task.on = edit[p].on,
         image' \in [Images -> Pictures],
         \A g \in Galleries : Gallery(g)' \subseteq Gallery(g) /\ Covers(g)' \subseteq Covers(g),
         (\A q \in Editors : NameSound(edit[q]))', FilesKept'
  PROVE  ContentInv'
<1>1. edit'[p] = task /\ \A q \in Editors : q # p => edit'[q] = edit[q]
  BY DEF ContentInv, ContentShape
<1>2. Mains' = Mains
  BY DEF Mains
<1>3. Grown(p)
  BY <1>2 DEF Grown, ContentInv, ContentShape
<1>4. LookSound(edit[p], since[p])'
  BY <1>1 DEF LookSound
<1>5. NamesApart'
  BY <1>1 DEF ContentInv, NamesApart, Uploads, Removes
<1>6. PublishedWasReady'
  BY ReadyStays DEF ContentInv
<1>. QED  BY <1>2, <1>3, <1>4, <1>5, <1>6, StepKeeps DEF ContentInv, ContentShape

LEMMA UploadMediaRuleKeeps == ASSUME ContentInv, NEW p \in Editors, UploadMediaRule(p), Recorded(p) PROVE ContentInv'
<1>1. PICK i : i = edit[p].on
  OBVIOUS
<1>2. /\ edit[p].at = "rule" /\ i \in Images /\ NameSound(edit[p]) /\ i \in files /\ ~HasRow(i)
      /\ image \in [Images -> Pictures]
      /\ \A q \in Editors : Uploads(edit[q]) \/ Removes(edit[q]) => edit[q].on \in Images
  BY <1>1 DEF UploadMediaRule, ContentInv, ContentShape, JobShape, Uploads, NameSound
<1>3. /\ \/ image' = [image EXCEPT ![i] = Recording("phase", "UNIT_MATCH", FALSE)] /\ files' = files
         \/ files' = files \ {i} /\ image' = image
      /\ edit' = [edit EXCEPT ![p] = Free] /\ UNCHANGED <<gate, profiles, status>>
  BY <1>1 DEF UploadMediaRule, Move
<1>4. /\ edit'[p] = Free /\ (\A q \in Editors : q # p => edit'[q] = edit[q])
      /\ \A j \in Images : j # i => image'[j] = image[j]
      /\ image' \in [Images -> Pictures]
      /\ \/ image'[i] = Recording("phase", "UNIT_MATCH", FALSE) /\ files' = files
         \/ image'[i] = image[i] /\ files' = files \ {i}
  <2>1. Recording("phase", "UNIT_MATCH", FALSE) \in Pictures
    BY DEF Pictures, Recording, Galleries
  <2>2. edit'[p] = Free /\ (\A q \in Editors : q # p => edit'[q] = edit[q])
    BY <1>3 DEF ContentInv, ContentShape
  <2>. QED  BY <1>2, <1>3, <2>1, <2>2
<1>5. \A g \in Galleries : Gallery(g)' \subseteq Gallery(g) /\ Covers(g)' \subseteq Covers(g)
  BY <1>4 DEF Gallery, Covers, In, Recording
<1>6. \A q \in Editors : q # p /\ (Uploads(edit[q]) \/ Removes(edit[q])) => edit[q].on # i
  BY <1>1, <1>2 DEF ContentInv, NamesApart, Uploads
<1>7. (\A q \in Editors : NameSound(edit[q]))'
  BY <1>2, <1>4, <1>6, FreeJob DEF ContentInv, NameSound, HasRow, Removes, Uploads
<1>8. FilesKept'
  <2>1. \A j \in Images : HasRow(j) => j \in files
    BY DEF ContentInv, FilesKept
  <2>2. \A j \in Images : HasRow(j)' => HasRow(j) \/ (j = i /\ files' = files)
    BY <1>4 DEF HasRow
  <2>3. i \in files /\ ~HasRow(i)
    BY <1>2
  <2>4. files' = files \/ files' = files \ {i}
    BY <1>4
  <2>. QED  BY <2>1, <2>2, <2>3, <2>4 DEF FilesKept
<1>. QED  BY <1>3, <1>4, <1>5, <1>7, <1>8, FreeJob, FilesKeep DEF Free

LEMMA DeleteMediaRuleKeeps == ASSUME ContentInv, NEW p \in Editors, DeleteMediaRule(p), Recorded(p) PROVE ContentInv'
<1>1. PICK i : i = edit[p].on
  OBVIOUS
<1>2. PICK task : task = IF HasRow(i) THEN [edit[p] EXCEPT !.at = "unstore"] ELSE Free
  OBVIOUS
<1>3. /\ edit[p].at = "unrule" /\ i \in Images /\ JobShape(edit[p])
      /\ image \in [Images -> Pictures] /\ image' = [image EXCEPT ![i] = NoImage] /\ edit' = [edit EXCEPT ![p] = task]
      /\ UNCHANGED <<files, gate, profiles, status>>
      /\ \A q \in Editors : Uploads(edit[q]) \/ Removes(edit[q]) => edit[q].on \in Images
  BY <1>1, <1>2 DEF DeleteMediaRule, Move, ContentInv, ContentShape, JobShape, Removes
<1>4. /\ task = Free \/ (task.at = "unstore" /\ task.on = i)
      /\ JobShape(task)
  <2>1. CASE HasRow(i)
    <3>1. task = [at |-> "unstore", on |-> i, to |-> edit[p].to]
      BY <1>1, <1>2, <1>3, <2>1 DEF JobShape
    <3>. QED  BY <1>3, <3>1 DEF JobShape, Uploads, Removes
  <2>2. CASE ~HasRow(i)
    BY <1>2, <2>2, FreeJob DEF HasRow
  <2>. QED  BY <2>1, <2>2
<1>5. /\ edit'[p] = task /\ (\A q \in Editors : q # p => edit'[q] = edit[q])
      /\ image'[i] = NoImage /\ (\A j \in Images : j # i => image'[j] = image[j])
      /\ image' \in [Images -> Pictures]
  BY <1>3 DEF ContentInv, ContentShape, Pictures, NoImage, Recording, Galleries
<1>6. /\ \A g \in Galleries : Gallery(g)' \subseteq Gallery(g) /\ Covers(g)' \subseteq Covers(g)
      /\ \A j \in Images : HasRow(j)' => HasRow(j)
      /\ ~HasRow(i)'
  BY <1>3, <1>5 DEF Gallery, Covers, In, HasRow, NoImage, Recording
<1>7. (\A q \in Editors : NameSound(edit[q]))'
  <2>1. ASSUME NEW q \in Editors PROVE NameSound(edit[q])'
    <3>1. CASE q = p
      BY <1>4, <1>5, <1>6, <3>1 DEF NameSound, Uploads, Free
    <3>2. CASE q # p
      BY <1>3, <1>5, <1>6, <3>2 DEF ContentInv, NameSound, Removes, Uploads
    <3>. QED  BY <3>1, <3>2
  <2>. QED  BY <2>1
<1>8. FilesKept'
  BY <1>3, <1>6 DEF ContentInv, FilesKept
<1>9. ~Uploads(task) /\ task.at \notin {"media", "gate", "profile", "check"} /\ (Removes(task) => Removes(edit[p]) /\ task.on = edit[p].on)
  BY <1>1, <1>3, <1>4 DEF Uploads, Removes, Free
<1>. QED  BY <1>3, <1>4, <1>5, <1>6, <1>7, <1>8, <1>9, FilesKeep

LEMMA DeleteFileKeeps == ASSUME ContentInv, NEW p \in Editors, DeleteFile(p), Recorded(p) PROVE ContentInv'
<1>1. PICK i : i = edit[p].on
  OBVIOUS
<1>2. /\ edit[p].at = "unstore" /\ ~HasRow(i) /\ image' = image /\ files' = files \ {i}
      /\ edit' = [edit EXCEPT ![p] = Free] /\ UNCHANGED <<gate, profiles, status>> /\ image \in [Images -> Pictures]
  BY <1>1 DEF DeleteFile, Move, ContentInv, ContentShape, NameSound
<1>3. edit'[p] = Free /\ (\A q \in Editors : q # p => edit'[q] = edit[q])
  BY <1>2 DEF ContentInv, ContentShape
<1>4. \A q \in Editors : q # p /\ Uploads(edit[q]) => edit[q].on # i
  BY <1>1, <1>2 DEF ContentInv, NamesApart, Removes
<1>5. (\A j : HasRow(j)' <=> HasRow(j)) /\ \A g : Gallery(g)' = Gallery(g) /\ Covers(g)' = Covers(g)
  BY <1>2 DEF HasRow, Gallery, Covers, In
<1>6. (\A q \in Editors : NameSound(edit[q]))' /\ FilesKept'
  BY <1>2, <1>3, <1>4, <1>5, FreeJob DEF ContentInv, NameSound, FilesKept, Uploads
<1>. QED  BY <1>2, <1>5, <1>6, FreeJob, FilesKeep DEF Free

\* Images that keep their kind and gallery.
LEMMA KindsStay ==
  ASSUME ContentInv, image' \in [Images -> Pictures],
         \A i \in Images : image'[i].kind = image[i].kind /\ image'[i].gallery = image[i].gallery
  PROVE  /\ \A i \in Images : HasRow(i)' <=> HasRow(i)
         /\ \A g : Gallery(g)' = Gallery(g)
         /\ \A g : Covers(g)' = {i \in Gallery(g) : image'[i].cover}
  BY DEF HasRow, Gallery, Covers, In

LEMMA ReorderKeeps == ASSUME ContentInv, NEW p \in Editors, ReorderProjectMedia(p), Recorded(p) PROVE ContentInv'
<1>1. PICK items, c, h, cleared :
        /\ items = edit[p].on /\ c = edit[p].to /\ h = (IF c \in items THEN image[c].gallery ELSE "project")
        /\ cleared = IF c = Blank THEN {} ELSE {i \in OthersIn(c, h) : image[i].kind = "GALLERY"}
  OBVIOUS
<1>2. /\ edit[p].at = "reorder" /\ image \in [Images -> Pictures] /\ edit' = [edit EXCEPT ![p] = Free]
      /\ UNCHANGED <<files, gate, profiles, status>>
      /\ image' = [i \in Images |-> IF i = c \/ i \in items \cup cleared
                                    THEN [image[i] EXCEPT !.cover = (i = c)] ELSE image[i]]
      /\ edit'[p] = Free /\ (\A q \in Editors : q # p => edit'[q] = edit[q])
      /\ profiles \in Nat
  BY <1>1 DEF ReorderProjectMedia, Move, ContentInv, ContentShape
<1>3. ASSUME NEW i \in Images
      PROVE  /\ image'[i] \in Pictures /\ image'[i].kind = image[i].kind /\ image'[i].gallery = image[i].gallery
             /\ IF i = c \/ i \in items \cup cleared THEN image'[i].cover <=> i = c ELSE image'[i] = image[i]
  <2>1. image[i] \in Pictures
    BY <1>2
  <2>2. CASE i = c \/ i \in items \cup cleared
    <3>1. image'[i] = [image[i] EXCEPT !.cover = (i = c)]
      BY <1>2, <2>2
    <3>2. \A b \in BOOLEAN : LET r == [image[i] EXCEPT !.cover = b] IN
            r \in Pictures /\ r.kind = image[i].kind /\ r.gallery = image[i].gallery /\ r.cover = b
      BY <2>1 DEF Pictures
    <3>3. (i = c) \in BOOLEAN
      OBVIOUS
    <3>. QED  BY <2>2, <3>1, <3>2, <3>3
  <2>3. CASE ~(i = c \/ i \in items \cup cleared)
    BY <1>2, <2>1, <2>3
  <2>. QED  BY <2>2, <2>3
<1>4. image' \in [Images -> Pictures]
  <2>1. image' = [i \in Images |-> image'[i]]
    BY <1>2
  <2>. QED  BY <1>3, <2>1
<1>5. /\ \A i \in Images : HasRow(i)' <=> HasRow(i)
      /\ \A g : Gallery(g)' = Gallery(g)
      /\ \A g : Covers(g)' = {i \in Gallery(g) : image'[i].cover}
  BY <1>3, <1>4, KindsStay
<1>6. CASE contentRows' = contentRows
  BY <1>2, <1>6, FreeJob, RowsStay DEF LookSound, Free
<1>7. CASE contentRows' # contentRows
  <2>1. ASSUME NEW g \in Galleries
        PROVE  g \in excused' \/ Covers(g)' \subseteq Covers(g) \/ AtMostOne(Covers(g)')
    <3>1. CASE c = Blank
      <4>1. \A i \in Images : i # c
        BY <3>1, ContentAssumption
      <4>2. \A i \in Gallery(g) : i \in Images /\ (image'[i].cover => image[i].cover)
        BY <1>3, <4>1 DEF Gallery, In
      <4>. QED  BY <1>5, <4>2 DEF Covers
    <3>2. CASE c # Blank /\ c \in items
      <4>1. CASE g = h
        <5>1. \A i \in Gallery(g) : i \in Images /\ (i # c => i \in cleared)
          BY <1>1, <3>2, <4>1 DEF Gallery, In, OthersIn
        <5>2. \A i \in Gallery(g) : image'[i].cover => i = c
          BY <1>3, <5>1
        <5>. QED  BY <1>5, <5>2 DEF AtMostOne
      <4>2. CASE g # h
        <5>1. \A i \in Gallery(g) : i \in Images /\ i # c
          BY <1>1, <3>2, <4>2 DEF Gallery, In
        <5>2. \A i \in Gallery(g) : image'[i].cover => image[i].cover
          BY <1>3, <5>1
        <5>. QED  BY <1>5, <5>2 DEF Covers
      <4>. QED  BY <4>1, <4>2
    <3>3. CASE c # Blank /\ c \notin items
      <4>1. Stray(p)
        BY <1>1, <1>2, <3>3 DEF Stray
      <4>2. Wrote(p) = Galleries
        BY <1>2, <4>1 DEF Wrote
      <4>. QED  BY <1>2, <1>7, <4>1, <4>2, Marked, MarksAreNoNeeds DEF Done
    <3>. QED  BY <3>1, <3>2, <3>3
  <2>2. Mains' = Mains
    BY <1>2 DEF Mains
  <2>3. Grown(p)
    BY <1>2, <1>5, <2>2 DEF Grown
  <2>4. LookSound(edit[p], since[p])'
    BY <1>2 DEF LookSound, Free
  <2>5. (\A q \in Editors : NameSound(edit[q]))'
    <3>1. \A q \in Editors : (Uploads(edit[q]) \/ Removes(edit[q]) => edit[q].on \in Images) /\ NameSound(edit[q])
      BY DEF ContentInv, ContentShape, JobShape
    <3>. QED  BY <1>2, <1>5, <3>1, FreeJob DEF NameSound, Uploads, Removes
  <2>6. NamesApart'
    BY <1>2, FreeJob DEF ContentInv, NamesApart
  <2>7. FilesKept' /\ PublishedWasReady'
    BY <1>2, <1>5, ReadyStays DEF ContentInv, FilesKept
  <2>8. gate' \in [Gates -> {"none", "side", "main"}] /\ profiles' \in Nat /\ profiles' <= profiles /\ Mains' \subseteq Mains
    BY <1>2, <2>2 DEF ContentInv, ContentShape
  <2>9. edit' = [edit EXCEPT ![p] = Free] /\ JobShape(Free)
    BY <1>2, FreeJob
  <2>. QED  BY <1>4, <2>1, <2>3, <2>4, <2>5, <2>6, <2>7, <2>8, <2>9, StepKeeps
<1>. QED  BY <1>6, <1>7

\* Steps that leave images and files alone.
LEMMA ImagesStay ==
  ASSUME ContentInv, NEW p \in Editors, Recorded(p), UNCHANGED <<image, files>>,
         NEW task, edit' = [edit EXCEPT ![p] = task], JobShape(task), ~Uploads(task), ~Removes(task),
         gate' \in [Gates -> {"none", "side", "main"}], profiles' \in Nat, PublishedWasReady',
         LookSound(edit[p], since[p])',
         "gate" \in Done(p) \/ Mains' \subseteq Mains,
         "profile" \in Done(p) \/ profiles' <= profiles,
         "gate" \in excused' \/ Mains' \subseteq Mains \/ AtMostOne(Mains'),
         "profile" \in excused' \/ profiles' <= profiles \/ profiles' <= 1
  PROVE  ContentInv'
<1>1. edit'[p] = task /\ \A q \in Editors : q # p => edit'[q] = edit[q]
  BY DEF ContentInv, ContentShape
<1>2. /\ \A g : Gallery(g)' = Gallery(g) /\ Covers(g)' = Covers(g)
      /\ \A i : HasRow(i)' <=> HasRow(i)
  BY DEF In, Gallery, Covers, HasRow
<1>3. Grown(p)
  BY <1>2 DEF Grown
<1>4. (\A q \in Editors : NameSound(edit[q]))'
  BY <1>1, <1>2 DEF ContentInv, NameSound, Uploads, Removes
<1>5. NamesApart'
  BY <1>1 DEF ContentInv, NamesApart
<1>6. FilesKept'
  BY <1>2 DEF ContentInv, FilesKept
<1>. QED  BY <1>2, <1>3, <1>4, <1>5, <1>6, StepKeeps DEF ContentInv, ContentShape

LEMMA BeginGateKeeps ==
  ASSUME ContentInv, NEW p \in Editors, NEW g \in Gates, NEW main \in BOOLEAN, BeginGate(p, g, main), Recorded(p)
  PROVE  ContentInv'
<1>1. PICK task : task = [at |-> "gate", on |-> g, to |-> [main |-> main, new |-> gate[g] = "none"]]
  OBVIOUS
<1>2. /\ edit' = [edit EXCEPT ![p] = task] /\ UNCHANGED <<image, files, profiles, status>>
      /\ gate' = [h \in Gates |-> IF main /\ h # g /\ gate[h] = "main" THEN "side" ELSE gate[h]]
  BY <1>1 DEF BeginGate, Start
<1>3. JobShape(task) /\ ~Uploads(task) /\ ~Removes(task) /\ task.at = "gate" /\ task.on = g /\ task.to.main = main
  BY <1>1 DEF JobShape, Uploads, Removes
<1>4. /\ gate' \in [Gates -> {"none", "side", "main"}] /\ Mains' \subseteq Mains
      /\ main => Mains' \subseteq {g}
      /\ profiles' \in Nat /\ profiles' <= profiles
  BY <1>2 DEF ContentInv, ContentShape, Mains
<1>5. LookSound(edit[p], since[p])'
  <2>1. edit'[p] = task
    BY <1>2 DEF ContentInv, ContentShape
  <2>. QED  BY <1>3, <1>4, <2>1 DEF LookSound
<1>6. PublishedWasReady'
  BY <1>2, ReadyStays DEF ContentInv
<1>. QED  BY <1>2, <1>3, <1>4, <1>5, <1>6, ImagesStay

LEMMA SaveGateKeeps == ASSUME ContentInv, NEW p \in Editors, SaveGate(p), Recorded(p) PROVE ContentInv'
<1>1. PICK g, main : g = edit[p].on /\ main = edit[p].to.main
  OBVIOUS
<1>2. /\ edit[p].at = "gate" /\ edit' = [edit EXCEPT ![p] = Free] /\ UNCHANGED <<image, files, profiles, status>>
      /\ gate' = [gate EXCEPT ![g] = IF main THEN "main" ELSE "side"]
      /\ gate \in [Gates -> {"none", "side", "main"}] /\ profiles \in Nat
      /\ edit'[p] = Free
      /\ main /\ "gate" \notin since[p] => Mains \subseteq {g}
  BY <1>1 DEF SaveGate, Move, ContentInv, ContentShape, LookSound
<1>3. gate' \in [Gates -> {"none", "side", "main"}] /\ Mains' \subseteq Mains \cup {g} /\ (~main => Mains' \subseteq Mains)
  BY <1>2 DEF Mains
<1>4. Wrote(p) = {"gate"}
  BY <1>2 DEF Wrote, Stray
<1>5. CASE contentRows' = contentRows
  BY <1>2, <1>5, FreeJob, RowsStay DEF LookSound, Free
<1>6. CASE contentRows' # contentRows
  <2>1. "gate" \in Done(p)
    BY <1>2, <1>4, <1>6 DEF Done
  <2>2. "gate" \in excused' \/ Mains' \subseteq Mains \/ AtMostOne(Mains')
    <3>1. CASE "gate" \in since[p]
      BY <2>1, <3>1, Marked, MarksAreNoNeeds
    <3>2. CASE ~main
      BY <1>3, <3>2
    <3>3. CASE main /\ "gate" \notin since[p]
      BY <1>2, <1>3, <3>3 DEF AtMostOne
    <3>. QED  BY <3>1, <3>2, <3>3
  <2>3. PublishedWasReady' /\ LookSound(edit[p], since[p])'
    BY <1>2, ReadyStays DEF ContentInv, LookSound, Free
  <2>4. profiles' \in Nat /\ profiles' <= profiles
    BY <1>2
  <2>. QED  BY <1>2, <1>3, <2>1, <2>2, <2>3, <2>4, FreeJob, ImagesStay
<1>. QED  BY <1>5, <1>6

LEMMA UpsertMarketProfileKeeps == ASSUME ContentInv, NEW p \in Editors, UpsertMarketProfile(p), Recorded(p) PROVE ContentInv'
<1>1. /\ edit[p].at = "profile" /\ edit' = [edit EXCEPT ![p] = Free] /\ UNCHANGED <<image, files, gate, status>>
      /\ profiles' = IF edit[p].to THEN profiles ELSE profiles + 1
      /\ profiles \in Nat /\ gate \in [Gates -> {"none", "side", "main"}]
      /\ edit'[p] = Free
      /\ ~edit[p].to /\ "profile" \notin since[p] => profiles = 0
  BY DEF UpsertMarketProfile, Move, ContentInv, ContentShape, LookSound
<1>2. Wrote(p) = {"profile"} /\ Mains' = Mains
  BY <1>1 DEF Wrote, Stray, Mains
<1>3. CASE contentRows' = contentRows
  BY <1>1, <1>3, FreeJob, RowsStay DEF LookSound, Free
<1>4. CASE contentRows' # contentRows
  <2>1. "profile" \in Done(p)
    BY <1>1, <1>2, <1>4 DEF Done
  <2>2. "profile" \in excused' \/ profiles' <= profiles \/ profiles' <= 1
    BY <1>1, <2>1, Marked, MarksAreNoNeeds
  <2>3. PublishedWasReady' /\ LookSound(edit[p], since[p])'
    BY <1>1, ReadyStays DEF ContentInv, LookSound, Free
  <2>4. gate' \in [Gates -> {"none", "side", "main"}] /\ profiles' \in Nat /\ Mains' \subseteq Mains
    BY <1>1, <1>2
  <2>. QED  BY <1>1, <2>1, <2>2, <2>3, <2>4, FreeJob, ImagesStay
<1>. QED  BY <1>3, <1>4

\* What was met or brought when it was checked, and was not lost since, is met when the status is written.
LEMMA PublishKeeps == ASSUME ContentInv, NEW p \in Editors, Publish(p), Recorded(p) PROVE ContentInv'
<1>1. /\ edit[p].at = "check" /\ edit[p].on = Needs /\ edit' = [edit EXCEPT ![p] = Free]
      /\ UNCHANGED <<image, files, plan, gate, profiles>> /\ status' = "READY_FOR_CUSTOMER" /\ has' = has \cup edit[p].to
      /\ LookSound(edit[p], since[p]) /\ edit[p].to \subseteq {"details"} /\ edit'[p] = Free
      /\ profiles \in Nat /\ gate \in [Gates -> {"none", "side", "main"}]
  BY DEF Publish, Move, ContentInv, ContentShape, JobShape
<1>2. \A n \in Needs : Met(n) => Met(n)'
  <2>1. In("project")' = In("project")
    BY <1>1 DEF In
  <2>2. \A n \in ReadyParts : Met(n) => Met(n)'
    BY <1>1 DEF Met, ReadyParts
  <2>3. Met("images")' <=> Met("images")
    BY <2>1 DEF Met, ReadyParts
  <2>4. Met("plan")' <=> Met("plan")
    BY <1>1 DEF Met, ReadyParts
  <2>. QED  BY <2>2, <2>3, <2>4 DEF Needs
<1>3. \A n \in edit[p].to : Met(n)'
  BY <1>1 DEF Met, ReadyParts
<1>4. PublishedWasReady'
  <2>1. CASE status = "READY_FOR_CUSTOMER"
    BY <1>1, <2>1, ReadyStays DEF ContentInv
  <2>2. CASE status # "READY_FOR_CUSTOMER"
    <3>1. \A n : n \in since[p] => n \in excused'
      BY <1>1, <2>2 DEF Recorded
    <3>2. \A n \in Needs : Met(n) \/ n \in edit[p].to \/ n \in since[p]
      BY <1>1 DEF LookSound
    <3>. QED  BY <1>2, <1>3, <3>1, <3>2 DEF PublishedWasReady
  <2>. QED  BY <2>1, <2>2
<1>5. LookSound(edit[p], since[p])' /\ Mains' = Mains
  BY <1>1 DEF LookSound, Free, Mains
<1>6. gate' \in [Gates -> {"none", "side", "main"}] /\ profiles' \in Nat /\ profiles' <= profiles /\ Mains' \subseteq Mains
  BY <1>1, <1>5
<1>. QED  BY <1>1, <1>4, <1>5, <1>6, FreeJob, ImagesStay

-----------------------------------------------------------------------------
(* The steps that begin a request or only look, and the ones that write at once. *)

LEMMA UploadsBegin ==
  ASSUME ContentInv, NEW p \in Editors, NEW i \in Images, Recorded(p),
         \/ \E g \in Galleries : BeginMedia(p, i, g) \/ BeginDocument(p, i, g)
         \/ BeginMediaRule(p, i)
  PROVE  ContentInv'
<1>1. ASSUME NEW g \in Galleries, BeginMedia(p, i, g) PROVE ContentInv'
  <2>1. PICK task : task = [at |-> "media", on |-> i, to |-> Recording(g, "GALLERY", In(g) = {})]
    OBVIOUS
  <2>2. /\ task.at = "media" /\ task.on = i /\ task.to.gallery = g /\ (task.to.cover <=> In(g) = {})
        /\ task = [at |-> task.at, on |-> task.on, to |-> task.to]
    BY <2>1 DEF Recording
  <2>3. task.to \in Pictures
    <3>1. \A b \in BOOLEAN : Recording(g, "GALLERY", b) \in Pictures
      BY DEF Recording, Pictures
    <3>2. (In(g) = {}) \in BOOLEAN
      OBVIOUS
    <3>. QED  BY <2>1, <3>1, <3>2
  <2>4. JobShape(task) /\ Uploads(task)
    BY <2>2, <2>3 DEF JobShape, Uploads, Removes
  <2>5. LookSound(task, since[p])
    BY <2>2 DEF LookSound, Gallery
  <2>. QED  BY <1>1, <2>1, <2>2, <2>4, <2>5, UploadBegins DEF BeginMedia, Start
<1>2. ASSUME NEW g \in Galleries, BeginDocument(p, i, g) PROVE ContentInv'
  <2>1. PICK task : task = [at |-> "media", on |-> i, to |-> Recording(g, "BROCHURE", FALSE)]
    OBVIOUS
  <2>2. /\ task.at = "media" /\ task.on = i /\ task.to.kind = "BROCHURE" /\ task.to \in Pictures
        /\ task = [at |-> task.at, on |-> task.on, to |-> task.to]
    BY <2>1 DEF Recording, Pictures
  <2>3. JobShape(task) /\ Uploads(task) /\ LookSound(task, since[p])
    BY <2>2 DEF JobShape, Uploads, Removes, LookSound
  <2>. QED  BY <1>2, <2>1, <2>2, <2>3, UploadBegins DEF BeginDocument, Start
<1>3. ASSUME BeginMediaRule(p, i) PROVE ContentInv'
  <2>1. PICK task : task = [at |-> "rule", on |-> i, to |-> Blank]
    OBVIOUS
  <2>2. task.at = "rule" /\ task.on = i /\ JobShape(task) /\ Uploads(task) /\ LookSound(task, since[p])
    BY <2>1 DEF JobShape, Uploads, Removes, LookSound
  <2>. QED  BY <1>3, <2>1, <2>2, UploadBegins DEF BeginMediaRule, Start
<1>. QED  BY <1>1, <1>2, <1>3

LEMMA RequestsLook ==
  ASSUME ContentInv, NEW p \in Editors, Recorded(p),
         \/ \E i \in Images : BeginDeleteMediaRule(p, i)
         \/ \E items \in SUBSET Images, c \in Images \cup {Blank} : BeginReorder(p, items, c)
         \/ BeginMarketProfile(p)
         \/ \E brings \in SUBSET {"details"} : BeginPublish(p, brings)
         \/ ReorderFails(p) \/ SaveGateFails(p) \/ Breaks(p)
  PROVE  ContentInv'
<1>1. ASSUME NEW i \in Images, BeginDeleteMediaRule(p, i) PROVE ContentInv'
  <2>1. PICK task : task = [at |-> "unrule", on |-> i, to |-> Blank]
    OBVIOUS
  <2>2. /\ JobShape(task) /\ LookSound(task, since[p]) /\ ~Uploads(task) /\ task.at # "unstore" /\ task.on = i
        /\ HasRow(i)
    BY <1>1, <2>1 DEF JobShape, Uploads, Removes, LookSound, BeginDeleteMediaRule, HasRow
  <2>. QED  BY <1>1, <2>1, <2>2, RowsStay DEF BeginDeleteMediaRule, Start
<1>2. ASSUME NEW items \in SUBSET Images, NEW c \in Images \cup {Blank}, BeginReorder(p, items, c) PROVE ContentInv'
  <2>1. PICK task : task = [at |-> "reorder", on |-> items, to |-> c]
    OBVIOUS
  <2>2. JobShape(task) /\ LookSound(task, since[p]) /\ ~Uploads(task) /\ task.at = "reorder"
    BY <2>1 DEF JobShape, Uploads, Removes, LookSound
  <2>. QED  BY <1>2, <2>1, <2>2, RowsStay DEF BeginReorder, Start
<1>3. ASSUME BeginMarketProfile(p) PROVE ContentInv'
  <2>1. PICK task, b : task = [at |-> "profile", on |-> Blank, to |-> profiles > 0] /\ b = (profiles > 0)
    OBVIOUS
  <2>2. task = [at |-> "profile", on |-> Blank, to |-> b] /\ b \in BOOLEAN
    BY <2>1
  <2>3. ~b => profiles = 0
    <3>1. profiles \in Nat /\ (profiles > 0 => b)
      BY <2>1 DEF ContentInv, ContentShape
    <3>2. profiles > 0 \/ profiles = 0
      BY <3>1
    <3>. QED  BY <3>1, <3>2
  <2>4. task.at = "profile" /\ (~task.to => profiles = 0) /\ task = [at |-> task.at, on |-> task.on, to |-> task.to]
    BY <2>2, <2>3
  <2>5. JobShape(task) /\ LookSound(task, since[p]) /\ ~Uploads(task)
    BY <2>4 DEF JobShape, Uploads, Removes, LookSound
  <2>. QED  BY <1>3, <2>1, <2>4, <2>5, RowsStay DEF BeginMarketProfile, Start
<1>4. ASSUME NEW brings \in SUBSET {"details"}, BeginPublish(p, brings) PROVE ContentInv'
  <2>1. PICK task : task = [at |-> "check", on |-> {}, to |-> brings]
    OBVIOUS
  <2>2. JobShape(task) /\ LookSound(task, since[p]) /\ ~Uploads(task) /\ task.at = "check"
    BY <2>1 DEF JobShape, Uploads, Removes, LookSound
  <2>. QED  BY <1>4, <2>1, <2>2, RowsStay DEF BeginPublish, Start
<1>5. ASSUME ReorderFails(p) \/ SaveGateFails(p) \/ Breaks(p) PROVE ContentInv'
  <2>1. edit' = [edit EXCEPT ![p] = Free] /\ UNCHANGED contentRows
    BY <1>5 DEF ReorderFails, SaveGateFails, Breaks, Move
  <2>. QED  BY <2>1, FreeJob, RowsStay DEF LookSound, Free
<1>. QED  BY <1>1, <1>2, <1>3, <1>4, <1>5

LEMMA CheckKeeps == ASSUME ContentInv, NEW p \in Editors, NEW q \in Queries, Check(p, q), Recorded(p) PROVE ContentInv'
<1>1. PICK task : task = IF \A n \in q : Met(n) \/ n \in edit[p].to THEN [edit[p] EXCEPT !.on = @ \cup q] ELSE Free
  OBVIOUS
<1>2. edit' = [edit EXCEPT ![p] = task] /\ UNCHANGED contentRows /\ edit[p].at = "check" /\ JobShape(edit[p])
      /\ LookSound(edit[p], since[p])
  BY <1>1 DEF Check, Move, ContentInv, ContentShape
<1>3. q \subseteq Needs
  BY DEF Queries, Needs, ReadyParts
<1>4. JobShape(task) /\ LookSound(task, since[p]) /\ ~Uploads(task) /\ ~Removes(task)
  <2>1. CASE \A n \in q : Met(n) \/ n \in edit[p].to
    <3>1. task = [at |-> "check", on |-> edit[p].on \cup q, to |-> edit[p].to]
      BY <1>1, <1>2, <2>1 DEF JobShape
    <3>2. edit[p].on \subseteq Needs /\ edit[p].to \subseteq {"details"}
          /\ \A n \in edit[p].on : Met(n) \/ n \in edit[p].to \/ n \in since[p]
      BY <1>2 DEF JobShape, LookSound
    <3>3. task.at = "check" /\ task.on = edit[p].on \cup q /\ task.to = edit[p].to
      BY <3>1
    <3>. QED  BY <1>3, <2>1, <3>1, <3>2, <3>3 DEF JobShape, Uploads, Removes, LookSound
  <2>2. CASE ~\A n \in q : Met(n) \/ n \in edit[p].to
    <3>1. task = Free
      BY <1>1, <2>2
    <3>. QED  BY <3>1, FreeJob DEF LookSound, Free
  <2>. QED  BY <2>1, <2>2
<1>5. task.at \notin {"unrule", "unstore"}
  BY <1>4 DEF Removes
<1>. QED  BY <1>2, <1>4, <1>5, RowsStay

LEMMA UpdateMediaKeeps ==
  ASSUME ContentInv, NEW p \in Editors, NEW i \in Images, NEW cover \in BOOLEAN, edit[p] = Free, UpdateMedia(i, cover),
         Recorded(p)
  PROVE  ContentInv'
<1>1. /\ edit' = edit /\ UNCHANGED <<files, gate, profiles, status>> /\ image \in [Images -> Pictures]
      /\ image' = [j \in Images |-> IF j = i THEN [image[j] EXCEPT !.cover = cover]
                                    ELSE IF cover /\ j \in OthersIn(i, image[i].gallery) THEN [image[j] EXCEPT !.cover = FALSE]
                                    ELSE image[j]]
      /\ profiles \in Nat /\ gate \in [Gates -> {"none", "side", "main"}]
  BY DEF UpdateMedia, AtOnce, ContentInv, ContentShape
<1>2. ASSUME NEW j \in Images
      PROVE  /\ image'[j] \in Pictures /\ image'[j].kind = image[j].kind /\ image'[j].gallery = image[j].gallery
             /\ j # i => (image'[j].cover => image[j].cover) /\ (cover /\ j \in OthersIn(i, image[i].gallery) => ~image'[j].cover)
             /\ j = i => image'[j].cover = cover
  <2>1. image[j] \in Pictures
    BY <1>1
  <2>2. \A b \in BOOLEAN : LET r == [image[j] EXCEPT !.cover = b] IN
          r \in Pictures /\ r.kind = image[j].kind /\ r.gallery = image[j].gallery /\ r.cover = b
    BY <2>1 DEF Pictures
  <2>3. \/ j = i /\ image'[j] = [image[j] EXCEPT !.cover = cover]
        \/ j # i /\ cover /\ j \in OthersIn(i, image[i].gallery) /\ image'[j] = [image[j] EXCEPT !.cover = FALSE]
        \/ j # i /\ ~(cover /\ j \in OthersIn(i, image[i].gallery)) /\ image'[j] = image[j]
    BY <1>1
  <2>. QED  BY <2>1, <2>2, <2>3
<1>3. image' \in [Images -> Pictures]
  <2>1. image' = [j \in Images |-> image'[j]]
    BY <1>1
  <2>. QED  BY <1>2, <2>1
<1>4. /\ \A j \in Images : HasRow(j)' <=> HasRow(j)
      /\ \A g : Gallery(g)' = Gallery(g)
      /\ \A g : Covers(g)' = {j \in Gallery(g) : image'[j].cover}
  BY <1>2, <1>3, KindsStay
<1>5. ASSUME NEW g \in Galleries PROVE Covers(g)' \subseteq Covers(g) \/ AtMostOne(Covers(g)')
  <2>1. \A j \in Gallery(g) : j \in Images
    BY DEF Gallery, In
  <2>2. CASE ~cover \/ g # image[i].gallery
    <3>1. \A j \in Gallery(g) : image'[j].cover => image[j].cover
      BY <1>2, <2>1, <2>2 DEF Gallery, In
    <3>. QED  BY <1>4, <3>1 DEF Covers
  <2>3. CASE cover /\ g = image[i].gallery
    <3>1. \A j \in Gallery(g) : j # i => j \in OthersIn(i, image[i].gallery)
      BY <2>3 DEF Gallery, OthersIn
    <3>2. \A j \in Gallery(g) : image'[j].cover => j = i
      BY <1>2, <2>1, <2>3, <3>1
    <3>. QED  BY <1>4, <3>2 DEF AtMostOne
  <2>. QED  BY <2>2, <2>3
<1>6. Mains' \subseteq Mains /\ gate' \in [Gates -> {"none", "side", "main"}] /\ profiles' \in Nat /\ profiles' <= profiles
  BY <1>1 DEF Mains
<1>. QED  BY <1>1, <1>3, <1>4, <1>5, <1>6, AtOnceKeeps

LEMMA RemoveMediaKeeps ==
  ASSUME ContentInv, NEW p \in Editors, NEW i \in Images, edit[p] = Free, RemoveMedia(i), Recorded(p)
  PROVE  ContentInv'
<1>1. /\ edit' = edit /\ UNCHANGED <<files, gate, profiles, status>> /\ image' = [image EXCEPT ![i] = NoImage]
      /\ image \in [Images -> Pictures] /\ profiles \in Nat /\ gate \in [Gates -> {"none", "side", "main"}]
  BY DEF RemoveMedia, AtOnce, ContentInv, ContentShape
<1>2. NoImage \in Pictures /\ NoImage.kind = "none"
  BY DEF NoImage, Recording, Pictures, Galleries
<1>3. /\ image' \in [Images -> Pictures] /\ image'[i].kind = "none" /\ \A j \in Images : j # i => image'[j] = image[j]
  BY <1>1, <1>2
<1>4. /\ \A j \in Images : HasRow(j)' => HasRow(j)
      /\ \A g \in Galleries : Gallery(g)' \subseteq Gallery(g)
      /\ \A g \in Galleries : Covers(g)' \subseteq Covers(g)
  BY <1>3 DEF HasRow, Gallery, Covers, In
<1>5. Mains' \subseteq Mains /\ gate' \in [Gates -> {"none", "side", "main"}] /\ profiles' \in Nat /\ profiles' <= profiles
  BY <1>1 DEF Mains
<1>. QED  BY <1>1, <1>3, <1>4, <1>5, AtOnceKeeps

LEMMA OthersAtOnce ==
  ASSUME ContentInv, NEW p \in Editors, edit[p] = Free, Recorded(p),
         \/ \E n \in PaymentPlans, scope \in {"project", "phase"} : CreatePlan(n, scope)
         \/ \E n \in PaymentPlans : RemovePlan(n)
         \/ \E g \in Gates : DeleteGate(g)
         \/ DeleteMarketProfile
         \/ \E n \in {"details", "phases", "assigned"} : EditProject(n)
         \/ \E some \in BOOLEAN : SetAmenities(some)
         \/ SetBoundary \/ ClearBoundary \/ Withdraw
  PROVE  ContentInv'
<1>1. profiles \in Nat /\ gate \in [Gates -> {"none", "side", "main"}] /\ image \in [Images -> Pictures]
  BY DEF ContentInv, ContentShape
<1>2. edit' = edit /\ files' = files /\ image' = image /\ (status' = status \/ status' = "DRAFT")
  BY DEF CreatePlan, RemovePlan, DeleteGate, DeleteMarketProfile, EditProject, SetAmenities, SetBoundary, ClearBoundary,
         Withdraw, AtOnce
<1>3. gate' = gate \/ \E g \in Gates : gate' = [gate EXCEPT ![g] = "none"]
  BY DEF CreatePlan, RemovePlan, DeleteGate, DeleteMarketProfile, EditProject, SetAmenities, SetBoundary, ClearBoundary,
         Withdraw
<1>4. profiles' = profiles \/ (profiles > 0 /\ profiles' = profiles - 1)
  BY DEF CreatePlan, RemovePlan, DeleteGate, DeleteMarketProfile, EditProject, SetAmenities, SetBoundary, ClearBoundary,
         Withdraw
<1>5. gate' \in [Gates -> {"none", "side", "main"}] /\ Mains' \subseteq Mains /\ profiles' \in Nat /\ profiles' <= profiles
  BY <1>1, <1>3, <1>4 DEF Mains
<1>6. /\ \A j \in Images : HasRow(j)' => HasRow(j)
      /\ \A g \in Galleries : Gallery(g)' \subseteq Gallery(g)
      /\ \A g \in Galleries : Covers(g)' \subseteq Covers(g)
  BY <1>2 DEF HasRow, Gallery, Covers, In
<1>7. image' \in [Images -> Pictures]
  BY <1>1, <1>2
<1>. QED  BY <1>2, <1>5, <1>6, <1>7, AtOnceKeeps

-----------------------------------------------------------------------------
LEMMA ContentInvInit == ContentInit => ContentInv
<1> SUFFICES ASSUME ContentInit PROVE ContentInv
  OBVIOUS
<1>1. NoImage \in Pictures /\ NoImage.kind = "none"
  BY DEF NoImage, Recording, Pictures, Galleries
<1>2. ContentShape
  BY <1>1, FreeJob DEF ContentInit, ContentShape
<1>3. (\A g : Gallery(g) = {} /\ Covers(g) = {}) /\ Mains = {} /\ \A i \in Images : ~HasRow(i)
  BY <1>1 DEF ContentInit, Gallery, Covers, In, Mains, HasRow
<1>4. \A p \in Editors : edit[p] = Free /\ LookSound(edit[p], since[p])
  BY DEF ContentInit, LookSound, Free
<1>. QED  BY <1>2, <1>3, <1>4, FreeJob
     DEF ContentInit, ContentInv, NamesApart, CoverSound, MainSound, ProfileSound, AtMostOne, FilesKept, PublishedWasReady

LEMMA ContentInvStep == ContentInv /\ [ContentNext]_contentVars => ContentInv'
<1> SUFFICES ASSUME ContentInv, [ContentNext]_contentVars PROVE ContentInv'
  OBVIOUS
<1>1. CASE UNCHANGED contentVars
  <2>1. /\ image' = image /\ files' = files /\ plan' = plan /\ gate' = gate /\ profiles' = profiles /\ has' = has
        /\ status' = status /\ edit' = edit /\ since' = since /\ excused' = excused
    BY <1>1 DEF contentVars, contentRows, contentHistory
  <2>2. \A g : Gallery(g)' = Gallery(g) /\ Covers(g)' = Covers(g)
    BY <2>1 DEF Gallery, Covers, In
  <2>3. (\A n : Met(n)' <=> Met(n)) /\ (\A i : HasRow(i)' <=> HasRow(i)) /\ Mains' = Mains
    BY <2>1 DEF Met, In, HasRow, Mains
  <2>4. ContentShape' /\ NamesApart' /\ (\A g \in Galleries : CoverSound(g))' /\ MainSound' /\ ProfileSound'
    BY <2>1, <2>2, <2>3 DEF ContentInv, ContentShape, NamesApart, CoverSound, MainSound, ProfileSound
  <2>5. (\A p \in Editors : NameSound(edit[p]) /\ LookSound(edit[p], since[p]))'
    BY <2>1, <2>2, <2>3 DEF ContentInv, NameSound, LookSound
  <2>6. FilesKept' /\ PublishedWasReady'
    BY <2>1, <2>3 DEF ContentInv, FilesKept, PublishedWasReady
  <2>. QED  BY <2>4, <2>5, <2>6 DEF ContentInv
<1>2. CASE ContentNext
  <2>1. PICK p \in Editors :
          \/ \E i \in Images : /\ \/ \E g \in Galleries : BeginMedia(p, i, g) \/ BeginDocument(p, i, g)
                                  \/ BeginMediaRule(p, i)
                               /\ Recorded(p)
          \/ /\ \/ Media(p) \/ UploadMediaRule(p) \/ DeleteMediaRule(p) \/ DeleteFile(p) \/ ReorderProjectMedia(p)
                \/ SaveGate(p) \/ UpsertMarketProfile(p) \/ Publish(p)
                \/ \E g \in Gates, main \in BOOLEAN : BeginGate(p, g, main)
                \/ \E q \in Queries : Check(p, q)
             /\ Recorded(p)
          \/ /\ \/ \E i \in Images : BeginDeleteMediaRule(p, i)
                \/ \E items \in SUBSET Images, c \in Images \cup {Blank} : BeginReorder(p, items, c)
                \/ BeginMarketProfile(p)
                \/ \E brings \in SUBSET {"details"} : BeginPublish(p, brings)
                \/ ReorderFails(p) \/ SaveGateFails(p) \/ Breaks(p)
             /\ Recorded(p)
          \/ /\ edit[p] = Free
             /\ \E i \in Images : RemoveMedia(i) \/ \E cover \in BOOLEAN : UpdateMedia(i, cover)
             /\ Recorded(p)
          \/ /\ edit[p] = Free
             /\ \/ \E n \in PaymentPlans, scope \in {"project", "phase"} : CreatePlan(n, scope)
                \/ \E n \in PaymentPlans : RemovePlan(n)
                \/ \E g \in Gates : DeleteGate(g)
                \/ DeleteMarketProfile
                \/ \E n \in {"details", "phases", "assigned"} : EditProject(n)
                \/ \E some \in BOOLEAN : SetAmenities(some)
                \/ SetBoundary \/ ClearBoundary \/ Withdraw
             /\ Recorded(p)
    BY <1>2, Zenon DEF ContentNext
  <2>. QED  BY <2>1, UploadsBegin, MediaKeeps, UploadMediaRuleKeeps, DeleteMediaRuleKeeps, DeleteFileKeeps, ReorderKeeps,
               SaveGateKeeps, UpsertMarketProfileKeeps, PublishKeeps, BeginGateKeeps, CheckKeeps, RequestsLook,
               RemoveMediaKeeps, UpdateMediaKeeps, OthersAtOnce
<1>. QED  BY <1>1, <1>2

LEMMA AtMostOneCounted == ASSUME NEW S, AtMostOne(S) PROVE Cardinality(S) <= 1
<1>1. CASE S = {}
  BY <1>1, FS_EmptySet
<1>2. CASE S # {}
  <2>1. PICK x : S = {x}
    BY <1>2 DEF AtMostOne
  <2>2. Cardinality({x}) = 1
    BY FS_Singleton
  <2>. QED  BY <2>1, <2>2
<1>. QED  BY <1>1, <1>2

LEMMA ContentInvStands == ContentInv => OneOfEach /\ FilesKept /\ PublishedWasReady
<1> SUFFICES ASSUME ContentInv PROVE OneOfEach
  BY DEF ContentInv
<1>1. Mains = {g \in Gates : gate[g] = "main"}
  BY DEF Mains
<1>. QED  BY <1>1, AtMostOneCounted DEF ContentInv, OneOfEach, CoverSound, MainSound, ProfileSound

-----------------------------------------------------------------------------
\* The inductive invariant of images, files, plans, gates, market profiles and publication holds in
\* every reachable state, whatever requests overlap or break off (CatalogController,
\* RealEstateController, ProjectStructureController).
THEOREM ContentInvHolds == ContentSpec => []ContentInv
  BY ContentInvInit, ContentInvStep, PTL DEF ContentSpec

\* The inductive invariant of a project's documents and their items holds in every reachable state
\* (KnowledgeService).
THEOREM KnowledgeInvHolds == KnowledgeSpec => []KnowledgeInv
  BY KnowledgeInvInit, KnowledgeInvStep, PTL DEF KnowledgeSpec

\* However uploads and approvals break off, no item is left of a text that was not stored.
THEOREM KnowledgeReferred == KnowledgeSpec => []KnowledgeTyped
<1>1. KnowledgeInv => KnowledgeTyped
  <2> SUFFICES ASSUME KnowledgeInv
               PROVE  KnowledgeTyped
    OBVIOUS
  <2>1. ASSUME NEW i \in Items, item[i] # Blank
        PROVE  item[i].status \in ItemStatuses /\ knowledge[item[i].of] # Blank
    <3>1. item[i] \in ItemRows
      BY <2>1 DEF KnowledgeInv, KnowledgeShape
    <3>2. item[i].of \in Texts /\ i \in Of(item[i].of)
      BY <2>1, <3>1 DEF ItemRows, Of
    <3>. QED  BY <3>1, <3>2 DEF KnowledgeInv, ItemsCounted, ItemRows
  <2>2. ASSUME NEW k \in Texts, knowledge[k] # Blank
        PROVE  knowledge[k].status \in ItemStatuses
    BY <2>2 DEF KnowledgeInv, KnowledgeShape, Records
  <2>. QED  BY <2>1, <2>2 DEF KnowledgeTyped, KnowledgeInv, KnowledgeShape
<1>. QED  BY <1>1, KnowledgeInvHolds, PTL

\* What administrators keep about a project stays as they decided: one cover per gallery, one main
\* gate and one profile per segment unless two requests wrote past each other or a cover came from
\* outside of its order, a file for every image, a published project that lacks nothing but what it
\* lost after the check began, and no item told to customers that was not approved.
THEOREM ContentStandsHolds == ContentSpec /\ KnowledgeSpec => []ContentStands
<1>1. ContentInv /\ KnowledgeInv => ContentStands
  BY ContentInvStands, Zenon DEF ContentStands, KnowledgeVetted, KnowledgeInv, ItemsCounted
<1>. QED  BY <1>1, ContentInvHolds, KnowledgeInvHolds, PTL
=============================================================================
