--------------------------- MODULE UnitPlacement ----------------------------
(***************************************************************************)
(* Where a unit stands: its project, phase and building, and its place on  *)
(* the master plan (catalog.controller.ts, project-structure.controller.ts,*)
(* real-estate.controller.ts).  Most handlers check in one statement what  *)
(* they write in a later one, and no lock or transaction holds in between: *)
(* a handler that awaits is two actions here, Begin and the write, and     *)
(* several admins work at once.                                            *)
(*                                                                         *)
(* Left out: zones and developers (createUnit stores a zone unchecked, and *)
(* updateProject moves a project to another developer without its units),  *)
(* audit records and invalidations (PropertySearch has them), imports.     *)
(***************************************************************************)
EXTENDS Naturals, FiniteSets

CONSTANTS Projects, Phases, Buildings, Admins,
          Inventory,     \* identifiers of units
          Null,
          MaxRequests    \* bound: requests of all admins together

VARIABLES project,    \* the projects that exist
          phase,      \* the project of each phase, or Null
          building,   \* project and phase of each building, or Null
          placed,     \* each unit's columns, or Null
          job,        \* the request each admin waits for
          requests,   \* requests so far
          dead,       \* identifiers of deleted rows, never used again
          moved       \* units and buildings an edit placed without checks (history)

\* The columns of a unit's place on the plan, of a unit and of a building.
PlaceStatuses == {"UNLOCATED", "SUGGESTED", "CONFIRMED", "BUILDING_CONFIRMED"}
PlaceRows == [status : PlaceStatuses, by : Admins \cup {Null},
              source : {Null, "ADMIN_MANUAL_BUILDING", "AI_VISION", "ADMIN_MANUAL", "MASTER_PLAN"}]
UnitRows == [project : Projects, phase : Phases \cup {Null}, building : Buildings \cup {Null},
             point : BOOLEAN, place : PlaceRows]
BuildingRows == [project : Projects, phase : Phases \cup {Null}]

\* Null is no value of the tables.
ASSUME PlacementAssumption ==
  /\ Null \notin Projects \cup Phases \cup Buildings \cup Admins \cup UnitRows \cup BuildingRows
  /\ MaxRequests \in Nat

placeVars == <<project, phase, building, placed, job, requests, dead, moved>>

NoJob == [kind |-> "none"]

\* masterPlanLocationStatus and its companions.
Unlocated == [status |-> "UNLOCATED", source |-> Null, by |-> Null]
Located(status, source, by) == [status |-> status, source |-> source, by |-> by]

Exists(u) == placed[u] # Null
UnitsOf(p) == {u \in Inventory : Exists(u) /\ placed[u].project = p}

Finish(a) == job' = [job EXCEPT ![a] = NoJob]
Await(a, record) == job' = [job EXCEPT ![a] = record]
Counted == requests < MaxRequests /\ requests' = requests + 1
Starting(a) == job[a] = NoJob /\ Counted
Running(a, kind) == job[a].kind = kind /\ UNCHANGED requests

-----------------------------------------------------------------------------
(* Units: catalog.controller.ts *)

\* What the foreign keys check anyway, and the checks of createUnit.
FitsPhase(p, h, b) == p \in project /\ phase[h] # Null /\ (b # Null => building[b] # Null)
FitsProject(p, h, b) ==
  /\ p \in project /\ phase[h] = p
  /\ b # Null => /\ building[b] # Null /\ building[b].project = p
                 /\ building[b].phase \in {Null, h}

BeginCreateUnit(a, u, p, h, b) ==
  /\ Starting(a) /\ ~Exists(u) /\ u \notin dead /\ FitsProject(p, h, b)
  /\ Await(a, [kind |-> "create", unit |-> u, project |-> p, phase |-> h, building |-> b])
  /\ UNCHANGED <<project, phase, building, placed, dead, moved>>

\* The foreign keys refuse what was deleted meanwhile.
CreateUnit(a) ==
  LET j == job[a] IN
  /\ Running(a, "create")
  /\ placed' = IF /\ ~Exists(j.unit) /\ j.unit \notin dead /\ j.project \in project /\ phase[j.phase] # Null
                  /\ j.building # Null => building[j.building] # Null
               THEN [placed EXCEPT ![j.unit] =
                      [project |-> j.project, phase |-> j.phase, building |-> j.building,
                       point |-> FALSE, place |-> Unlocated]]
               ELSE placed
  /\ Finish(a)
  /\ UNCHANGED <<project, phase, building, dead, moved>>

\* The edit writes whatever ids it is given.
UpdateUnit(a, u, p, h, b) ==
  /\ job[a] = NoJob /\ Counted
  /\ Exists(u) /\ p \in project
  /\ h # Null => phase[h] # Null
  /\ b # Null => building[b] # Null
  /\ placed' = [placed EXCEPT ![u] = [placed[u] EXCEPT !.project = p, !.phase = h, !.building = b]]
  /\ moved' = moved \cup {u}
  /\ UNCHANGED <<project, phase, building, job, dead>>

\* ASSIGN_PROJECT leaves phase and building behind.
BulkAssignProject(a, us, p) ==
  /\ job[a] = NoJob /\ Counted
  /\ us # {} /\ p \in project /\ \A u \in us : Exists(u)
  /\ placed' = [u \in Inventory |-> IF u \in us THEN [placed[u] EXCEPT !.project = p] ELSE placed[u]]
  /\ moved' = moved \cup us
  /\ UNCHANGED <<project, phase, building, job, dead>>

\* DELETE_SAFE without media and provenance (ImportWorkflow has those).
BulkDelete(a, us) ==
  /\ job[a] = NoJob /\ Counted
  /\ us # {} /\ \A u \in us : Exists(u)
  /\ placed' = [u \in Inventory |-> IF u \in us THEN Null ELSE placed[u]]
  /\ dead' = dead \cup us
  /\ UNCHANGED <<project, phase, building, job, moved>>

-----------------------------------------------------------------------------
(* Projects, phases, buildings *)

CreateProject(a, p) ==
  /\ job[a] = NoJob /\ Counted /\ p \notin project \cup dead
  /\ project' = project \cup {p}
  /\ UNCHANGED <<phase, building, placed, job, dead, moved>>

BeginDeleteProject(a, p) ==
  /\ Starting(a) /\ p \in project /\ UnitsOf(p) = {}
  /\ Await(a, [kind |-> "dropProject", project |-> p])
  /\ UNCHANGED <<project, phase, building, placed, dead, moved>>

\* Phases and buildings go along (ON DELETE CASCADE, SET NULL below them); a unit
\* created meanwhile makes the database refuse.
DeleteProject(a) ==
  LET p == job[a].project IN
  /\ Running(a, "dropProject")
  /\ IF UnitsOf(p) = {} /\ p \in project
     THEN /\ project' = project \ {p}
          /\ phase' = [h \in Phases |-> IF phase[h] = p THEN Null ELSE phase[h]]
          /\ building' = [b \in Buildings |->
               IF building[b] = Null \/ building[b].project = p THEN Null
               ELSE [building[b] EXCEPT !.phase = IF @ # Null /\ phase'[@] = Null THEN Null ELSE @]]
          /\ placed' = [u \in Inventory |-> IF ~Exists(u) THEN Null ELSE
               [placed[u] EXCEPT !.phase = IF @ # Null /\ phase'[@] = Null THEN Null ELSE @,
                                 !.building = IF @ # Null /\ building'[@] = Null THEN Null ELSE @]]
          /\ dead' = dead \cup {p} \cup {h \in Phases : phase[h] = p}
                          \cup {b \in Buildings : building[b] # Null /\ building[b].project = p}
     ELSE UNCHANGED <<project, phase, building, placed, dead>>
  /\ Finish(a)
  /\ UNCHANGED moved

CreatePhase(a, h, p) ==
  /\ job[a] = NoJob /\ Counted /\ phase[h] = Null /\ h \notin dead /\ p \in project
  /\ phase' = [phase EXCEPT ![h] = p]
  /\ UNCHANGED <<project, building, placed, job, dead, moved>>

BeginDeletePhase(a, h) ==
  /\ Starting(a) /\ phase[h] # Null
  /\ \A u \in Inventory : Exists(u) => placed[u].phase # h
  /\ Await(a, [kind |-> "dropPhase", phase |-> h])
  /\ UNCHANGED <<project, phase, building, placed, dead, moved>>

\* Units that came into the phase after the count lose it (ON DELETE SET NULL).
DeletePhase(a) ==
  LET h == job[a].phase IN
  /\ Running(a, "dropPhase")
  /\ phase' = [phase EXCEPT ![h] = Null]
  /\ placed' = [u \in Inventory |-> IF Exists(u) /\ placed[u].phase = h
                                THEN [placed[u] EXCEPT !.phase = Null] ELSE placed[u]]
  /\ building' = [b \in Buildings |-> IF building[b] # Null /\ building[b].phase = h
                                      THEN [building[b] EXCEPT !.phase = Null] ELSE building[b]]
  /\ dead' = dead \cup {h}
  /\ Finish(a)
  /\ UNCHANGED <<project, moved>>

\* The match by normalized names is a choice among the phases read.
BeginBackfill(a, p) ==
  /\ Starting(a) /\ p \in project
  /\ \E match \in [{u \in UnitsOf(p) : placed[u].phase = Null}
                     -> {h \in Phases : phase[h] = p} \cup {Null}] :
       Await(a, [kind |-> "backfill", project |-> p, match |-> match])
  /\ UNCHANGED <<project, phase, building, placed, dead, moved>>

BackfillLegacyUnitPhases(a) ==
  LET j == job[a]
      due(u) == /\ u \in DOMAIN j.match /\ j.match[u] # Null /\ phase[j.match[u]] # Null
                /\ u \in UnitsOf(j.project) /\ placed[u].phase = Null
  IN
  /\ Running(a, "backfill")
  /\ placed' = [u \in Inventory |-> IF due(u) THEN [placed[u] EXCEPT !.phase = j.match[u]] ELSE placed[u]]
  /\ Finish(a)
  /\ UNCHANGED <<project, phase, building, dead, moved>>

\* createBuilding, updateBuilding and buildingPolygon take the phase as given.
CreateBuilding(a, b, p, h) ==
  /\ job[a] = NoJob /\ Counted
  /\ building[b] = Null /\ b \notin dead /\ p \in project /\ (h # Null => phase[h] # Null)
  /\ building' = [building EXCEPT ![b] = [project |-> p, phase |-> h]]
  /\ moved' = IF h # Null /\ phase[h] # p THEN moved \cup {b} ELSE moved
  /\ UNCHANGED <<project, phase, placed, job, dead>>

UpdateBuilding(a, b, h) ==
  /\ job[a] = NoJob /\ Counted
  /\ building[b] # Null /\ phase[h] # Null
  /\ building' = [building EXCEPT ![b] = [building[b] EXCEPT !.phase = h]]
  /\ moved' = IF phase[h] # building[b].project THEN moved \cup {b} ELSE moved
  /\ UNCHANGED <<project, phase, placed, job, dead>>

DeleteBuilding(a, b) ==
  /\ job[a] = NoJob /\ Counted /\ building[b] # Null
  /\ building' = [building EXCEPT ![b] = Null]
  /\ placed' = [u \in Inventory |-> IF Exists(u) /\ placed[u].building = b
                                THEN [placed[u] EXCEPT !.building = Null] ELSE placed[u]]
  /\ dead' = dead \cup {b}
  /\ UNCHANGED <<project, phase, job, moved>>

-----------------------------------------------------------------------------
(* The master plan *)

\* setMasterPlanBuildingAssignment: both rows are looked up in the project of the URL.
BeginAssignment(a, p, u, b, action) ==
  /\ Starting(a)
  /\ u \in UnitsOf(p) /\ building[b] # Null /\ building[b].project = p
  /\ action = "ASSIGN" /\ building[b].phase # Null /\ placed[u].phase # Null
       => building[b].phase = placed[u].phase
  /\ Await(a, [kind |-> action, unit |-> u, building |-> b,
               adopt |-> IF placed[u].phase = Null THEN building[b].phase ELSE Null,
               had |-> placed[u].building,
               manual |-> placed[u].place.source = "ADMIN_MANUAL_BUILDING"])
  /\ UNCHANGED <<project, phase, building, placed, dead, moved>>

Assign(a) ==
  LET j == job[a] IN
  /\ Running(a, "ASSIGN")
  /\ placed' = IF /\ Exists(j.unit) /\ building[j.building] # Null
                  /\ j.adopt # Null => phase[j.adopt] # Null
               THEN [placed EXCEPT ![j.unit] =
                      [placed[j.unit] EXCEPT !.building = j.building,
                                             !.phase = IF j.adopt # Null THEN j.adopt ELSE @,
                                             !.place = Located("BUILDING_CONFIRMED", "ADMIN_MANUAL_BUILDING", a)]]
               ELSE placed
  /\ moved' = IF j.adopt # Null /\ j.building \in moved THEN moved \cup {j.unit} ELSE moved
  /\ Finish(a)
  /\ UNCHANGED <<project, phase, building, dead>>

\* It writes the building it read back, and forgets the place only if it came from here.
Unassign(a) ==
  LET j == job[a]
      same == j.had = j.building
  IN
  /\ Running(a, "REMOVE")
  /\ placed' = IF Exists(j.unit) /\ (same \/ j.had = Null \/ building[j.had] # Null)
               THEN [placed EXCEPT ![j.unit] =
                      [placed[j.unit] EXCEPT !.building = IF same THEN Null ELSE j.had,
                                             !.place = IF same /\ j.manual THEN Unlocated ELSE @]]
               ELSE placed
  /\ Finish(a)
  /\ UNCHANGED <<project, phase, building, dead, moved>>

\* updateUnitInternalLocation and bulkAssignMasterPlan check the building by project.
BeginInternalLocation(a, u, b) ==
  /\ Starting(a) /\ Exists(u)
  /\ building[b] # Null /\ building[b].project = placed[u].project
  /\ Await(a, [kind |-> "internal", unit |-> u, building |-> b])
  /\ UNCHANGED <<project, phase, building, placed, dead, moved>>

InternalLocation(a) ==
  LET j == job[a] IN
  /\ Running(a, "internal")
  /\ placed' = IF Exists(j.unit) /\ building[j.building] # Null
               THEN [placed EXCEPT ![j.unit] = [placed[j.unit] EXCEPT !.building = j.building]] ELSE placed
  /\ Finish(a)
  /\ UNCHANGED <<project, phase, building, dead, moved>>

BeginBulkAssign(a, p, us, b) ==
  /\ Starting(a) /\ us # {} /\ us \subseteq UnitsOf(p)
  /\ b # Null => building[b] # Null /\ building[b].project = p
  /\ Await(a, [kind |-> "bulk", project |-> p, units |-> us, building |-> b])
  /\ UNCHANGED <<project, phase, building, placed, dead, moved>>

BulkAssignMasterPlan(a) ==
  LET j == job[a] IN
  /\ Running(a, "bulk")
  /\ placed' = IF j.building # Null /\ building[j.building] = Null THEN placed
               ELSE [u \in Inventory |-> IF u \in j.units \cap UnitsOf(j.project)
                      THEN [placed[u] EXCEPT
                             !.building = IF j.building # Null THEN j.building ELSE @,
                             !.point = TRUE,
                             !.place = Located("CONFIRMED", "MASTER_PLAN", a)]
                      ELSE placed[u]]
  /\ Finish(a)
  /\ UNCHANGED <<project, phase, building, dead, moved>>

\* The vision model looks for the unit on the plan while everything else goes on; what
\* it suggests replaces whatever was confirmed meanwhile.
BeginLocate(a, u) ==
  /\ Starting(a) /\ Exists(u)
  /\ Await(a, [kind |-> "locate", unit |-> u])
  /\ UNCHANGED <<project, phase, building, placed, dead, moved>>

LocateUnit(a) ==
  LET u == job[a].unit IN
  /\ Running(a, "locate")
  /\ \E found \in BOOLEAN :
       placed' = IF found /\ Exists(u)
                 THEN [placed EXCEPT ![u] = [placed[u] EXCEPT !.point = TRUE,
                                                           !.place = Located("SUGGESTED", "AI_VISION", Null)]]
                 ELSE placed
  /\ Finish(a)
  /\ UNCHANGED <<project, phase, building, dead, moved>>

\* setUnitMasterPlanLocation: SUGGEST and CONFIRM give a point and a place, REJECT and CLEAR
\* forget the place, CLEAR the point as well.
SetLocation(a, u) ==
  /\ job[a] = NoJob /\ Counted /\ Exists(u)
  /\ \E place \in {Located("SUGGESTED", "ADMIN_MANUAL", Null), Located("CONFIRMED", "MASTER_PLAN", a), Unlocated} :
       \E point \in IF place = Unlocated THEN {placed[u].point, FALSE} ELSE {TRUE} :
         placed' = [placed EXCEPT ![u] = [placed[u] EXCEPT !.point = point, !.place = place]]
  /\ UNCHANGED <<project, phase, building, job, dead, moved>>

PlacementInit ==
  /\ project = {} /\ phase = [h \in Phases |-> Null] /\ building = [b \in Buildings |-> Null]
  /\ placed = [u \in Inventory |-> Null] /\ job = [a \in Admins |-> NoJob]
  /\ requests = 0 /\ moved = {} /\ dead = {}

PlacementNext == \E a \in Admins :
  \/ \E p \in Projects : CreateProject(a, p) \/ BeginDeleteProject(a, p) \/ BeginBackfill(a, p)
  \/ \E p \in Projects, h \in Phases : CreatePhase(a, h, p)
  \/ \E h \in Phases : BeginDeletePhase(a, h)
  \/ \E b \in Buildings, p \in Projects, h \in Phases \cup {Null} : CreateBuilding(a, b, p, h)
  \/ \E b \in Buildings, h \in Phases : UpdateBuilding(a, b, h)
  \/ \E b \in Buildings : DeleteBuilding(a, b)
  \/ \E u \in Inventory, p \in Projects, h \in Phases, b \in Buildings \cup {Null} : BeginCreateUnit(a, u, p, h, b)
  \/ \E u \in Inventory, p \in Projects, h \in Phases \cup {Null}, b \in Buildings \cup {Null} : UpdateUnit(a, u, p, h, b)
  \/ \E us \in SUBSET Inventory, p \in Projects : BulkAssignProject(a, us, p)
  \/ \E us \in SUBSET Inventory : BulkDelete(a, us)
  \/ \E u \in Inventory, p \in Projects, b \in Buildings, act \in {"ASSIGN", "REMOVE"} : BeginAssignment(a, p, u, b, act)
  \/ \E u \in Inventory, b \in Buildings : BeginInternalLocation(a, u, b)
  \/ \E us \in SUBSET Inventory, p \in Projects, b \in Buildings \cup {Null} : BeginBulkAssign(a, p, us, b)
  \/ \E u \in Inventory : BeginLocate(a, u) \/ SetLocation(a, u)
  \/ CreateUnit(a) \/ DeleteProject(a) \/ DeletePhase(a) \/ BackfillLegacyUnitPhases(a)
  \/ Assign(a) \/ Unassign(a) \/ InternalLocation(a) \/ BulkAssignMasterPlan(a) \/ LocateUnit(a)

PlacementSpec == PlacementInit /\ [][PlacementNext]_placeVars

-----------------------------------------------------------------------------
(* Properties *)

\* Foreign keys: every reference of a unit or building is to a row that exists.  And the
\* columns of a place agree: an admin is named exactly while it is confirmed, and a
\* suggested or confirmed point has coordinates, although a late suggestion of the vision
\* model or a removal judged on an earlier read overwrites what an admin confirmed.
PlacementTypeOK ==
  /\ \A h \in Phases : phase[h] \in project \cup {Null}
  /\ \A b \in Buildings : building[b] # Null =>
       building[b].project \in project /\ (building[b].phase # Null => phase[building[b].phase] # Null)
  /\ \A u \in Inventory : Exists(u) =>
       /\ placed[u].project \in project
       /\ placed[u].phase # Null => phase[placed[u].phase] # Null
       /\ placed[u].building # Null => building[placed[u].building] # Null
       /\ placed[u].place.by # Null
            <=> placed[u].place.status \in {"CONFIRMED", "BUILDING_CONFIRMED"}
       /\ placed[u].place.status \in {"CONFIRMED", "SUGGESTED"} => placed[u].point

\* A unit that was never placed by an unchecked edit, its own or its building's, stands
\* inside its project: phase and building are of that project, whatever was created,
\* deleted, backfilled or assigned between the check of a handler and its write.
InsideProject ==
  \A u \in Inventory \ moved : Exists(u) =>
    /\ placed[u].phase # Null => phase[placed[u].phase] = placed[u].project
    /\ placed[u].building # Null => building[placed[u].building].project = placed[u].project
=============================================================================
