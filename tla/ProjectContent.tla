--------------------------- MODULE ProjectContent ---------------------------
(***************************************************************************)
(* What administrators keep about a project besides its units: images and  *)
(* the rules that give them to units, payment plans, gates, the boundary,  *)
(* market profiles, and the decision to show the project to customers      *)
(* (admin/catalog.controller.ts, admin/real-estate.controller.ts, admin/   *)
(* project-structure.controller.ts); what they decide of its documents is  *)
(* in ProjectKnowledge.  Most of these requests read first and write       *)
(* later, or write in two statements.                                      *)
(***************************************************************************)
EXTENDS ProjectKnowledge

CONSTANTS Images, PaymentPlans, Gates,
          MinImages         \* images a published project needs (3)

ASSUME ContentAssumption == Blank \notin Images

Galleries == {"project", "phase"}     \* the project's own images and those of its phase
ReadyParts == {"details", "coordinates", "amenities", "phases", "assigned"}
Needs == ReadyParts \cup {"images", "plan"}

VARIABLES image,     \* Media rows, with the UnitMediaRule of a UNIT_MATCH image
          files,     \* the stored objects, each named by its image
          plan,      \* PaymentPlan rows
          gate,      \* ProjectGate rows
          profiles,  \* MarketProfile rows of one phase, segment and use
          has,       \* the other parts a published project needs
          status,    \* Project.adminStatus
          edit,      \* where each request in flight is
          made,      \* how many requests were made
          since,     \* history: what others did since a request began
          excused    \* history: needs lost since the check, and what requests wrote past each other

contentRows == <<image, files, plan, gate, profiles, has, status>>
contentHistory == <<since, excused>>
contentVars == <<contentRows, edit, made, contentHistory>>

Free == [at |-> "free", on |-> Blank, to |-> Blank]
Start(p, job) == /\ edit[p] = Free /\ made < MaxEdits /\ made' = made + 1
                 /\ edit' = [edit EXCEPT ![p] = job]
Move(p, job) == edit' = [edit EXCEPT ![p] = job] /\ UNCHANGED made
AtOnce == made < MaxEdits /\ made' = made + 1 /\ UNCHANGED edit

HasRow(i) == image[i].kind # "none"
In(g) == {i \in Images : image[i].kind \in {"GALLERY", "UNIT_MATCH"} /\ image[i].gallery = g}
Gallery(g) == {i \in In(g) : image[i].kind = "GALLERY"}
Covers(g) == {i \in Gallery(g) : image[i].cover}
Recording(g, kind, cover) == [kind |-> kind, gallery |-> g, cover |-> cover]
NoImage == Recording("project", "none", FALSE)

\* A new row: its name in the model is not one that a request still means.
NewName(i) == /\ ~HasRow(i) /\ i \notin files
              /\ \A q \in Editors : CASE edit[q].at \in {"unrule", "unstore"} -> edit[q].on # i
                                   [] edit[q].at = "reorder" -> i \notin edit[q].on \cup {edit[q].to}
                                   [] OTHER -> TRUE

-----------------------------------------------------------------------------
(* Images *)

\* The file is stored; the first image of its gallery is to be the cover.
BeginMedia(p, i, g) ==
  /\ NewName(i)
  /\ Start(p, [at |-> "media", on |-> i, to |-> Recording(g, "GALLERY", In(g) = {})])
  /\ files' = files \cup {i}
  /\ UNCHANGED <<image, plan, gate, profiles, has, status>>

\* A brochure of the project or of its phase.
BeginDocument(p, i, g) ==
  /\ NewName(i)
  /\ Start(p, [at |-> "media", on |-> i, to |-> Recording(g, "BROCHURE", FALSE)])
  /\ files' = files \cup {i}
  /\ UNCHANGED <<image, plan, gate, profiles, has, status>>

Media(p) ==
  /\ edit[p].at = "media"
  /\ image' = [image EXCEPT ![edit[p].on] = edit[p].to]
  /\ Move(p, Free)
  /\ UNCHANGED <<files, plan, gate, profiles, has, status>>

\* An image for the units a rule selects; when it cannot be recorded the file is removed.
BeginMediaRule(p, i) ==
  /\ NewName(i)
  /\ Start(p, [at |-> "rule", on |-> i, to |-> Blank])
  /\ files' = files \cup {i}
  /\ UNCHANGED <<image, plan, gate, profiles, has, status>>

UploadMediaRule(p) ==
  /\ edit[p].at = "rule"
  /\ \/ /\ image' = [image EXCEPT ![edit[p].on] =
                       Recording("phase", "UNIT_MATCH", FALSE)]
        /\ UNCHANGED files
     \/ files' = files \ {edit[p].on} /\ UNCHANGED image
  /\ Move(p, Free)
  /\ UNCHANGED <<plan, gate, profiles, has, status>>

BeginDeleteMediaRule(p, i) ==
  /\ image[i].kind = "UNIT_MATCH"
  /\ Start(p, [at |-> "unrule", on |-> i, to |-> Blank])
  /\ UNCHANGED contentRows

\* Rule and image go in one transaction, which fails when somebody else removed them ...
DeleteMediaRule(p) ==
  LET i == edit[p].on IN
  /\ edit[p].at = "unrule"
  /\ image' = [image EXCEPT ![i] = NoImage]
  /\ Move(p, IF HasRow(i) THEN [edit[p] EXCEPT !.at = "unstore"] ELSE Free)
  /\ UNCHANGED <<files, plan, gate, profiles, has, status>>

\* ... and then the file.
DeleteFile(p) ==
  /\ edit[p].at = "unstore"
  /\ files' = files \ {edit[p].on}
  /\ Move(p, Free)
  /\ UNCHANGED <<image, plan, gate, profiles, has, status>>

\* Mutant: the phase of the gallery is left out of the condition.
OthersOfProject(c, g) == {i \in In("project") : i # c}

\* The images a new cover takes the place of, in its gallery.
OthersIn(c, g) == {i \in In(g) : i # c}

\* An order of gallery images, with a cover that need not be among them.
BeginReorder(p, items, c) ==
  /\ items # {} /\ \A i \in items : image[i].kind = "GALLERY"
  /\ Start(p, [at |-> "reorder", on |-> items, to |-> c])
  /\ UNCHANGED contentRows

ReorderProjectMedia(p) ==
  LET items == edit[p].on  c == edit[p].to
      cleared == IF c = Blank THEN {}
                 ELSE {i \in OthersIn(c, IF c \in items THEN image[c].gallery ELSE "project") :
                         image[i].kind = "GALLERY"} IN
  /\ edit[p].at = "reorder" /\ \A i \in items \cup ({c} \ {Blank}) : HasRow(i)
  /\ image' = [i \in Images |-> IF i = c \/ i \in items \cup cleared
                                THEN [image[i] EXCEPT !.cover = (i = c)] ELSE image[i]]
  /\ Move(p, Free)
  /\ UNCHANGED <<files, plan, gate, profiles, has, status>>

\* An image that went away fails the transaction.
ReorderFails(p) ==
  /\ edit[p].at = "reorder" /\ \E i \in edit[p].on \cup ({edit[p].to} \ {Blank}) : ~HasRow(i)
  /\ Move(p, Free) /\ UNCHANGED contentRows

UpdateMedia(i, cover) ==
  /\ AtOnce /\ \E g \in Galleries : i \in In(g)
  /\ image' = [j \in Images |->
                 IF j = i THEN [image[j] EXCEPT !.cover = cover]
                 ELSE IF cover /\ j \in OthersIn(i, image[i].gallery) THEN [image[j] EXCEPT !.cover = FALSE]
                 ELSE image[j]]
  /\ UNCHANGED <<files, plan, gate, profiles, has, status>>

\* The file of an image or of a document is kept.
RemoveMedia(i) ==
  /\ AtOnce /\ HasRow(i)
  /\ image' = [image EXCEPT ![i] = NoImage]
  /\ UNCHANGED <<files, plan, gate, profiles, has, status>>

-----------------------------------------------------------------------------
(* Payment plans, gates, market profiles *)

\* A plan of a project or a phase gives percentages only, which add up to 100.
CreatePlan(n, scope) ==
  /\ AtOnce /\ plan[n] = "none"
  /\ plan' = [plan EXCEPT ![n] = scope]
  /\ UNCHANGED <<image, files, gate, profiles, has, status>>

RemovePlan(n) ==
  /\ AtOnce /\ plan[n] \in {"project", "phase"}
  /\ plan' = [plan EXCEPT ![n] = "archived"]
  /\ UNCHANGED <<image, files, gate, profiles, has, status>>

\* A main gate first takes the place of the others, and is written by itself.
BeginGate(p, g, main) ==
  /\ Start(p, [at |-> "gate", on |-> g, to |-> [main |-> main, new |-> gate[g] = "none"]])
  /\ gate' = [h \in Gates |-> IF main /\ h # g /\ gate[h] = "main" THEN "side" ELSE gate[h]]
  /\ UNCHANGED <<image, files, plan, profiles, has, status>>

SaveGate(p) ==
  LET g == edit[p].on IN
  /\ edit[p].at = "gate" /\ edit[p].to.new = (gate[g] = "none")
  /\ gate' = [gate EXCEPT ![g] = IF edit[p].to.main THEN "main" ELSE "side"]
  /\ Move(p, Free)
  /\ UNCHANGED <<image, files, plan, profiles, has, status>>

\* The gate to update was deleted (or its name in this model was taken by a new one).
SaveGateFails(p) ==
  /\ edit[p].at = "gate" /\ edit[p].to.new # (gate[edit[p].on] = "none")
  /\ Move(p, Free) /\ UNCHANGED contentRows

DeleteGate(g) ==
  /\ AtOnce /\ gate[g] # "none"
  /\ gate' = [gate EXCEPT ![g] = "none"]
  /\ UNCHANGED <<image, files, plan, profiles, has, status>>

BeginMarketProfile(p) ==
  /\ Start(p, [at |-> "profile", on |-> Blank, to |-> profiles > 0])
  /\ UNCHANGED contentRows

\* No index keeps a second row of the same segment away; an update of a row that is gone fails.
UpsertMarketProfile(p) ==
  /\ edit[p].at = "profile"
  /\ profiles' = IF edit[p].to THEN profiles ELSE profiles + 1
  /\ Move(p, Free)
  /\ UNCHANGED <<image, files, plan, gate, has, status>>

DeleteMarketProfile ==
  /\ AtOnce /\ profiles > 0 /\ profiles' = profiles - 1
  /\ UNCHANGED <<image, files, plan, gate, has, status>>

-----------------------------------------------------------------------------
(* The project and its publication *)

\* Details edited, phases made or deleted, units given to phases or taken from them.
EditProject(n) ==
  /\ AtOnce /\ has' = IF n \in has THEN has \ {n} ELSE has \cup {n}
  /\ UNCHANGED <<image, files, plan, gate, profiles, status>>

SetAmenities(some) ==
  /\ AtOnce /\ has' = IF some THEN has \cup {"amenities"} ELSE has \ {"amenities"}
  /\ UNCHANGED <<image, files, plan, gate, profiles, status>>

\* The centre of the boundary gives the coordinates ...
SetBoundary ==
  /\ AtOnce /\ has' = has \cup {"coordinates"}
  /\ UNCHANGED <<image, files, plan, gate, profiles, status>>

\* ... which go with it, but the project's location may have its own.
ClearBoundary ==
  /\ AtOnce /\ has' \in {has, has \ {"coordinates"}}
  /\ UNCHANGED <<image, files, plan, gate, profiles, status>>

\* readinessFor: each query sees what it counts at its own moment.
Met(n) == CASE n \in ReadyParts -> n \in has
            [] n = "images" -> Cardinality(In("project")) >= MinImages
            [] n = "plan" -> \E m \in PaymentPlans : plan[m] = "project"

Queries == {{"details", "coordinates", "amenities"}, {"phases"}, {"assigned"}, {"images"}, {"plan"}}

\* The request may bring the missing details itself.
BeginPublish(p, brings) ==
  /\ Start(p, [at |-> "check", on |-> {}, to |-> brings])
  /\ UNCHANGED contentRows

Check(p, q) ==
  /\ edit[p].at = "check" /\ q \cap edit[p].on = {}
  /\ Move(p, IF \A n \in q : Met(n) \/ n \in edit[p].to THEN [edit[p] EXCEPT !.on = @ \cup q] ELSE Free)
  /\ UNCHANGED contentRows

\* Nothing is missing: the status is written, whatever has changed since.
Publish(p) ==
  /\ edit[p].at = "check" /\ edit[p].on = Needs
  /\ status' = "READY_FOR_CUSTOMER" /\ has' = has \cup edit[p].to
  /\ Move(p, Free)
  /\ UNCHANGED <<image, files, plan, gate, profiles>>

Withdraw ==
  /\ AtOnce /\ status' = "DRAFT"
  /\ UNCHANGED <<image, files, plan, gate, profiles, has>>

Breaks(p) ==
  /\ edit[p] # Free /\ Move(p, Free) /\ UNCHANGED contentRows

-----------------------------------------------------------------------------
\* An order whose cover is not among its images.
Stray(p) == edit[p].at = "reorder" /\ edit[p].to \notin edit[p].on \cup {Blank}

\* What a request writes that another one may have looked for.
Wrote(p) == CASE edit[p].at = "media" -> {edit[p].to.gallery}
              [] edit[p].at = "gate" -> {"gate"}
              [] edit[p].at = "profile" -> {"profile"}
              [] Stray(p) -> Galleries
              [] OTHER -> {}

Lost == {n \in Needs : Met(n) /\ ~Met(n)'}

\* History of a step of p: what was lost or written since the others began, and what p itself
\* writes after another did, or with a cover from outside of its order.
Recorded(p) ==
  LET done == IF edit'[p] = Free /\ contentRows' # contentRows THEN Wrote(p) ELSE {} IN
  /\ since' = [q \in Editors |-> IF edit'[q] = Free THEN {}
                                 ELSE since[q] \cup Lost \cup (IF q # p THEN done ELSE {})]
  /\ excused' = (IF edit[p].at = "check" /\ status' # status THEN since[p] \cup (excused \ Needs)
                 ELSE excused \cup Lost)
                \cup (IF Stray(p) THEN done ELSE done \cap since[p])

ContentInit ==
  /\ image = [i \in Images |-> NoImage] /\ files = {} /\ plan = [n \in PaymentPlans |-> "none"]
  /\ gate = [g \in Gates |-> "none"] /\ profiles = 0 /\ has = ReadyParts /\ status = "DRAFT"
  /\ edit = [p \in Editors |-> Free] /\ made = 0
  /\ since = [p \in Editors |-> {}] /\ excused = {}

\* Requests that write at once are made by an administrator who has no other one in flight.
ContentNext ==
  \E p \in Editors :
    \/ \E i \in Images, g \in Galleries : BeginMedia(p, i, g) /\ Recorded(p)
    \/ \E i \in Images, g \in Galleries : BeginDocument(p, i, g) /\ Recorded(p)
    \/ Media(p) /\ Recorded(p)
    \/ \E i \in Images : BeginMediaRule(p, i) /\ Recorded(p)
    \/ UploadMediaRule(p) /\ Recorded(p)
    \/ \E i \in Images : BeginDeleteMediaRule(p, i) /\ Recorded(p)
    \/ DeleteMediaRule(p) /\ Recorded(p)
    \/ DeleteFile(p) /\ Recorded(p)
    \/ \E items \in SUBSET Images, c \in Images \cup {Blank} : BeginReorder(p, items, c) /\ Recorded(p)
    \/ ReorderProjectMedia(p) /\ Recorded(p)
    \/ ReorderFails(p) /\ Recorded(p)
    \/ \E g \in Gates, main \in BOOLEAN : BeginGate(p, g, main) /\ Recorded(p)
    \/ SaveGate(p) /\ Recorded(p)
    \/ SaveGateFails(p) /\ Recorded(p)
    \/ BeginMarketProfile(p) /\ Recorded(p)
    \/ UpsertMarketProfile(p) /\ Recorded(p)
    \/ \E brings \in SUBSET {"details"} : BeginPublish(p, brings) /\ Recorded(p)
    \/ \E q \in Queries : Check(p, q) /\ Recorded(p)
    \/ Publish(p) /\ Recorded(p)
    \/ Breaks(p) /\ Recorded(p)
    \/ \E i \in Images : edit[p] = Free /\ RemoveMedia(i) /\ Recorded(p)
    \/ \E i \in Images, cover \in BOOLEAN : edit[p] = Free /\ UpdateMedia(i, cover) /\ Recorded(p)
    \/ \E n \in PaymentPlans, scope \in {"project", "phase"} : edit[p] = Free /\ CreatePlan(n, scope) /\ Recorded(p)
    \/ \E n \in PaymentPlans : edit[p] = Free /\ RemovePlan(n) /\ Recorded(p)
    \/ \E g \in Gates : edit[p] = Free /\ DeleteGate(g) /\ Recorded(p)
    \/ edit[p] = Free /\ DeleteMarketProfile /\ Recorded(p)
    \/ \E n \in {"details", "phases", "assigned"} : edit[p] = Free /\ EditProject(n) /\ Recorded(p)
    \/ \E some \in BOOLEAN : edit[p] = Free /\ SetAmenities(some) /\ Recorded(p)
    \/ edit[p] = Free /\ (SetBoundary \/ ClearBoundary) /\ Recorded(p)
    \/ edit[p] = Free /\ Withdraw /\ Recorded(p)

ContentSpec == ContentInit /\ [][ContentNext]_contentVars

-----------------------------------------------------------------------------
\* One cover per gallery, one main gate, one profile per segment - unless two requests wrote
\* past each other, or a cover came from outside of the order.
OneOfEach ==
  /\ \A g \in Galleries : g \in excused \/ Cardinality(Covers(g)) <= 1
  /\ "gate" \in excused \/ Cardinality({g \in Gates : gate[g] = "main"}) <= 1
  /\ "profile" \in excused \/ profiles <= 1

\* An image that is listed has its file.
FilesKept == \A i \in Images : HasRow(i) => i \in files

\* What a published project lacks it lost after the check began.
PublishedWasReady == status = "READY_FOR_CUSTOMER" => \A n \in Needs \ excused : Met(n)

\* What administrators keep about a project stays as they decided.
ContentStands == OneOfEach /\ FilesKept /\ PublishedWasReady /\ KnowledgeVetted
=============================================================================
