-------------------------- MODULE MCImportWorkflow --------------------------
(***************************************************************************)
(* Imports for TLC: in a behaviour either two batches that list the same   *)
(* unit are imported from stored tables (ImportWorkflow), or one batch     *)
(* that has none is (FlatImport), or the rows of three are given phases of *)
(* a project (ImportPhases).  The parts share no state in the models.      *)
(***************************************************************************)
EXTENDS ImportParts

CONSTANTS i1, i2, i3, u1, u2, w1, w2, h1, h2, good, other, va, vb, vc, vm, vo

VARIABLE part      \* the part that runs

MC_Symmetry == Permutations(Workers)

MC_Cell == [i \in Imports |-> [m \in Mappings |-> [u \in Units |->
              CASE m = good          -> IF i = i1 THEN va ELSE vb
                [] m # good /\ i = i1 -> vc
                [] OTHER             -> Invalid]]]

MC_Initial == [u \in Units |-> vo]

MC_Proposal == [i \in Imports |-> good]

\* A complete workbook, which another choice of columns makes unreadable.
MC_Workbooks == {[table |-> TRUE, identity |-> TRUE, currency |-> TRUE, meaning |-> good, policy |-> "LEAVE_EMPTY",
                  context |-> {"projectId", "locationId"}]}

MC_RowsOf == [b \in FlatBatches |-> Units]

\* A table with a phase column and a row without a phase, one with a project column,
\* and another with a phase column; the project has one phase, with another name.
MC_PhaseWord == [b \in Batches |-> [u \in Listed |-> IF b = i1 /\ u = u2 THEN "empty" ELSE good]]
MC_Default == [b \in Batches |-> IF b = i1 THEN h1 ELSE None]
MC_Named == [h \in Phases |-> IF h = h1 THEN None ELSE "unborn"]

NoImports == Init /\ imports = [i \in Imports |-> NoImport]

\* Both batches wait for their confirmation, or are still to be uploaded.
AlikeAtFirst == Init /\ Cardinality({i \in Imports : Stored(i)}) \in {0, 2}

\* A part that does not run stays as it is at first.
ImportsInit ==
  /\ FlatInit /\ PhaseInit
  /\ \/ part = "tables" /\ AlikeAtFirst
     \/ part \in {"flat", "phases"} /\ NoImports

ImportsNext ==
  /\ UNCHANGED part
  /\ \/ part = "tables" /\ Next /\ UNCHANGED <<flatVars, phaseVars>>
     \/ part = "flat" /\ FlatNext /\ UNCHANGED <<vars, phaseVars>>
     \/ part = "phases" /\ PhaseNext /\ UNCHANGED <<vars, flatVars>>

ImportsSpec == ImportsInit /\ [][ImportsNext]_<<vars, flatVars, phaseVars, part>>

=============================================================================
