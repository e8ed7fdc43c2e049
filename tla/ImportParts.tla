----------------------------- MODULE ImportParts -----------------------------
(***************************************************************************)
(* Imports as a whole: batches with stored tables (ImportWorkflow), those  *)
(* without (FlatImport) and the phases their rows are given (ImportPhases).*)
(* A batch is confirmed in one of the three ways; the parts share no state.*)
(***************************************************************************)
EXTENDS FlatImport, ImportPhases

\* Every part of imports keeps its form: a unit or change row points to no import that is gone, an
\* import has one linked change row per unit, a unit that is gone counts as written by no batch
\* without tables, no alias and no unit is left with a phase that is gone, and no sheet has a
\* version nobody asked for or a preview of a version it never had.
ImportsTyped == TypeOK /\ FlatTyped /\ PhasesTyped
=============================================================================
