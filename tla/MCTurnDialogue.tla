--------------------------- MODULE MCTurnDialogue ---------------------------
(* Instance of TurnDialogue for TLC. *)
EXTENDS TurnDialogue, TLC
Symmetry == Permutations(Units) \cup Permutations(Places)
=============================================================================
