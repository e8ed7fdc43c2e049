-------------------------- MODULE SearchConstraints --------------------------
(***************************************************************************)
(* How the words of a customer change the constraints of a search in the   *)
(* legacy chat: operations are read from the words                         *)
(* (providers/constraint-lifecycle.ts), applied after those of the model   *)
(* to what was extracted (real-estate-semantics.ts), and values the words  *)
(* name are set last (customer-turn-planner.ts).  A constraint stands for  *)
(* its group of fields, a value for where it comes from.                   *)
(***************************************************************************)
EXTENDS Integers

CONSTANTS Constraints,    \* the groups of constraints there are
          Extractions,    \* the sets of constraints an extraction gives a value
          ModelOps,       \* operations the model proposes, Unset among them
          Unset

ASSUME ConstraintsAssumption ==
  /\ ModelOps \subseteq {Unset} \cup [operation : STRING, constraint : STRING]
  /\ Unset \notin {"previous", "extracted", "said"}

Scope == {"PURPOSE", "PROPERTY_TYPE", "LOCATION", "PROJECT", "DEVELOPER"}

VARIABLE change    \* what a turn starts from, and the constraints after it

\* What the words hold: the constraints they name, those near "widen", and the verbs.
Words == [targets : SUBSET Constraints, near : SUBSET Constraints, asksType : BOOLEAN, keep : BOOLEAN, reset : BOOLEAN,
          remove : BOOLEAN, priced : BOOLEAN, widen : {"no", "search", "near"}]

-----------------------------------------------------------------------------
(* inferConstraintOperations *)

Preserved(w) ==
  (IF w.asksType THEN {"PROPERTY_TYPE"} ELSE {}) \cup (IF w.keep THEN w.targets ELSE {})
ResetBy(w) == IF ~w.reset THEN {} ELSE IF w.targets = {} THEN {"SEARCH"} ELSE w.targets

\* Mutant: what is to be kept is removed by another verb of the message.
RemovedAnyway(w) == IF w.remove THEN w.targets \cup (IF w.priced THEN {"BUDGET"} ELSE {}) ELSE {}

\* A condition with a price is one on the budget.  A message that keeps something removes nothing.
Removed(w) ==
  IF w.keep \/ ~w.remove THEN {} ELSE w.targets \cup (IF w.priced THEN {"BUDGET"} ELSE {})
Scoped(w) == IF w.keep THEN {} ELSE w.near
Broadened(w) ==
  IF w.widen = "no" THEN {} ELSE IF w.widen = "search" \/ Scoped(w) = {} THEN {"SEARCH"} ELSE Scoped(w)

-----------------------------------------------------------------------------
(* applyConstraintOperations *)

Clear(s, cs) == [c \in Constraints |-> IF c \in cs THEN Unset ELSE s[c]]
Restore(s, previous, cs) == [c \in Constraints |-> IF c \in cs THEN previous[c] ELSE s[c]]

\* What an operation on some constraints, or on the whole search, clears.
Clears(operation, cs) ==
  (cs \cap Constraints)
  \cup (IF "SEARCH" \in cs /\ operation = "RESET" THEN Constraints ELSE {})
  \cup (IF "SEARCH" \in cs /\ operation = "BROADEN" THEN Scope ELSE {})
ProposedBy(s, previous, op) ==
  IF op = Unset THEN s
  ELSE IF op.operation = "PRESERVE" THEN Restore(s, previous, {op.constraint})
  ELSE Clear(s, Clears(op.operation, {op.constraint}))
Cleared(w) == Clears("RESET", ResetBy(w)) \cup Removed(w) \cup Clears("BROADEN", Broadened(w))

\* What was extracted goes over what there was; the model's operations come before the words'.
Normalized(t) ==
  LET merged == [c \in Constraints |-> IF c \in t.extracted THEN "extracted" ELSE t.previous[c]] IN
  Clear(Restore(ProposedBy(merged, t.previous, t.op), t.previous, Preserved(t.words)), Cleared(t.words))

\* A value in the words stands unless they clear its constraint; a widening the customer confirms
\* clears the scope.
NamesCleared(w) == ResetBy(w) \cup Removed(w) \cup Broadened(w)
Turned(t) ==
  LET s == IF t.widens THEN Clear(Normalized(t), Scope) ELSE Normalized(t) IN
  [c \in Constraints |-> IF c \in t.says \ NamesCleared(t.words) THEN "said" ELSE s[c]]

-----------------------------------------------------------------------------
Silent == [targets |-> {}, near |-> {}, asksType |-> FALSE, keep |-> FALSE, reset |-> FALSE, remove |-> FALSE,
           priced |-> FALSE, widen |-> "no"]

\* A confirmation holds nothing else; a price is told of in conditions that are removed.
ConstraintsInit ==
  \E w \in {v \in Words : v.near \subseteq v.targets /\ (v.near # {} => v.widen = "near") /\ (v.priced => v.remove)} :
  \E has \in {{}, {"BUDGET"}}, extracted \in Extractions, op \in ModelOps,
     says \in {{}, Constraints \cap {"BUDGET", "PROPERTY_TYPE"}}, widens \in BOOLEAN :
    /\ widens => w = Silent /\ extracted = {} /\ op = Unset /\ says = {}
    /\ change = [previous |-> [c \in Constraints |-> IF c \in has \/ c # "BUDGET" THEN "previous" ELSE Unset],
                 extracted |-> extracted, words |-> w, op |-> op, says |-> says, widens |-> widens, next |-> Unset]

UnderstandWords == change.next = Unset /\ change' = [change EXCEPT !.next = Turned(change)]

ConstraintsNext == UnderstandWords

ConstraintsSpec == ConstraintsInit /\ [][ConstraintsNext]_change

-----------------------------------------------------------------------------
ConstraintsTyped ==
  change.next # Unset => change.next \in [Constraints -> {"previous", "extracted", "said", Unset}]

\* What the customer asks to keep stays as it was, whatever the model extracts, proposes or other
\* verbs of the message say, unless the message resets or widens the search; what the customer
\* drops goes; and a budget goes only when it, or the whole search, is dropped.
WordsDecide ==
  change.next # Unset =>
    LET t == change  w == t.words  next == t.next IN
    /\ w.keep /\ ~w.reset /\ w.widen = "no" =>
         \A c \in w.targets \ t.says : next[c] = t.previous[c]
    /\ w.remove /\ ~w.keep => \A c \in w.targets : next[c] = Unset
    /\ "BUDGET" \in Constraints /\ t.previous["BUDGET"] # Unset /\ next["BUDGET"] = Unset =>
         \/ "BUDGET" \in NamesCleared(w) \/ "SEARCH" \in ResetBy(w)
         \/ t.op # Unset /\ (t.op.constraint = "BUDGET" \/ t.op = [operation |-> "RESET", constraint |-> "SEARCH"])
=============================================================================
