-------------------------- MODULE Dialogue_proofs -------------------------------
(***************************************************************************)
(* For any inventory, places, amounts and number of turns: the results     *)
(* that "the second one" points into are the search's, the budget is       *)
(* described alike wherever it is kept, and a reservation is for a unit    *)
(* the customer pointed at and never carries another customer's phone.     *)
(*                                                                         *)
(* The inductive invariant follows the state through the three places      *)
(* that keep it (the conversation, the turn in progress, the rows of the   *)
(* requirements) and says at which step of the turn a request may carry    *)
(* what it was given.                                                      *)
(*                                                                         *)
(* What a message means comes next: whatever the model proposes, what the  *)
(* customer said outright is what the search goes by.  The functions that  *)
(* apply and filter operations are recursive over a sequence; what they    *)
(* compute is proved with the least element of a set of naturals.          *)
(*                                                                         *)
(* Last come what an answer draws on: the models that speak, the search    *)
(* with its cached pools, and the payment plans it quotes.                 *)
(***************************************************************************)
EXTENDS TurnDialogue, TurnUnderstanding, PaymentOffers, AnswerProviders,
        SequenceTheorems, FiniteSetTheorems, WellFoundedInduction, TLAPS

Clarifications == {"RESULT_LIST_EMPTY", "RESULT_REFERENCE_NOT_FOUND", "NEW_REQUIREMENT_EXPECTED",
                   "RESERVATION_FIELD", "RESERVATION_PHONE_CONFLICT",
                   "RESERVATION_PAYMENT_PLAN_UNAVAILABLE"}
Contexts == [1..MaxRequirements -> Constraint \cup {None}]
States == [search : Search_, selected : Units \cup {None}, compared : SUBSET Units,
           results : Results_, clarify : Clarifications \cup {None},
           pending : Pending \cup {None}, contexts : Contexts]
Steps == {"idle", "contact", "brief", "tools", "reserve", "context", "persist"}
BudgetNumbers == [unit : {"EGP"}, value : Money]
ToolNames == {"PROPERTY_SEARCH", "COMPARE_PROPERTIES", "GET_UNIT_FACTS", "GET_PAYMENT_PLAN"}
TurnForms == [step : Steps, st : States, req : 0..MaxRequirements, brief : 0..MaxRequirements,
          briefs : BOOLEAN, fresh : BOOLEAN, plan : SUBSET ToolNames, code : Units \cup {None},
          query : BudgetNumbers \cup {None}, reserve : BOOLEAN, verified : BOOLEAN]
Rows == [place : Places \cup {None}, amount : Amounts \cup {None}, currency : Currencies \cup {None},
         original : Worth, egp : Worth, selected : Units \cup {None}, compared : SUBSET Units,
         results : Results_, status : {"OPEN", "NEEDS_MATCH", "MATCHED"}]
ContactForms == [name : BOOLEAN, phone : {None, "own"}]

-----------------------------------------------------------------------------
(* The inductive invariant *)

DialogueShape ==
  /\ saved \in States /\ turn \in TurnForms
  /\ rows \in Seq(Rows) /\ Len(rows) <= MaxRequirements
  /\ active \in 0..Len(rows)
  /\ contact \in ContactForms
  /\ chosen \subseteq Units /\ topic \in Nat /\ failed \in BOOLEAN
  /\ turn.step = "idle" => turn = NoTurn

\* Results belong to the criteria next to them.
FreshResults(st) == st.results.ids # <<>> => st.results.place = st.search.place

\* A search keeps a constraint only of an amount.
Bare(sought) == sought.amount = None => sought.constraint = None
\* An amount comes with its currency, its constraint and its conversion.
Described(sought) ==
  sought.amount # None =>
    /\ sought.currency # None
    /\ sought.budget # None /\ sought.budget.of = Asked(sought)
    /\ sought.constraint # None /\ sought.constraint.of = Asked(sought)

\* The constraint kept for a requirement is that of its row.
Explains(ctx, row) ==
  /\ ctx # None => row.amount # None /\ ctx.of = Asked(row)
  /\ row.amount # None => row.currency # None
RowsExplained(st) == \A r \in DOMAIN rows : Explains(st.contexts[r], rows[r])

BudgetsAlike ==
  /\ Bare(saved.search) /\ Described(saved.search)
  /\ Bare(turn.st.search) /\ Described(turn.st.search)
  /\ RowsExplained(IF turn.step = "idle" THEN saved ELSE turn.st)

\* A pending request is for a unit the customer pointed at.
Pointed(st) == st.pending # None => st.pending.unit \in chosen
\* It carries no phone of another customer.
Own(st) == st.pending # None => st.pending.phone # "another customer's"

RequestsOwned ==
  /\ Pointed(saved) /\ Pointed(turn.st)
  /\ Own(saved) /\ (turn.step # "contact" => Own(turn.st))
  /\ turn.step = "contact" => turn.st.pending # None
  /\ turn.step = "reserve" => turn.reserve
  /\ turn.reserve => turn.st.pending # None /\ turn.st.pending.phone # None

DialogueInv ==
  /\ DialogueShape
  /\ FreshResults(saved) /\ FreshResults(turn.st)
  /\ ~failed => BudgetsAlike
  /\ RequestsOwned
  /\ BookedAsChosen

-----------------------------------------------------------------------------
(* The engine *)

\* What the operations of a message can be.
OpsAre(ops) ==
  \/ ops = <<>>
  \/ ops = <<Reset>>
  \/ \E p \in Places : ops = <<Set("place", p)>>
  \/ \E a \in Amounts, c \in Currencies : ops = <<Set("amount", a), Set("currency", c)>>
  \/ ops = <<Drop("amount")>>
  \/ ops = <<Drop("place")>>
  \/ ops = <<Set("currency", "EGP")>>
  \/ ops = <<Set("strictness", "APPROXIMATE")>>

\* What a message is, as far as the turn depends on it.
TurnHeard(m) ==
  /\ OpsAre(m.ops)
  /\ m.code \in Units \cup {None} /\ m.phone \in Phones /\ m.return \in Nat
  /\ m.ordinals = <<>> \/ m.ordinals = <<1, 2>> \/ m.ordinals = <<1>> \/ m.ordinals = <<2>>

LEMMA MessagesAreHeard == \A m \in Messages : TurnHeard(m)
<1> SUFFICES ASSUME NEW m \in Messages PROVE TurnHeard(m) OBVIOUS
<1> None \in Units \cup {None} OBVIOUS
<1>1. ASSUME NEW o \in {<<>>, <<Reset>>}, m = [Quiet EXCEPT !.intent = "GREETING", !.ops = o] PROVE TurnHeard(m)
  <2> m.ops = o /\ m.ordinals = <<>> /\ m.code = None /\ m.phone = "own" /\ m.return = 0
    BY <1>1 DEF Quiet
  <2> OpsAre(m.ops) BY <1>1 DEF OpsAre
  <2> m.phone \in Phones BY DEF Phones
  <2> QED BY DEF TurnHeard
<1>2. ASSUME NEW o \in Changes, m = [Quiet EXCEPT !.intent = "MODIFY_SEARCH", !.ops = o] PROVE TurnHeard(m)
  <2> m.ops = o /\ m.ordinals = <<>> /\ m.code = None /\ m.phone = "own" /\ m.return = 0
    BY <1>2 DEF Quiet
  <2> OpsAre(m.ops) BY <1>2 DEF OpsAre, Changes, Briefs
  <2> m.phone \in Phones BY DEF Phones
  <2> QED BY DEF TurnHeard
<1>3. ASSUME NEW o \in Briefs, m = [Quiet EXCEPT !.another = TRUE, !.intent = "PROPERTY_SEARCH", !.ops = o] PROVE TurnHeard(m)
  <2> m.ops = o /\ m.ordinals = <<>> /\ m.code = None /\ m.phone = "own" /\ m.return = 0
    BY <1>3 DEF Quiet
  <2> OpsAre(m.ops) BY <1>3 DEF OpsAre, Briefs
  <2> m.phone \in Phones BY DEF Phones
  <2> QED BY DEF TurnHeard
<1>4. CASE m = [Quiet EXCEPT !.intent = "RESET_SEARCH", !.ops = <<Reset>>]
  BY <1>4 DEF TurnHeard, OpsAre, Quiet, Phones
<1>5. CASE \/ m = [Quiet EXCEPT !.again = TRUE]
           \/ m = [Quiet EXCEPT !.another = TRUE]
           \/ m = [Quiet EXCEPT !.intent = "RESERVATION_REQUEST"]
           \/ m = [Quiet EXCEPT !.given = {"phone"}, !.submit = TRUE]
  <2> m.ops = <<>> /\ m.ordinals = <<>> /\ m.code = None /\ m.phone = "own" /\ m.return = 0
    BY <1>5 DEF Quiet
  <2> QED BY DEF TurnHeard, OpsAre, Phones
<1>6. ASSUME NEW r \in 1..MaxRequirements, m = [Quiet EXCEPT !.return = r] PROVE TurnHeard(m)
  BY <1>6 DEF TurnHeard, OpsAre, Quiet, Phones
<1>7. ASSUME NEW n \in 1..2, m = [Quiet EXCEPT !.intent = "PRICE_QUESTION", !.ordinals = <<n>>] PROVE TurnHeard(m)
  <2> n = 1 \/ n = 2 OBVIOUS
  <2> QED BY <1>7 DEF TurnHeard, OpsAre, Quiet, Phones
<1>8. CASE m = [Quiet EXCEPT !.intent = "COMPARISON", !.ordinals = <<1, 2>>]
  BY <1>8 DEF TurnHeard, OpsAre, Quiet, Phones
<1>9. ASSUME NEW u \in Units, m = [Quiet EXCEPT !.intent = "PRICE_QUESTION", !.code = u] PROVE TurnHeard(m)
  BY <1>9 DEF TurnHeard, OpsAre, Quiet, Phones
<1>10. ASSUME NEW p \in Phones, m = [Quiet EXCEPT !.intent = "RESERVATION_REQUEST", !.given = Fields, !.phone = p] PROVE TurnHeard(m)
  BY <1>10 DEF TurnHeard, OpsAre, Quiet
<1> QED BY <1>1, <1>2, <1>3, <1>4, <1>5, <1>6, <1>7, <1>8, <1>9, <1>10 DEF Messages

\* An amount comes with its currency and its constraint.
Limited(sought) ==
  sought.amount # None =>
    /\ sought.currency # None
    /\ sought.constraint # None /\ sought.constraint.of = Asked(sought)

\* What the rest of a state keeps when its search is replaced.
LEMMA SearchReplaced ==
  ASSUME NEW st \in States, NEW sought \in Search_
  PROVE  LET next == [st EXCEPT !.search = sought] IN
         /\ next \in States /\ next.search = sought
         /\ next.pending = st.pending /\ next.contexts = st.contexts /\ next.results = st.results
         /\ next.selected = st.selected
BY DEF States

LEMMA SelectionCleared ==
  ASSUME NEW st \in States
  PROVE  LET next == ClearSelection(st) IN
         /\ next \in States /\ next.search = st.search
         /\ next.pending = st.pending /\ next.contexts = st.contexts /\ next.results = NoResults
BY DEF States, ClearSelection, NoResults, Results_

LEMMA FieldReplaced ==
  ASSUME NEW s \in Search_
  PROVE  /\ \A p \in Places \cup {None} : [s EXCEPT !.place = p] \in Search_
         /\ \A a \in Amounts \cup {None} : [s EXCEPT !.amount = a] \in Search_
         /\ \A c \in Currencies \cup {None} : [s EXCEPT !.currency = c] \in Search_
         /\ \A c \in Constraint \cup {None} : [s EXCEPT !.constraint = c] \in Search_
         /\ \A b \in Budget \cup {None} : [s EXCEPT !.budget = b] \in Search_
<1> DEFINE ps == Places \cup {None}  as == Amounts \cup {None}  cs == Currencies \cup {None}
           ks == Constraint \cup {None}  bs == Budget \cup {None}
<1> s \in [place : ps, amount : as, currency : cs, constraint : ks, budget : bs] BY DEF Search_
<1> HIDE DEF ps, as, cs, ks, bs
<1> QED BY DEF Search_, ps, as, cs, ks, bs

LEMMA NoSearchIsSearch == NoSearch \in Search_ /\ Bare(NoSearch) /\ Limited(NoSearch)
BY DEF NoSearch, Search_, Bare, Limited

\* What each operation does.
LEMMA OneOperation ==
  ASSUME NEW st \in States
  PROVE  /\ ApplyOperation(st, Reset) = ClearSelection([st EXCEPT !.search = NoSearch])
         /\ \A p \in Places : ApplyOperation(st, Set("place", p)) = [st EXCEPT !.search = [st.search EXCEPT !.place = p]]
         /\ \A a \in Amounts : ApplyOperation(st, Set("amount", a)) = [st EXCEPT !.search = [st.search EXCEPT !.amount = a]]
         /\ \A c \in Currencies : ApplyOperation(st, Set("currency", c)) = [st EXCEPT !.search = [st.search EXCEPT !.currency = c]]
         /\ ApplyOperation(st, Drop("amount")) = [st EXCEPT !.search = [st.search EXCEPT !.amount = None]]
         /\ ApplyOperation(st, Drop("place")) = [st EXCEPT !.search = [st.search EXCEPT !.place = None]]
         /\ ApplyOperation(st, Set("strictness", "APPROXIMATE")) = st
BY DEF ApplyOperation, Set, Drop, Reset

\* A state after operations: the rest of it stays but for a selection that a reset clears.
Rewritten(next, st) ==
  /\ next \in States /\ next.pending = st.pending /\ next.contexts = st.contexts

TouchingFields == {"amount", "currency", "strictness"}
Touched(ops) == \E i \in DOMAIN ops : ops[i].field \in TouchingFields

LEMMA OperationsApplied ==
  ASSUME NEW st \in States, NEW ops, OpsAre(ops)
  PROVE  LET next == ApplyOperations(st, ops) IN
         /\ Rewritten(next, st)
         /\ ops = <<>> => next = st
         /\ Limited(st.search) /\ next.search.amount # None => next.search.currency # None
         /\ Bare(st.search) /\ Limited(st.search) /\ ~Touched(ops) => Bare(next.search) /\ Limited(next.search)
<1> DEFINE next == ApplyOperations(st, ops)
           Goal(x) == /\ Rewritten(x, st)
                      /\ Limited(st.search) /\ x.search.amount # None => x.search.currency # None
                      /\ Bare(st.search) /\ Limited(st.search) /\ ~Touched(ops) => Bare(x.search) /\ Limited(x.search)
           s == st.search
<1> s \in Search_ BY DEF States
<1>none. None \notin Currencies /\ None \notin Amounts BY DialogueConstants
<1>0. Goal(st) /\ Goal(ClearSelection([st EXCEPT !.search = NoSearch]))
  <2>1. Goal(st) BY DEF Rewritten, Limited
  <2> DEFINE cleared == [st EXCEPT !.search = NoSearch]
  <2>2. cleared \in States /\ cleared.search = NoSearch /\ cleared.pending = st.pending /\ cleared.contexts = st.contexts
    BY SearchReplaced, NoSearchIsSearch
  <2> HIDE DEF cleared
  <2> DEFINE x == ClearSelection(cleared)
  <2>3. x \in States /\ x.search = NoSearch /\ x.pending = st.pending /\ x.contexts = st.contexts
    BY <2>2, SelectionCleared
  <2> HIDE DEF x
  <2>4. Goal(x) BY <2>3, NoSearchIsSearch DEF Rewritten, NoSearch
  <2> QED BY <2>1, <2>4 DEF x, cleared
<1>3. ASSUME NEW p \in Places \cup {None} PROVE Goal([st EXCEPT !.search = [s EXCEPT !.place = p]])
  <2> DEFINE n == [s EXCEPT !.place = p]  x == [st EXCEPT !.search = n]
  <2>1. n \in Search_ BY FieldReplaced
  <2>2. n.amount = s.amount /\ n.currency = s.currency /\ n.constraint = s.constraint BY DEF Search_
  <2> HIDE DEF n
  <2>3. x.search = n /\ Rewritten(x, st) BY <2>1, SearchReplaced DEF Rewritten
  <2> HIDE DEF x
  <2>4. Goal(x) BY <2>2, <2>3 DEF Limited, Bare, Asked, Currency
  <2> QED BY <2>4 DEF x, n
<1>6. ASSUME NEW n \in Search_, Touched(ops), Limited(s) /\ n.amount # None => n.currency # None
      PROVE  Goal([st EXCEPT !.search = n])
  <2> DEFINE x == [st EXCEPT !.search = n]
  <2>1. x.search = n /\ Rewritten(x, st) BY SearchReplaced DEF Rewritten
  <2> HIDE DEF x
  <2>2. Goal(x) BY <1>6, <2>1
  <2> QED BY <2>2 DEF x
<1> HIDE DEF Goal
<1>1. ASSUME ops = <<>> PROVE Goal(next)
  BY <1>0, <1>1 DEF ApplyOperations
<1>2. ASSUME ops = <<Reset>> PROVE Goal(next)
  <2> next = ClearSelection([st EXCEPT !.search = NoSearch]) BY <1>2, OneOperation DEF ApplyOperations
  <2> QED BY <1>0
<1>4. ASSUME NEW p \in Places, ops = <<Set("place", p)>> PROVE Goal(next)
  <2> next = [st EXCEPT !.search = [s EXCEPT !.place = p]] BY <1>4, OneOperation DEF ApplyOperations
  <2> QED BY <1>3
<1>5. ASSUME ops = <<Drop("place")>> PROVE Goal(next)
  <2> next = [st EXCEPT !.search = [s EXCEPT !.place = None]] BY <1>5, OneOperation DEF ApplyOperations
  <2> QED BY <1>3
<1>7. ASSUME NEW a \in Amounts, NEW c \in Currencies, ops = <<Set("amount", a), Set("currency", c)>> PROVE Goal(next)
  <2> DEFINE n == [s EXCEPT !.amount = a]  n2 == [n EXCEPT !.currency = c]
  <2>1. n \in Search_ BY FieldReplaced
  <2>0. n2 \in Search_
    <3> HIDE DEF n
    <3> QED BY <2>1, FieldReplaced
  <2>2. n2.currency = c BY <2>1 DEF Search_
  <2> DEFINE mid == [st EXCEPT !.search = n]
  <2>3. mid \in States /\ mid.search = n BY <2>1, SearchReplaced
  <2>4. ApplyOperation(st, Set("amount", a)) = mid BY OneOperation
  <2>5. next = ApplyOperation(mid, Set("currency", c)) BY <1>7, <2>4 DEF ApplyOperations
  <2>7. [mid EXCEPT !.search = n2] = [st EXCEPT !.search = n2] BY DEF States
  <2>8. ops[1].field = "amount" /\ 1 \in DOMAIN ops BY <1>7 DEF Set
  <2>9. Touched(ops) BY <2>8 DEF Touched, TouchingFields
  <2>6. next = [mid EXCEPT !.search = n2]
    <3> HIDE DEF mid, n, next
    <3> QED BY <2>3, <2>5, OneOperation
  <2> HIDE DEF mid, n, n2, next
  <2> QED BY <1>6, <1>none, <2>0, <2>2, <2>6, <2>7, <2>9
<1>8. ASSUME ops = <<Drop("amount")>> PROVE Goal(next)
  <2> DEFINE n == [s EXCEPT !.amount = None]
  <2>1. n \in Search_ BY FieldReplaced
  <2>2. n.amount = None BY <2>1 DEF Search_
  <2>3. next = [st EXCEPT !.search = n] BY <1>8, OneOperation DEF ApplyOperations
  <2>4. ops[1].field = "amount" /\ 1 \in DOMAIN ops BY <1>8 DEF Drop
  <2>5. Touched(ops) BY <2>4 DEF Touched, TouchingFields
  <2> HIDE DEF n, next
  <2> QED BY <1>6, <2>1, <2>2, <2>3, <2>5
<1>9. ASSUME ops = <<Set("currency", "EGP")>> PROVE Goal(next)
  <2> DEFINE n == [s EXCEPT !.currency = "EGP"]
  <2>0. "EGP" \in Currencies BY DEF Currencies
  <2>1. n \in Search_ BY <2>0, FieldReplaced
  <2>2. n.currency = "EGP" BY <2>1 DEF Search_
  <2>3. next = [st EXCEPT !.search = n] BY <1>9, <2>0, OneOperation DEF ApplyOperations
  <2>4. ops[1].field = "currency" /\ 1 \in DOMAIN ops BY <1>9 DEF Set
  <2>5. Touched(ops) BY <2>4 DEF Touched, TouchingFields
  <2> HIDE DEF n, next
  <2> QED BY <1>6, <1>none, <2>0, <2>1, <2>2, <2>3, <2>5
<1>10. ASSUME ops = <<Set("strictness", "APPROXIMATE")>> PROVE Goal(next)
  <2> next = st BY <1>10, OneOperation DEF ApplyOperations
  <2> QED BY <1>0
<1>11. ops = <<>> => next = st BY DEF ApplyOperations
<1> HIDE DEF next
<1>12. Goal(next) BY <1>1, <1>2, <1>4, <1>5, <1>7, <1>8, <1>9, <1>10 DEF OpsAre
<1> QED BY <1>11, <1>12 DEF next, Goal

\* The constraint follows what the operations left of the budget.
LEMMA ConstraintSynced ==
  ASSUME NEW s \in Search_, NEW ops, OpsAre(ops)
  PROVE  LET n == SyncBudgetConstraint(s, ops) IN
         /\ n \in Search_ /\ n.place = s.place
         /\ ~Touched(ops) => n = s
         /\ Touched(ops) => Bare(n) /\ ((s.amount # None => s.currency # None) => Limited(n))
<1> DEFINE explicit == {ops[i].value : i \in {j \in DOMAIN ops : ops[j].op = "SET" /\ ops[j].field = "strictness"}}
           kept == s.constraint # None /\ s.constraint.of = Asked(s)
           strictness == IF explicit # {} THEN CHOOSE x \in explicit : TRUE
                         ELSE IF kept THEN s.constraint.strictness ELSE "HARD"
           k == [of |-> Asked(s), strictness |-> strictness]
           n == SyncBudgetConstraint(s, ops)
<1>1. explicit \subseteq {"HARD", "APPROXIMATE"}
  BY DEF OpsAre, Set, Drop, Reset
<1>2. explicit # {} => (CHOOSE x \in explicit : TRUE) \in explicit
  <2> HIDE DEF explicit
  <2> QED OBVIOUS
<1>3. kept => s.constraint.strictness \in {"HARD", "APPROXIMATE"}
  BY DEF Search_, Constraint
<1>4. strictness \in {"HARD", "APPROXIMATE"}
  <2> HIDE DEF explicit, kept
  <2> QED BY <1>1, <1>2, <1>3
<1>5. Asked(s) \in (Amounts \cup {None}) \X Currencies
  BY DEF Asked, Currency, Search_, Currencies
<1> HIDE DEF strictness
<1>6. k \in Constraint /\ k # None /\ k.of = Asked(s)
  BY <1>4, <1>5, DialogueConstants DEF Constraint
<1>7. CASE ~Touched(ops)
  BY <1>7 DEF SyncBudgetConstraint, Touched, TouchingFields
<1>8. CASE Touched(ops) /\ s.amount = None
  <2>1. n = [s EXCEPT !.constraint = None, !.budget = None]
    BY <1>8 DEF SyncBudgetConstraint, Touched, TouchingFields
  <2> DEFINE bare == [s EXCEPT !.constraint = None]
  <2>2. n = [bare EXCEPT !.budget = None] /\ bare \in Search_ BY <2>1, FieldReplaced
  <2>3. n \in Search_
    <3> HIDE DEF bare, n
    <3> QED BY <2>2, FieldReplaced
  <2>4. n.constraint = None /\ n.place = s.place /\ n.amount = None BY <1>8, <2>1 DEF Search_
  <2> QED BY <1>8, <2>3, <2>4 DEF Bare, Limited
<1>9. CASE Touched(ops) /\ s.amount # None
  <2>1. n = [s EXCEPT !.constraint = k]
    BY <1>9 DEF SyncBudgetConstraint, Touched, TouchingFields, strictness
  <2> HIDE DEF k
  <2>2. n \in Search_ BY <1>6, <2>1, FieldReplaced
  <2>3. n.constraint = k /\ n.place = s.place /\ n.amount = s.amount /\ n.currency = s.currency BY <2>1 DEF Search_
  <2>4. Asked(n) = Asked(s) BY <2>3 DEF Asked, Currency
  <2> QED BY <1>6, <1>9, <2>2, <2>3, <2>4 DEF Bare, Limited
<1> QED BY <1>7, <1>8, <1>9

IdLists == {<<>>} \cup UNION {[1..n -> Units] : n \in 1..2}

LEMMA ListedUnits ==
  ASSUME NEW ids \in IdLists
  PROVE  Len(ids) \in Nat /\ \A k \in 1..Len(ids) : ids[k] \in Units
<1>1. ids = <<>> \/ ids \in [1..1 -> Units] \/ ids \in [1..2 -> Units]
  <2>1. ASSUME NEW n \in 1..2, ids \in [1..n -> Units] PROVE ids \in [1..1 -> Units] \/ ids \in [1..2 -> Units]
    <3> n = 1 \/ n = 2 OBVIOUS
    <3> QED BY <2>1
  <2> QED BY <2>1 DEF IdLists
<1>2. ids \in Seq(Units)
  <2>1. [1..1 -> Units] \subseteq Seq(Units) /\ [1..2 -> Units] \subseteq Seq(Units)
    BY SeqDef
  <2>2. <<>> \in Seq(Units) OBVIOUS
  <2>3. CASE ids = <<>> BY <2>2, <2>3
  <2>4. CASE ids \in [1..1 -> Units] BY <2>1, <2>4
  <2>5. CASE ids \in [1..2 -> Units] BY <2>1, <2>5
  <2> QED BY <1>1, <2>3, <2>4, <2>5
<1> QED BY <1>2, LenProperties, ElementOfSeq

\* Pointing at results changes what is selected or compared, or asks back.
Pointing(next, st) ==
  /\ next \in States /\ next.search = st.search /\ next.results = st.results
  /\ next.pending = st.pending /\ next.contexts = st.contexts

LEMMA OrdinalsResolved ==
  ASSUME NEW st \in States, NEW m, TurnHeard(m)
  PROVE  Pointing(ResolveOrdinals(st, m.intent, m.ordinals), st)
<1> DEFINE ordinals == m.ordinals
           found == {n \in 1..Len(ordinals) : ordinals[n] <= Len(st.results.ids)}
           chosenUnit(n) == st.results.ids[ordinals[n]]
           next == ResolveOrdinals(st, m.intent, ordinals)
<1>1. Len(st.results.ids) \in Nat /\ \A k \in 1..Len(st.results.ids) : st.results.ids[k] \in Units
  BY ListedUnits DEF States, Results_, IdLists
<1>2. \A n \in 1..Len(ordinals) : ordinals[n] \in {1, 2}
  BY DEF TurnHeard
<1>3. \A n \in found : chosenUnit(n) \in Units
  BY <1>1, <1>2
<1>4. ordinals = <<>> \/ Len(ordinals) = 1 \/ Len(ordinals) = 2
  <2>1. ordinals = <<>> \/ ordinals = <<1, 2>> \/ ordinals = <<1>> \/ ordinals = <<2>> BY DEF TurnHeard
  <2>2. Len(<<1, 2>>) = 2 /\ Len(<<1>>) = 1 /\ Len(<<2>>) = 1 OBVIOUS
  <2> HIDE DEF ordinals
  <2> QED BY <2>1, <2>2
<1>5. CASE ordinals = <<>>
  BY <1>5 DEF ResolveOrdinals, Pointing
<1>6. CASE ordinals # <<>> /\ found # 1..Len(ordinals)
  <2>1. \E c \in Clarifications : next = [st EXCEPT !.clarify = c]
    BY <1>6 DEF ResolveOrdinals, Clarifications
  <2> QED BY <2>1 DEF States, Pointing
<1>7. CASE ordinals # <<>> /\ found = 1..Len(ordinals) /\ m.intent = "COMPARISON"
  <2>1. next = [st EXCEPT !.compared = {chosenUnit(n) : n \in found}]
    BY <1>7 DEF ResolveOrdinals
  <2>2. {chosenUnit(n) : n \in found} \in SUBSET Units BY <1>3
  <2> HIDE DEF chosenUnit, found
  <2> QED BY <2>1, <2>2 DEF States, Pointing
<1>8. CASE ordinals # <<>> /\ found = 1..Len(ordinals) /\ m.intent # "COMPARISON"
  <2>1. next = [st EXCEPT !.selected = chosenUnit(Len(ordinals))]
    BY <1>8 DEF ResolveOrdinals
  <2>2. chosenUnit(Len(ordinals)) \in Units
    <3>1. Len(ordinals) \in found BY <1>4, <1>8
    <3> QED BY <1>3, <3>1
  <2> HIDE DEF chosenUnit, found
  <2> QED BY <2>1, <2>2 DEF States, Pointing
<1> QED BY <1>5, <1>6, <1>7, <1>8

\* What the engine makes of a message.
LEMMA EngineApplied ==
  ASSUME NEW st \in States, NEW m, TurnHeard(m)
  PROVE  LET s == Apply(st, m) IN
         /\ Rewritten(s, st)
         /\ FreshResults(st) => FreshResults(s)
         /\ Bare(st.search) /\ Limited(st.search) => Bare(s.search) /\ Limited(s.search)
<1> DEFINE ops == IF m.intent \in Passive THEN <<>> ELSE m.ops
           next == ApplyOperations(st, ops)
           sought == SyncBudgetConstraint(next.search, ops)
           synced == [next EXCEPT !.search = sought]
           current == IF ops = <<>> THEN synced ELSE ClearSelection(synced)
           asked == [current EXCEPT !.clarify = None]
           s == ResolveOrdinals(asked, m.intent, m.ordinals)
<1>0. Apply(st, m) = s BY DEF Apply
<1>1. OpsAre(ops) BY DEF TurnHeard, OpsAre
<1> HIDE DEF ops
<1>2. /\ Rewritten(next, st)
      /\ ops = <<>> => next = st
      /\ Limited(st.search) /\ next.search.amount # None => next.search.currency # None
      /\ Bare(st.search) /\ Limited(st.search) /\ ~Touched(ops) => Bare(next.search) /\ Limited(next.search)
  BY <1>1, OperationsApplied
<1> HIDE DEF next
<1>3. next \in States /\ next.search \in Search_ BY <1>2 DEF Rewritten, States
<1>4. /\ sought \in Search_ /\ sought.place = next.search.place
      /\ ~Touched(ops) => sought = next.search
      /\ Touched(ops) => Bare(sought) /\ ((next.search.amount # None => next.search.currency # None) => Limited(sought))
  BY <1>1, <1>3, ConstraintSynced
<1> HIDE DEF sought
<1>5. /\ synced \in States /\ synced.search = sought /\ synced.results = next.results
      /\ synced.pending = next.pending /\ synced.contexts = next.contexts
  BY <1>3, <1>4, SearchReplaced
<1> HIDE DEF synced
<1>6. /\ current \in States /\ current.search = sought
      /\ current.pending = next.pending /\ current.contexts = next.contexts
      /\ current.results = (IF ops = <<>> THEN next.results ELSE NoResults)
  BY <1>5, SelectionCleared
<1> HIDE DEF current
<1>7. /\ asked \in States /\ asked.search = sought /\ asked.results = current.results
      /\ asked.pending = next.pending /\ asked.contexts = next.contexts
  BY <1>6 DEF States
<1> HIDE DEF asked
<1>8. Pointing(s, asked) BY <1>7, OrdinalsResolved
<1> HIDE DEF s
<1>9. Rewritten(s, st) BY <1>2, <1>7, <1>8 DEF Rewritten, Pointing
<1>10. ASSUME FreshResults(st) PROVE FreshResults(s)
  <2>1. CASE ops = <<>>
    <3>1. next = st /\ s.results = st.results /\ s.search = sought BY <1>2, <1>6, <1>7, <1>8, <2>1 DEF Pointing
    <3>2. sought.place = st.search.place BY <1>4, <3>1
    <3> QED BY <1>10, <3>1, <3>2 DEF FreshResults
  <2>2. CASE ops # <<>>
    <3>1. s.results = NoResults BY <1>6, <1>7, <1>8, <2>2 DEF Pointing
    <3> QED BY <3>1 DEF FreshResults, NoResults
  <2> QED BY <2>1, <2>2
<1>11. ASSUME Bare(st.search), Limited(st.search) PROVE Bare(s.search) /\ Limited(s.search)
  <2>1. s.search = sought BY <1>7, <1>8 DEF Pointing
  <2> QED BY <1>2, <1>4, <1>11, <2>1
<1> QED BY <1>0, <1>9, <1>10, <1>11

\* A budget is converted only of an amount, and describes what was asked.
LEMMA BudgetNormalized ==
  ASSUME NEW s \in Search_, NEW rate \in BOOLEAN
  PROVE  LET n == NormalizeBudget(s, rate) IN
         /\ n \in Search_ /\ n.place = s.place
         /\ Bare(s) /\ Limited(s) => Bare(n) /\ Described(n)
<1> DEFINE n == NormalizeBudget(s, rate)
<1>1. CASE s.amount = None
  <2>1. n = [s EXCEPT !.budget = None] BY <1>1 DEF NormalizeBudget
  <2>2. n \in Search_ BY <2>1, FieldReplaced
  <2>3. n.place = s.place /\ n.amount = s.amount /\ n.constraint = s.constraint BY <2>1 DEF Search_
  <2> QED BY <1>1, <2>2, <2>3 DEF Bare, Described
<1>2. CASE s.amount # None /\ s.budget # None /\ s.budget.of = Asked(s)
  <2>1. n = s BY <1>2 DEF NormalizeBudget
  <2> QED BY <1>2, <2>1 DEF Limited, Described
<1>3. CASE s.amount # None /\ ~(s.budget # None /\ s.budget.of = Asked(s))
  <2> DEFINE strictness == IF s.constraint = None THEN "HARD" ELSE s.constraint.strictness
             k == [of |-> Asked(s), strictness |-> strictness]
             egp == IF Currency(s) = "EGP" \/ rate THEN Asked(s) ELSE None
             b == [of |-> Asked(s), egp |-> egp]
             c == Currency(s)
  <2>1. n = [s EXCEPT !.currency = c, !.constraint = k, !.budget = b]
    BY <1>3 DEF NormalizeBudget, Converted
  <2>2. c \in Currencies /\ Asked(s) \in Money
    BY <1>3 DEF Currency, Asked, Search_, Currencies, Money
  <2>3. strictness \in {"HARD", "APPROXIMATE"} BY DEF Search_, Constraint
  <2> HIDE DEF strictness
  <2>4. k \in Constraint BY <2>2, <2>3 DEF Constraint, Money
  <2>5. egp \in Worth BY <2>2 DEF Worth
  <2>6. b \in Budget BY <2>2, <2>5 DEF Budget
  <2>7. k.of = Asked(s) /\ b.of = Asked(s) /\ c # None /\ k # None /\ b # None
    BY <2>2, <2>4, <2>6, DialogueConstants
  <2> HIDE DEF c, k, b
  <2> DEFINE x == [s EXCEPT !.currency = c]  y == [x EXCEPT !.constraint = k]
  <2>8. n = [y EXCEPT !.budget = b] BY <2>1
  <2>9. x \in Search_ BY <2>2, FieldReplaced
  <2>10. y \in Search_
    <3> HIDE DEF x
    <3> QED BY <2>4, <2>9, FieldReplaced
  <2>11. n \in Search_
    <3> HIDE DEF y, n
    <3> QED BY <2>6, <2>8, <2>10, FieldReplaced
  <2>12. n.place = s.place /\ n.amount = s.amount /\ n.currency = c /\ n.constraint = k /\ n.budget = b
    BY <2>1 DEF Search_
  <2>13. Asked(n) = Asked(s) BY <2>7, <2>12 DEF Asked, Currency, c
  <2> QED BY <1>3, <2>7, <2>11, <2>12, <2>13 DEF Bare, Described
<1> QED BY <1>1, <1>2, <1>3

-----------------------------------------------------------------------------
(* The turn a message starts *)

\* The request a message leaves pending is for what is selected or what was pending.
LEMMA RequestReserved ==
  ASSUME NEW st \in States, NEW m, TurnHeard(m), contact \in ContactForms
  PROVE  LET p == Reservation(st, m) IN
         p # None =>
           /\ p \in Pending
           /\ \/ st.selected # None /\ p.unit = st.selected
              \/ st.pending # None /\ p.unit = st.pending.unit
<1> DEFINE old == st.pending
           chosenUnit == IF st.selected # None THEN st.selected ELSE IF old # None THEN old.unit ELSE None
           had == IF old = None THEN [name |-> FALSE, phone |-> None, payment |-> FALSE] ELSE old
           name == "name" \in m.given \/ had.name \/ contact.name
           phone == IF "phone" \in m.given THEN m.phone ELSE Kept(had.phone, contact.phone)
           payment == "payment" \in m.given \/ had.payment
           r == [unit |-> chosenUnit, name |-> name, phone |-> phone, payment |-> payment]
           p == Reservation(st, m)
<1> SUFFICES ASSUME p # None
             PROVE  /\ p \in Pending
                    /\ \/ st.selected # None /\ p.unit = st.selected
                       \/ old # None /\ p.unit = old.unit
  OBVIOUS
<1>1. p = r /\ chosenUnit # None BY DEF Reservation
<1>2. st.selected \in Units \cup {None} /\ (old # None => old \in Pending) BY DEF States
<1>3. chosenUnit \in Units BY <1>1, <1>2 DEF Pending
<1>4. had.phone \in Phones \cup {None} BY <1>2 DEF Pending
<1>5. phone \in Phones \cup {None} BY <1>4 DEF TurnHeard, Kept, ContactForms, Phones
<1>6. name \in BOOLEAN /\ payment \in BOOLEAN OBVIOUS
<1>7. r \in Pending
  <2> HIDE DEF chosenUnit, name, phone, payment
  <2> QED BY <1>3, <1>5, <1>6 DEF Pending
<1>8. chosenUnit # None BY <1>1
<1>9. \/ st.selected # None /\ chosenUnit = st.selected
      \/ old # None /\ chosenUnit = old.unit
  BY <1>8
<1>10. p.unit = chosenUnit BY <1>1
<1> HIDE DEF chosenUnit, p
<1> QED BY <1>1, <1>7, <1>9, <1>10 DEF p

\* What is complete has a phone.
LEMMA SubmittedWithPhone ==
  ASSUME NEW p \in Pending \cup {None}, NEW m, ShouldSubmit(p, m)
  PROVE  p # None /\ p.phone # None
BY DEF ShouldSubmit, Missing, Fields

\* The turn goes on to another step with the same state.
Onward(next, t) ==
  /\ next \in TurnForms /\ next.step \notin {"idle", "contact"}
  /\ next.step = "reserve" => next.reserve
  /\ next.st = t.st /\ next.req = t.req /\ next.brief = t.brief /\ next.reserve = t.reserve
  /\ next.query = t.query

LEMMA ToolsFollow ==
  ASSUME NEW t \in TurnForms PROVE Onward(AfterTools(t), t)
<1> DEFINE step == IF t.plan # {} THEN "tools" ELSE IF t.reserve THEN "reserve" ELSE
                   IF t.req # 0 THEN "context" ELSE "persist"
           next == [t EXCEPT !.step = step]
<1>1. step \in Steps \ {"idle", "contact"} /\ (step = "reserve" => t.reserve) BY DEF Steps
<1>2. AfterTools(t) = next BY DEF AfterTools
<1> HIDE DEF step
<1>3. /\ next \in TurnForms /\ next.step = step
      /\ next.st = t.st /\ next.req = t.req /\ next.brief = t.brief /\ next.reserve = t.reserve
      /\ next.query = t.query
  BY <1>1 DEF TurnForms
<1> HIDE DEF next
<1> QED BY <1>1, <1>2, <1>3 DEF Onward

LEMMA BriefFollows ==
  ASSUME NEW t \in TurnForms PROVE Onward(AfterBrief(t), t)
<1> DEFINE plan == (IF t.st.clarify = None THEN t.plan ELSE {}) \cup (IF t.reserve THEN {"GET_PAYMENT_PLAN"} ELSE {})
           next == [t EXCEPT !.plan = plan]
<1>1. plan \in SUBSET ToolNames BY DEF TurnForms, ToolNames
<1>2. AfterBrief(t) = AfterTools(next) BY DEF AfterBrief
<1> HIDE DEF plan
<1>3. /\ next \in TurnForms
      /\ next.st = t.st /\ next.req = t.req /\ next.brief = t.brief /\ next.reserve = t.reserve
      /\ next.query = t.query
  BY <1>1 DEF TurnForms
<1> HIDE DEF next
<1> QED BY <1>2, <1>3, ToolsFollow DEF Onward

LEMMA ContactFollows ==
  ASSUME NEW t \in TurnForms PROVE Onward(AfterContact(t), t)
<1>1. CASE t.briefs
  <2> DEFINE next == [t EXCEPT !.step = "brief"]
  <2>1. AfterContact(t) = next BY <1>1 DEF AfterContact
  <2>2. /\ next \in TurnForms /\ next.step = "brief"
        /\ next.st = t.st /\ next.req = t.req /\ next.brief = t.brief /\ next.reserve = t.reserve
        /\ next.query = t.query
    BY DEF TurnForms, Steps
  <2> HIDE DEF next
  <2> QED BY <2>1, <2>2 DEF Onward
<1>2. CASE ~t.briefs
  BY <1>2, BriefFollows DEF AfterContact
<1> QED BY <1>1, <1>2

LEMMA InitialShapes == InitialState \in States /\ NoTurn \in TurnForms
<1>1. NoResults \in Results_ BY DEF NoResults, Results_
<1>2. [r \in 1..MaxRequirements |-> None] \in Contexts BY DEF Contexts
<1>3. InitialState \in States BY <1>1, <1>2, NoSearchIsSearch DEF InitialState, States
<1>4. NoTurn \in TurnForms
  <2> 0 \in 0..MaxRequirements BY DialogueConstants
  <2> QED BY <1>3 DEF NoTurn, TurnForms, Steps, ToolNames
<1> QED BY <1>3, <1>4

\* A turn that has just begun, and what it takes over from the state it was given.
Begun(t, st, req) ==
  /\ t \in TurnForms /\ t.step # "idle" /\ t.req = req /\ t.brief = 0 /\ t.query = None
  /\ t.st.contexts = st.contexts
  /\ FreshResults(st) => FreshResults(t.st)
  /\ Bare(st.search) /\ Limited(st.search) => Bare(t.st.search) /\ Described(t.st.search)
  /\ t.st.pending # None =>
       \/ t.st.selected # None /\ t.st.pending.unit = t.st.selected
       \/ st.pending # None /\ t.st.pending.unit = st.pending.unit
  /\ Own(st) /\ t.step # "contact" => Own(t.st)
  /\ t.step = "contact" => t.st.pending # None
  /\ t.step = "reserve" => t.reserve
  /\ t.reserve => t.st.pending # None /\ t.st.pending.phone # None

LEMMA TurnUnderstood ==
  ASSUME NEW st \in States, NEW m, TurnHeard(m), NEW rate \in BOOLEAN, NEW req \in 0..MaxRequirements,
         contact \in ContactForms
  PROVE  Begun(Understood(m, rate, st, req), st, req)
<1> DEFINE empty == [st EXCEPT !.search = NoSearch, !.clarify = None]
           base == IF Independent(m) THEN ClearSelection(empty) ELSE st
           applied == Apply(base, m)
           sought == NormalizeBudget(applied.search, rate)
           budgeted == [applied EXCEPT !.search = sought]
           pending == Reservation(budgeted, m)
           clarify == IF Missing(pending) = {} THEN budgeted.clarify ELSE "RESERVATION_FIELD"
           reserving == IF pending = None THEN budgeted
                        ELSE [budgeted EXCEPT !.pending = pending, !.clarify = clarify]
           final == IF m.another /\ ~HasCriteria(reserving.search)
                    THEN [reserving EXCEPT !.clarify = "NEW_REQUIREMENT_EXPECTED"] ELSE reserving
           briefs == m.intent \in Searching /\ HasCriteria(final.search)
           plan == Tools(final, m)
           reserve == ShouldSubmit(pending, m)
           fresh == Independent(m)
           u == [NoTurn EXCEPT !.st = final, !.req = req, !.fresh = fresh, !.briefs = briefs,
                               !.plan = plan, !.code = m.code, !.reserve = reserve]
           t == AfterEngine(u, pending)
<1>0. Understood(m, rate, st, req) = t BY DEF Understood
<1>1. /\ base \in States /\ base.pending = st.pending /\ base.contexts = st.contexts
      /\ FreshResults(st) => FreshResults(base)
      /\ Bare(st.search) /\ Limited(st.search) => Bare(base.search) /\ Limited(base.search)
  <2>1. CASE Independent(m)
    <3>1. /\ empty \in States /\ empty.search = NoSearch
          /\ empty.pending = st.pending /\ empty.contexts = st.contexts
      BY NoSearchIsSearch DEF States
    <3> HIDE DEF empty
    <3>2. /\ base \in States /\ base.search = NoSearch /\ base.results = NoResults
          /\ base.pending = st.pending /\ base.contexts = st.contexts
      BY <2>1, <3>1, SelectionCleared
    <3> HIDE DEF base
    <3> QED BY <3>2, NoSearchIsSearch DEF FreshResults, NoResults
  <2>2. CASE ~Independent(m)
    BY <2>2
  <2> QED BY <2>1, <2>2
<1> HIDE DEF base
<1>2. /\ Rewritten(applied, base)
      /\ FreshResults(base) => FreshResults(applied)
      /\ Bare(base.search) /\ Limited(base.search) => Bare(applied.search) /\ Limited(applied.search)
  BY <1>1, EngineApplied
<1> HIDE DEF applied
<1>3. applied \in States /\ applied.search \in Search_ BY <1>2 DEF Rewritten, States
<1>4. /\ sought \in Search_ /\ sought.place = applied.search.place
      /\ Bare(applied.search) /\ Limited(applied.search) => Bare(sought) /\ Described(sought)
  BY <1>3, BudgetNormalized
<1> HIDE DEF sought
<1>5. /\ budgeted \in States /\ budgeted.search = sought /\ budgeted.results = applied.results
      /\ budgeted.pending = st.pending /\ budgeted.contexts = st.contexts
  BY <1>1, <1>2, <1>3, <1>4, SearchReplaced DEF Rewritten
<1> HIDE DEF budgeted
<1>6. pending # None =>
        /\ pending \in Pending
        /\ \/ budgeted.selected # None /\ pending.unit = budgeted.selected
           \/ budgeted.pending # None /\ pending.unit = budgeted.pending.unit
  BY <1>5, RequestReserved
<1> HIDE DEF pending
<1>7. clarify \in Clarifications \cup {None} BY <1>5 DEF States, Clarifications
<1> HIDE DEF clarify
<1>8. /\ reserving \in States /\ reserving.search = sought /\ reserving.results = budgeted.results
      /\ reserving.contexts = st.contexts /\ reserving.selected = budgeted.selected
      /\ reserving.pending = (IF pending = None THEN st.pending ELSE pending)
  BY <1>5, <1>6, <1>7 DEF States
<1> HIDE DEF reserving
<1>9. /\ final \in States /\ final.search = sought /\ final.results = budgeted.results
      /\ final.contexts = st.contexts /\ final.selected = budgeted.selected
      /\ final.pending = (IF pending = None THEN st.pending ELSE pending)
  BY <1>8 DEF States, Clarifications
<1> HIDE DEF final
<1>10. /\ briefs \in BOOLEAN /\ reserve \in BOOLEAN /\ fresh \in BOOLEAN /\ m.code \in Units \cup {None}
  BY DEF ShouldSubmit, Independent, TurnHeard
<1>11. plan \in SUBSET ToolNames BY DEF Tools, ToolNames
<1>12. reserve => pending # None /\ pending.phone # None
  BY <1>6, SubmittedWithPhone
<1> HIDE DEF briefs, reserve, fresh, plan
<1>13. /\ u \in TurnForms
       /\ u.st = final /\ u.req = req /\ u.brief = 0 /\ u.query = None /\ u.reserve = reserve
  <2> NoTurn.brief = 0 /\ NoTurn.query = None BY DEF NoTurn
  <2> QED BY <1>9, <1>10, <1>11, InitialShapes DEF TurnForms
<1> HIDE DEF u
<1>14. /\ t \in TurnForms /\ t.step # "idle" /\ t.st = final /\ t.req = req /\ t.brief = 0
       /\ t.query = None /\ t.reserve = reserve
       /\ t.step = "reserve" => t.reserve
       /\ t.step = "contact" => pending # None
       /\ t.step # "contact" => ~(pending # None /\ (pending.name \/ pending.phone # None))
  <2>1. CASE pending # None /\ (pending.name \/ pending.phone # None)
    <3> DEFINE next == [u EXCEPT !.step = "contact"]
    <3>1. t = next BY <2>1 DEF AfterEngine
    <3>2. /\ next \in TurnForms /\ next.step = "contact"
          /\ next.st = u.st /\ next.req = u.req /\ next.brief = u.brief /\ next.reserve = u.reserve
          /\ next.query = u.query
      BY <1>13 DEF TurnForms, Steps
    <3> HIDE DEF next
    <3> QED BY <1>13, <2>1, <3>1, <3>2
  <2>2. CASE ~(pending # None /\ (pending.name \/ pending.phone # None))
    <3>1. t = AfterContact(u) BY <2>2 DEF AfterEngine
    <3>2. Onward(t, u) BY <1>13, <3>1, ContactFollows
    <3> QED BY <1>13, <2>2, <3>2 DEF Onward
  <2> QED BY <2>1, <2>2
<1> HIDE DEF t
<1>15. FreshResults(st) => FreshResults(t.st)
  BY <1>1, <1>2, <1>4, <1>5, <1>9, <1>14 DEF FreshResults
<1>16. Bare(st.search) /\ Limited(st.search) => Bare(t.st.search) /\ Described(t.st.search)
  BY <1>1, <1>2, <1>4, <1>9, <1>14
<1>17. t.st.pending # None =>
         \/ t.st.selected # None /\ t.st.pending.unit = t.st.selected
         \/ st.pending # None /\ t.st.pending.unit = st.pending.unit
  BY <1>5, <1>6, <1>9, <1>14
<1>18. Own(st) /\ t.step # "contact" => Own(t.st)
  <2>1. ASSUME Own(st), t.step # "contact", pending # None PROVE Own(t.st)
    <3>1. pending.phone = None BY <1>14, <2>1
    <3>2. None # "another customer's" BY DialogueConstants DEF Phones
    <3> QED BY <1>9, <1>14, <2>1, <3>1, <3>2 DEF Own
  <2>2. ASSUME Own(st), pending = None PROVE Own(t.st)
    BY <1>9, <1>14, <2>2 DEF Own
  <2> QED BY <2>1, <2>2
<1>19. (t.step = "contact" => t.st.pending # None) /\ (t.reserve => t.st.pending # None /\ t.st.pending.phone # None)
  BY <1>9, <1>12, <1>14
<1>20. t.st.contexts = st.contexts BY <1>9, <1>14
<1>21. Begun(t, st, req)
  BY <1>14, <1>15, <1>16, <1>17, <1>18, <1>19, <1>20 DEF Begun
<1> QED BY <1>0, <1>21

\* What comes back with a requirement that the customer returns to.
LEMMA RequirementRestored ==
  ASSUME DialogueShape, NEW r \in 1..Len(rows)
  PROVE  LET s == StateFromRequirement(saved, r) IN
         /\ s \in States /\ s.pending = saved.pending /\ s.contexts = saved.contexts
         /\ FreshResults(s)
         /\ Explains(saved.contexts[r], rows[r]) => Bare(s.search) /\ Limited(s.search)
<1> DEFINE row == rows[r]
           money == [amount |-> row.amount, currency |-> row.currency]
           k == [of |-> Asked(money), strictness |-> "HARD"]
           kept == saved.contexts[r]
           ctx == IF kept # None THEN kept ELSE IF row.amount = None THEN None ELSE k
           budget == IF row.original = None THEN None ELSE [of |-> row.original, egp |-> row.egp]
           sought == [place |-> row.place, amount |-> row.amount, currency |-> row.currency,
                      constraint |-> ctx, budget |-> budget]
           results == [row.results EXCEPT !.place = row.place]
           s == [saved EXCEPT !.search = sought, !.selected = row.selected, !.compared = row.compared,
                              !.results = results, !.clarify = None]
<1>0. StateFromRequirement(saved, r) = s BY DEF StateFromRequirement
<1>1. row \in Rows BY ElementOfSeq DEF DialogueShape
<1>2. r \in 1..MaxRequirements BY DialogueConstants, LenProperties DEF DialogueShape
<1>3. kept \in Constraint \cup {None} BY <1>2 DEF DialogueShape, States, Contexts
<1> HIDE DEF row, kept
<1>4. Asked(money) = Asked(row) /\ Asked(row) \in (Amounts \cup {None}) \X Currencies
  BY <1>1 DEF Asked, Currency, Rows, Currencies
<1>5. k \in Constraint /\ k # None /\ k.of = Asked(row)
  BY <1>4, DialogueConstants DEF Constraint
<1> HIDE DEF k
<1>6. ctx \in Constraint \cup {None} BY <1>3, <1>5
<1>7. budget \in Budget \cup {None} BY <1>1 DEF Rows, Worth, Budget
<1>8. results \in Results_ /\ results.place = row.place BY <1>1 DEF Rows, Results_
<1>9. Explains(kept, row) =>
        /\ row.amount = None => ctx = None
        /\ row.amount # None => row.currency # None /\ ctx # None /\ ctx.of = Asked(row)
  BY <1>5 DEF Explains
<1> HIDE DEF ctx, budget, results
<1>10. sought \in Search_ BY <1>1, <1>6, <1>7 DEF Search_, Rows
<1>11. sought.place = row.place /\ sought.amount = row.amount /\ sought.currency = row.currency
       /\ sought.constraint = ctx /\ Asked(sought) = Asked(row)
  BY DEF Asked, Currency
<1> HIDE DEF sought
<1>12. s \in States /\ s.search = sought /\ s.results = results /\ s.pending = saved.pending /\ s.contexts = saved.contexts
  BY <1>1, <1>8, <1>10 DEF DialogueShape, States, Rows
<1> HIDE DEF s
<1>13. FreshResults(s) BY <1>8, <1>11, <1>12 DEF FreshResults
<1>14. Explains(kept, row) => Bare(s.search) /\ Limited(s.search)
  BY <1>9, <1>11, <1>12 DEF Bare, Limited
<1> QED BY <1>0, <1>12, <1>13, <1>14 DEF kept, row

-----------------------------------------------------------------------------
(* Every action *)

\* What a step owes the invariant when the turn goes on.
LEMMA TurnGoesOn ==
  ASSUME DialogueInv,
         saved' = saved, failed' = failed, topic' \in Nat, contact' \in ContactForms,
         chosen \subseteq chosen', chosen' \subseteq Units,
         rows' \in Seq(Rows), Len(rows') <= MaxRequirements, active' \in 0..Len(rows'),
         turn' \in TurnForms, turn'.step # "idle",
         FreshResults(turn.st)',
         ~failed => Bare(turn'.st.search) /\ Described(turn'.st.search) /\ RowsExplained(turn.st)',
         Pointed(turn.st)', turn'.step # "contact" => Own(turn.st)',
         turn'.step = "contact" => turn'.st.pending # None,
         turn'.step = "reserve" => turn'.reserve,
         turn'.reserve => turn'.st.pending # None /\ turn'.st.pending.phone # None,
         BookedAsChosen'
  PROVE  DialogueInv'
<1>1. DialogueShape' BY DEF DialogueInv, DialogueShape
<1>2. FreshResults(saved)' BY DEF DialogueInv, FreshResults
<1>3. ASSUME ~failed' PROVE BudgetsAlike'
  <2>1. Bare(saved.search) /\ Described(saved.search) BY <1>3 DEF DialogueInv, BudgetsAlike
  <2>2. Bare(saved.search)' /\ Described(saved.search)' BY <2>1 DEF Bare, Described, Asked, Currency
  <2>3. Bare(turn.st.search)' /\ Described(turn.st.search)' BY <1>3 DEF Bare, Described, Asked, Currency
  <2> QED BY <1>3, <2>2, <2>3 DEF BudgetsAlike
<1>4. RequestsOwned'
  <2>1. Pointed(saved)' BY DEF DialogueInv, RequestsOwned, Pointed
  <2>2. Own(saved)' BY DEF DialogueInv, RequestsOwned, Own
  <2> QED BY <2>1, <2>2 DEF RequestsOwned
<1> QED BY <1>1, <1>2, <1>3, <1>4 DEF DialogueInv

LEMMA RowsStayExplained ==
  ASSUME NEW st, RowsExplained(st), turn'.st.contexts = st.contexts,
         DOMAIN rows' = DOMAIN rows,
         \A r \in DOMAIN rows : rows'[r].amount = rows[r].amount /\ rows'[r].currency = rows[r].currency
  PROVE  RowsExplained(turn.st)'
<1> SUFFICES ASSUME NEW r \in DOMAIN rows' PROVE Explains(turn'.st.contexts[r], rows'[r])
  BY DEF RowsExplained
<1>1. Explains(st.contexts[r], rows[r]) BY DEF RowsExplained
<1> QED BY <1>1 DEF Explains, Asked, Currency

LEMMA UnderstandKeeps ==
  ASSUME DialogueInv, NEW m \in Messages, NEW rate \in BOOLEAN, Understand(m, rate)
  PROVE  DialogueInv'
<1> DEFINE returns == m.return \in 1..Len(rows)
           quiet == [m EXCEPT !.intent = "CURRENT_SEARCH_QUERY"]
           st == IF returns THEN StateFromRequirement(saved, m.return) ELSE saved
           req == IF returns THEN m.return ELSE active
           msg == IF returns THEN quiet ELSE m
<1>0. DialogueShape /\ turn = NoTurn /\ saved' = saved /\ rows' = rows /\ contact' = contact
      /\ bookings' = bookings /\ failed' = failed /\ active' = req
      /\ chosen' = chosen \cup ({turn'.st.selected} \ {None})
      /\ topic' = IF returns THEN m.return ELSE IF m.another THEN 0 ELSE topic
  BY DEF Understand, DialogueInv
<1>1. TurnHeard(m) /\ TurnHeard(msg)
  <2>1. TurnHeard(m) BY MessagesAreHeard
  <2>2. quiet.ops = m.ops /\ quiet.code = m.code /\ quiet.phone = m.phone /\ quiet.return = m.return
        /\ quiet.ordinals = m.ordinals
    <3>1. DOMAIN m = DOMAIN Quiet BY DEF Messages
    <3>2. DOMAIN m = {"intent", "ops", "ordinals", "code", "return", "another", "given", "phone",
                      "submit", "again"}
      BY <3>1 DEF Quiet
    <3> QED BY <3>2
  <2>3. TurnHeard(quiet) BY <2>1, <2>2 DEF TurnHeard
  <2> QED BY <2>1, <2>3
<1>2. turn' = Understood(msg, rate, st, req)
  BY DEF Understand
<1>3. Len(rows) \in Nat /\ DOMAIN rows = 1..Len(rows) /\ Len(rows) <= MaxRequirements
  BY <1>0, LenProperties DEF DialogueShape
<1>4. req \in 0..Len(rows) /\ req \in 0..MaxRequirements
  BY <1>0, <1>3, DialogueConstants DEF DialogueShape
<1>5. /\ st \in States /\ st.pending = saved.pending /\ st.contexts = saved.contexts
      /\ FreshResults(st)
      /\ ~failed => Bare(st.search) /\ Limited(st.search)
  <2>1. CASE returns
    <3>1. ~failed => Explains(saved.contexts[m.return], rows[m.return])
      BY <1>0, <1>3, <2>1 DEF DialogueInv, BudgetsAlike, RowsExplained, NoTurn
    <3> QED BY <1>0, <2>1, <3>1, RequirementRestored
  <2>2. CASE ~returns
    <3>1. saved \in States /\ FreshResults(saved) BY <1>0 DEF DialogueInv, DialogueShape
    <3>2. ~failed => Bare(saved.search) /\ Described(saved.search) BY DEF DialogueInv, BudgetsAlike
    <3> QED BY <2>2, <3>1, <3>2 DEF Described, Limited
  <2> QED BY <2>1, <2>2
<1> HIDE DEF st, req, msg
<1>6. Begun(turn', st, req)
  BY <1>0, <1>1, <1>2, <1>4, <1>5, TurnUnderstood DEF DialogueShape
<1>7. turn' \in TurnForms /\ turn'.step # "idle" /\ FreshResults(turn.st)' BY <1>5, <1>6 DEF Begun, FreshResults
<1>8. turn'.st.selected \in Units \cup {None} BY <1>7 DEF TurnForms, States
<1>9. chosen \subseteq chosen' /\ chosen' \subseteq Units BY <1>0, <1>8 DEF DialogueShape
<1>10. ASSUME ~failed PROVE Bare(turn'.st.search) /\ Described(turn'.st.search) /\ RowsExplained(turn.st)'
  <2>1. RowsExplained(saved) BY <1>0, <1>10 DEF DialogueInv, BudgetsAlike, NoTurn
  <2>2. RowsExplained(turn.st)' BY <1>0, <1>5, <1>6, <2>1, RowsStayExplained DEF Begun
  <2> QED BY <1>5, <1>6, <1>10, <2>2 DEF Begun
<1>11. Pointed(turn.st)'
  <2>1. turn'.st.selected # None => turn'.st.selected \in chosen' BY <1>0
  <2>2. saved.pending # None => saved.pending.unit \in chosen' BY <1>9 DEF DialogueInv, RequestsOwned, Pointed
  <2> QED BY <1>5, <1>6, <2>1, <2>2 DEF Begun, Pointed
<1>12. turn'.step # "contact" => Own(turn.st)'
  <2>1. Own(st) BY <1>5 DEF DialogueInv, RequestsOwned, Own
  <2> QED BY <1>6, <2>1 DEF Begun, Own
<1>13. BookedAsChosen' BY <1>0, <1>9 DEF DialogueInv, BookedAsChosen
<1>14. topic' \in Nat
  BY <1>0, <1>1 DEF TurnHeard, DialogueShape
<1>15. rows' \in Seq(Rows) /\ Len(rows') <= MaxRequirements /\ active' \in 0..Len(rows') /\ contact' \in ContactForms
  BY <1>0, <1>3, <1>4 DEF DialogueShape
<1>16. /\ turn'.step = "contact" => turn'.st.pending # None
       /\ turn'.step = "reserve" => turn'.reserve
       /\ turn'.reserve => turn'.st.pending # None /\ turn'.st.pending.phone # None
  BY <1>6 DEF Begun
<1> QED BY <1>0, <1>7, <1>9, <1>10, <1>11, <1>12, <1>13, <1>14, <1>15, <1>16, TurnGoesOn

\* Writing a row, of which there may be none.
LEMMA RowReplaced ==
  ASSUME NEW rs \in Seq(Rows), NEW i, NEW x, i \in DOMAIN rs => x \in Rows
  PROVE  LET n == [rs EXCEPT ![i] = x] IN
         /\ n \in Seq(Rows) /\ Len(n) = Len(rs) /\ DOMAIN n = DOMAIN rs
         /\ \A r \in DOMAIN rs : n[r] = IF r = i THEN x ELSE rs[r]
<1> DEFINE n == [rs EXCEPT ![i] = x]
<1>1. Len(rs) \in Nat /\ DOMAIN rs = 1..Len(rs) /\ rs \in [1..Len(rs) -> Rows]
  BY LenProperties, SeqDef
<1>2. n \in [1..Len(rs) -> Rows] BY <1>1
<1>3. n \in Seq(Rows) BY <1>1, <1>2, SeqDef
<1>4. DOMAIN n = 1..Len(rs) BY <1>1
<1>5. Len(n) = Len(rs) BY <1>1, <1>3, <1>4, LenProperties
<1>6. \A r \in DOMAIN rs : n[r] = IF r = i THEN x ELSE rs[r] BY <1>1
<1> QED BY <1>1, <1>3, <1>4, <1>5, <1>6

\* A step of the turn that leaves its search, its contexts and the budgets of the rows alone.
LEMMA OnwardGoesOn ==
  ASSUME DialogueInv, NEW t \in TurnForms, Onward(turn', t), turn.step # "idle",
         saved' = saved, failed' = failed, topic' = topic, contact' \in ContactForms,
         chosen \subseteq chosen', chosen' \subseteq Units, active' = active,
         rows' \in Seq(Rows), Len(rows') = Len(rows), DOMAIN rows' = DOMAIN rows,
         \A r \in DOMAIN rows : rows'[r].amount = rows[r].amount /\ rows'[r].currency = rows[r].currency,
         t.st.search = turn.st.search, t.st.contexts = turn.st.contexts, FreshResults(t.st),
         t.st.pending # None => turn.st.pending # None /\ t.st.pending.unit = turn.st.pending.unit,
         Own(t.st), t.reserve => t.st.pending # None /\ t.st.pending.phone # None,
         BookedAsChosen'
  PROVE  DialogueInv'
<1>1. turn' \in TurnForms /\ turn'.st = t.st /\ turn'.reserve = t.reserve /\ turn'.step \notin {"idle", "contact"}
      /\ (turn'.step = "reserve" => turn'.reserve)
  BY DEF Onward
<1>2. FreshResults(turn.st)' BY <1>1 DEF FreshResults
<1>3. ASSUME ~failed PROVE Bare(turn'.st.search) /\ Described(turn'.st.search) /\ RowsExplained(turn.st)'
  <2>1. Bare(turn.st.search) /\ Described(turn.st.search) /\ RowsExplained(turn.st)
    BY <1>3 DEF DialogueInv, BudgetsAlike
  <2>2. RowsExplained(turn.st)' BY <1>1, <2>1, RowsStayExplained
  <2> QED BY <1>1, <2>1, <2>2
<1>4. Pointed(turn.st)'
  <2>1. turn.st.pending # None => turn.st.pending.unit \in chosen BY DEF DialogueInv, RequestsOwned, Pointed
  <2> QED BY <1>1, <2>1 DEF Pointed
<1>5. Own(turn.st)' BY <1>1 DEF Own
<1>6. topic' \in Nat /\ Len(rows') <= MaxRequirements /\ active' \in 0..Len(rows')
  BY DEF DialogueInv, DialogueShape
<1> QED BY <1>1, <1>2, <1>3, <1>4, <1>5, <1>6, TurnGoesOn

LEMMA SaveContactKeeps ==
  ASSUME DialogueInv, SaveContact
  PROVE  DialogueInv'
<1> DEFINE p == turn.st.pending
           conflict == p.phone = "another customer's"
           pending == IF conflict THEN [p EXCEPT !.phone = None] ELSE p
           st == [turn.st EXCEPT !.pending = pending, !.clarify = "RESERVATION_PHONE_CONFLICT"]
           t == IF conflict THEN [turn EXCEPT !.reserve = FALSE, !.st = st] ELSE turn
<1>0. /\ turn.step = "contact" /\ turn' = AfterContact(t)
      /\ contact' = IF conflict THEN contact ELSE [name |-> p.name, phone |-> p.phone]
      /\ UNCHANGED <<saved, active, rows, turns, bookings, history>>
  BY DEF SaveContact
<1>1. turn \in TurnForms /\ turn.st \in States /\ p \in Pending /\ contact \in ContactForms
  BY <1>0 DEF DialogueInv, DialogueShape, RequestsOwned, TurnForms, States
<1>2. pending \in Pending /\ pending.unit = p.unit /\ pending.phone # "another customer's"
  <2> None # "another customer's" BY DialogueConstants DEF Phones
  <2> QED BY <1>1 DEF Pending
<1>3. contact' \in ContactForms
  <2>1. ~conflict => p.phone \in {None, "own"} /\ p.name \in BOOLEAN BY <1>1 DEF Pending, Phones
  <2> QED BY <1>0, <1>1, <2>1 DEF ContactForms
<1> HIDE DEF pending
<1>4. /\ st \in States /\ st.search = turn.st.search /\ st.contexts = turn.st.contexts
      /\ st.results = turn.st.results /\ st.pending = pending
  BY <1>1, <1>2 DEF States, Clarifications
<1> HIDE DEF st
<1>5. /\ t \in TurnForms
      /\ t.st.search = turn.st.search /\ t.st.contexts = turn.st.contexts /\ t.st.results = turn.st.results
      /\ t.st.pending = pending
      /\ t.reserve => ~conflict /\ turn.reserve
  <2>1. CASE conflict BY <1>1, <1>4, <2>1 DEF TurnForms
  <2>2. CASE ~conflict BY <1>1, <2>2 DEF pending
  <2> QED BY <2>1, <2>2
<1>6. t.reserve => t.st.pending # None /\ t.st.pending.phone # None
  <2>1. ASSUME t.reserve PROVE t.st.pending # None /\ t.st.pending.phone # None
    <3>1. t.st.pending = p BY <1>5, <2>1 DEF pending
    <3>2. p # None /\ p.phone # None BY <1>5, <2>1 DEF DialogueInv, RequestsOwned
    <3> QED BY <3>1, <3>2
  <2> QED BY <2>1
<1> HIDE DEF t
<1>7. Onward(turn', t) BY <1>0, <1>5, ContactFollows
<1>8. FreshResults(t.st) BY <1>5 DEF DialogueInv, FreshResults
<1>9. Own(t.st) BY <1>2, <1>5 DEF Own
<1>10. rows' = rows /\ rows \in Seq(Rows) /\ chosen' = chosen /\ chosen \subseteq Units
       /\ saved' = saved /\ active' = active /\ failed' = failed /\ topic' = topic /\ bookings' = bookings
  BY <1>0 DEF history, DialogueInv, DialogueShape
<1>11. BookedAsChosen' BY <1>10 DEF DialogueInv, BookedAsChosen
<1>12. turn.st.pending # None BY <1>0 DEF DialogueInv, RequestsOwned
<1> QED BY <1>0, <1>2, <1>3, <1>5, <1>6, <1>7, <1>8, <1>9, <1>10, <1>11, <1>12, OnwardGoesOn

\* What the invariant says of a turn past its contact step.
LEMMA InTools ==
  ASSUME DialogueInv, turn.step \notin {"idle", "contact"}
  PROVE  /\ turn \in TurnForms /\ turn.st \in States /\ FreshResults(turn.st) /\ Own(turn.st)
         /\ turn.reserve => turn.st.pending # None /\ turn.st.pending.phone # None
         /\ contact \in ContactForms /\ chosen \subseteq Units /\ rows \in Seq(Rows)
BY DEF DialogueInv, DialogueShape, RequestsOwned, TurnForms

\* What a search compares prices with is in EGP.
LEMMA CeilingInEgp ==
  ASSUME NEW s \in Search_, Convertible(s)
  PROVE  Ceiling(s) \in BudgetNumbers \cup {None}
<1> DEFINE converted == s.budget # None /\ s.budget.egp # None
<1>1. CASE converted
  <2>1. s.budget.egp \in Money BY <1>1 DEF Search_, Budget, Worth
  <2>2. Ceiling(s) = [unit |-> "EGP", value |-> s.budget.egp] BY <1>1 DEF Ceiling
  <2> QED BY <2>1, <2>2 DEF BudgetNumbers
<1>2. CASE ~converted /\ s.amount # None
  <2>1. Currency(s) = "EGP" BY <1>2 DEF Convertible
  <2>2. Asked(s) \in Money BY <1>2, <2>1 DEF Asked, Search_, Money, Currencies
  <2>3. Ceiling(s) = [unit |-> Currency(s), value |-> Asked(s)] BY <1>2 DEF Ceiling
  <2> QED BY <2>1, <2>2, <2>3 DEF BudgetNumbers
<1>3. CASE ~converted /\ s.amount = None
  BY <1>3 DEF Ceiling
<1> QED BY <1>1, <1>2, <1>3

LEMMA AnswersAreLists == Answers \subseteq IdLists
<1> SUFFICES ASSUME NEW ids \in Answers PROVE ids \in IdLists OBVIOUS
<1>1. CASE ids = <<>> BY <1>1 DEF IdLists
<1>2. ASSUME NEW u \in Units, ids = <<u>> PROVE ids \in IdLists
  <2>1. ids \in [1..1 -> Units] BY <1>2
  <2> QED BY <2>1 DEF IdLists
<1>3. CASE ids \in Units \X Units
  <2>1. ids \in [1..2 -> Units] BY <1>3
  <2> QED BY <2>1 DEF IdLists
<1> QED BY <1>1, <1>2, <1>3 DEF Answers

LEMMA SearchKeeps ==
  ASSUME DialogueInv, Search
  PROVE  DialogueInv'
<1>1. PICK ids \in Answers :
        /\ turn' = AfterTools([turn EXCEPT !.plan = @ \ {"PROPERTY_SEARCH"},
                      !.query = Ceiling(turn.st.search),
                      !.st = [@ EXCEPT !.results = [ids |-> ids, place |-> turn.st.search.place]]])
        /\ rows' = IF turn.brief = 0 THEN rows
                   ELSE [rows EXCEPT ![turn.brief] =
                           [@ EXCEPT !.status = IF ids = <<>> THEN "NEEDS_MATCH" ELSE "MATCHED"]]
  BY DEF Search
<1>2. turn.step = "tools" /\ Convertible(turn.st.search)
      /\ UNCHANGED <<saved, active, contact, turns, bookings, history>>
  BY DEF Search
<1> DEFINE results == [ids |-> ids, place |-> turn.st.search.place]
           st == [turn.st EXCEPT !.results = results]
           plan == turn.plan \ {"PROPERTY_SEARCH"}
           query == Ceiling(turn.st.search)
           t == [turn EXCEPT !.plan = plan, !.query = query, !.st = st]
           status == IF ids = <<>> THEN "NEEDS_MATCH" ELSE "MATCHED"
           row == [rows[turn.brief] EXCEPT !.status = status]
           written == [rows EXCEPT ![turn.brief] = row]
<1>3. /\ turn \in TurnForms /\ turn.st \in States /\ FreshResults(turn.st) /\ Own(turn.st)
      /\ turn.reserve => turn.st.pending # None /\ turn.st.pending.phone # None
      /\ contact \in ContactForms /\ chosen \subseteq Units /\ rows \in Seq(Rows)
  BY <1>2, InTools
<1>4. turn' = AfterTools(t) /\ rows' = IF turn.brief = 0 THEN rows ELSE written
  BY <1>1
<1>5. results \in Results_
  <2>1. ids \in IdLists BY AnswersAreLists
  <2>2. turn.st.search.place \in Places \cup {None} BY <1>3 DEF States, Search_
  <2> QED BY <2>1, <2>2 DEF Results_, IdLists
<1>6. query \in BudgetNumbers \cup {None}
  <2>1. turn.st.search \in Search_ BY <1>3 DEF States
  <2> QED BY <1>2, <2>1, CeilingInEgp
<1>7. results.place = turn.st.search.place OBVIOUS
<1> HIDE DEF results, query
<1>8. /\ st \in States /\ st.search = turn.st.search /\ st.contexts = turn.st.contexts
      /\ st.results = results /\ st.pending = turn.st.pending
  BY <1>3, <1>5 DEF States
<1> HIDE DEF st
<1>9. plan \in SUBSET ToolNames BY <1>3 DEF TurnForms
<1> HIDE DEF plan
<1>10. t \in TurnForms /\ t.st = st /\ t.reserve = turn.reserve
  BY <1>3, <1>6, <1>8, <1>9 DEF TurnForms
<1> HIDE DEF t
<1>11. Onward(turn', t) BY <1>4, <1>10, ToolsFollow
<1>12. FreshResults(t.st) BY <1>7, <1>8, <1>10 DEF FreshResults
<1>13. Own(t.st) BY <1>3, <1>8, <1>10 DEF Own
<1>14. /\ rows' \in Seq(Rows) /\ Len(rows') = Len(rows) /\ DOMAIN rows' = DOMAIN rows
       /\ \A r \in DOMAIN rows : rows'[r].amount = rows[r].amount /\ rows'[r].currency = rows[r].currency
  <2>1. CASE turn.brief = 0 BY <1>3, <1>4, <2>1
  <2>2. CASE turn.brief # 0
    <3>1. turn.brief \in DOMAIN rows =>
            row \in Rows /\ row.amount = rows[turn.brief].amount /\ row.currency = rows[turn.brief].currency
      <4>1. turn.brief \in DOMAIN rows => rows[turn.brief] \in Rows BY <1>3, ElementOfSeq, LenProperties
      <4> QED BY <4>1 DEF Rows
    <3> HIDE DEF row
    <3>2. /\ written \in Seq(Rows) /\ Len(written) = Len(rows) /\ DOMAIN written = DOMAIN rows
          /\ \A r \in DOMAIN rows : written[r] = IF r = turn.brief THEN row ELSE rows[r]
      BY <1>3, <3>1, RowReplaced
    <3> HIDE DEF written
    <3> QED BY <1>4, <2>2, <3>1, <3>2
  <2> QED BY <2>1, <2>2
<1>15. chosen' = chosen /\ saved' = saved /\ active' = active /\ failed' = failed /\ topic' = topic
       /\ contact' = contact /\ bookings' = bookings
  BY <1>2 DEF history
<1>16. BookedAsChosen' BY <1>15 DEF DialogueInv, BookedAsChosen
<1>17. turn.step # "idle" BY <1>2
<1> QED BY <1>3, <1>8, <1>10, <1>11, <1>12, <1>13, <1>14, <1>15, <1>16, <1>17, OnwardGoesOn

\* A step that may change what is selected, pending or asked back.
LEMMA ToolFailsKeeps ==
  ASSUME DialogueInv, ToolFails
  PROVE  DialogueInv'
<1>1. PICK tool \in turn.plan : turn' = AfterTools([turn EXCEPT !.plan = @ \ {tool}])
  BY DEF ToolFails
<1>2. turn.step = "tools" /\ UNCHANGED <<saved, active, rows, contact, turns, bookings, history>>
  BY DEF ToolFails
<1> DEFINE plan == turn.plan \ {tool}
           t == [turn EXCEPT !.plan = plan]
<1>3. /\ turn \in TurnForms /\ turn.st \in States /\ FreshResults(turn.st) /\ Own(turn.st)
      /\ turn.reserve => turn.st.pending # None /\ turn.st.pending.phone # None
      /\ contact \in ContactForms /\ chosen \subseteq Units /\ rows \in Seq(Rows)
  BY <1>2, InTools
<1>4. turn' = AfterTools(t) BY <1>1
<1>5. plan \in SUBSET ToolNames BY <1>3 DEF TurnForms
<1> HIDE DEF plan
<1>6. t \in TurnForms /\ t.st = turn.st /\ t.reserve = turn.reserve BY <1>3, <1>5 DEF TurnForms
<1> HIDE DEF t
<1>7. Onward(turn', t) BY <1>4, <1>6, ToolsFollow
<1>8. chosen' = chosen /\ saved' = saved /\ active' = active /\ failed' = failed /\ topic' = topic
      /\ contact' = contact /\ bookings' = bookings /\ rows' = rows
  BY <1>2 DEF history
<1>9. BookedAsChosen' BY <1>8 DEF DialogueInv, BookedAsChosen
<1>10. turn.step # "idle" BY <1>2
<1> QED BY <1>3, <1>6, <1>7, <1>8, <1>9, <1>10, OnwardGoesOn

LEMMA LookUpKeeps ==
  ASSUME DialogueInv, LookUp
  PROVE  DialogueInv'
<1>1. turn.step = "tools" /\ UNCHANGED <<saved, active, rows, contact, turns, bookings, topic, failed>>
  BY DEF LookUp
<1>2. /\ turn \in TurnForms /\ turn.st \in States /\ FreshResults(turn.st) /\ Own(turn.st)
      /\ turn.reserve => turn.st.pending # None /\ turn.st.pending.phone # None
      /\ contact \in ContactForms /\ chosen \subseteq Units /\ rows \in Seq(Rows)
  BY <1>1, InTools
<1>3. ASSUME NEW t \in TurnForms, turn' = AfterTools(t), t.reserve = turn.reserve,
             t.st.search = turn.st.search, t.st.contexts = turn.st.contexts,
             t.st.results = turn.st.results, t.st.pending = turn.st.pending,
             chosen \subseteq chosen', chosen' \subseteq Units
      PROVE  DialogueInv'
  <2>1. Onward(turn', t) BY <1>3, ToolsFollow
  <2>2. FreshResults(t.st) BY <1>2, <1>3 DEF FreshResults
  <2>3. Own(t.st) BY <1>2, <1>3 DEF Own
  <2>4. BookedAsChosen' BY <1>1, <1>3 DEF DialogueInv, BookedAsChosen
  <2>5. turn.step # "idle" BY <1>1
  <2> QED BY <1>1, <1>2, <1>3, <2>1, <2>2, <2>3, <2>4, <2>5, OnwardGoesOn
<1>4. ASSUME NEW plan \in SUBSET ToolNames, NEW verified \in BOOLEAN, chosen' = chosen,
             turn' = AfterTools([turn EXCEPT !.plan = plan, !.verified = verified])
      PROVE  DialogueInv'
  <2> DEFINE t == [turn EXCEPT !.plan = plan, !.verified = verified]
  <2>1. t \in TurnForms /\ t.st = turn.st /\ t.reserve = turn.reserve BY <1>2 DEF TurnForms
  <2>2. turn' = AfterTools(t) BY <1>4
  <2> HIDE DEF t
  <2> QED BY <1>2, <1>3, <1>4, <2>1, <2>2
<1>5. ASSUME turn' = AfterTools([turn EXCEPT !.plan = @ \ {"GET_UNIT_FACTS"}, !.code = None,
                                   !.st = [@ EXCEPT !.selected = Kept(turn.code, turn.st.selected)]]),
             chosen' = chosen \cup ({turn.code} \ {None})
      PROVE  DialogueInv'
  <2> DEFINE selected == Kept(turn.code, turn.st.selected)
             st == [turn.st EXCEPT !.selected = selected]
             plan == turn.plan \ {"GET_UNIT_FACTS"}
             t == [turn EXCEPT !.plan = plan, !.code = None, !.st = st]
  <2>1. turn' = AfterTools(t) BY <1>5
  <2>2. turn.code \in Units \cup {None} BY <1>2 DEF TurnForms
  <2>3. selected \in Units \cup {None} BY <1>2, <2>2 DEF Kept, States
  <2> HIDE DEF selected
  <2>4. /\ st \in States /\ st.search = turn.st.search /\ st.contexts = turn.st.contexts
        /\ st.results = turn.st.results /\ st.pending = turn.st.pending
    BY <1>2, <2>3 DEF States
  <2> HIDE DEF st
  <2>5. t \in TurnForms /\ t.st = st /\ t.reserve = turn.reserve BY <1>2, <2>4 DEF TurnForms
  <2> HIDE DEF t
  <2>6. chosen \subseteq chosen' /\ chosen' \subseteq Units BY <1>2, <1>5, <2>2
  <2> QED BY <1>3, <2>1, <2>4, <2>5, <2>6
<1>6. ASSUME turn' = AfterTools([turn EXCEPT !.plan = @ \ {"COMPARE_PROPERTIES"}]), chosen' = chosen
      PROVE  DialogueInv'
  <2> DEFINE plan == turn.plan \ {"COMPARE_PROPERTIES"}
             t == [turn EXCEPT !.plan = plan]
  <2>1. turn' = AfterTools(t) BY <1>6
  <2>2. t \in TurnForms /\ t.st = turn.st /\ t.reserve = turn.reserve BY <1>2 DEF TurnForms
  <2> HIDE DEF t
  <2> QED BY <1>2, <1>3, <1>6, <2>1, <2>2
<1>7. ASSUME NEW plans \in BOOLEAN,
             turn' = AfterTools([turn EXCEPT !.plan = @ \ {"GET_PAYMENT_PLAN"}, !.verified = plans]),
             chosen' = chosen
      PROVE  DialogueInv'
  <2>1. turn.plan \ {"GET_PAYMENT_PLAN"} \in SUBSET ToolNames BY <1>2 DEF TurnForms
  <2> QED BY <1>4, <1>7, <2>1
<1> QED BY <1>5, <1>6, <1>7 DEF LookUp

LEMMA StateSwapped ==
  ASSUME NEW t \in TurnForms, NEW next, Onward(next, t), NEW st \in States
  PROVE  /\ [t EXCEPT !.st = st] \in TurnForms /\ [t EXCEPT !.st = st].st = st
         /\ [t EXCEPT !.st = st].reserve = t.reserve
         /\ Onward([next EXCEPT !.st = st], [t EXCEPT !.st = st])
<1> DEFINE a == [t EXCEPT !.st = st]  b == [next EXCEPT !.st = st]
<1>1. next \in TurnForms BY DEF Onward
<1>2. /\ a \in TurnForms /\ a.st = st /\ a.req = t.req /\ a.brief = t.brief /\ a.reserve = t.reserve
      /\ a.query = t.query
  BY DEF TurnForms
<1>3. /\ b \in TurnForms /\ b.st = st /\ b.req = next.req /\ b.brief = next.brief /\ b.reserve = next.reserve
      /\ b.query = next.query /\ b.step = next.step
  BY <1>1 DEF TurnForms
<1> HIDE DEF a, b
<1>4. Onward(b, a) BY <1>2, <1>3 DEF Onward
<1> QED BY <1>2, <1>4 DEF a, b

LEMMA ReserveKeeps ==
  ASSUME DialogueInv, Reserve
  PROVE  DialogueInv'
<1> DEFINE p == turn.st.pending
           t == [turn EXCEPT !.reserve = FALSE]
           done == AfterTools(t)
<1>1. turn.step = "reserve" /\ UNCHANGED <<saved, active, rows, contact, turns, history>>
  BY DEF Reserve
<1>2. /\ turn \in TurnForms /\ turn.st \in States /\ FreshResults(turn.st) /\ Own(turn.st)
      /\ turn.reserve => turn.st.pending # None /\ turn.st.pending.phone # None
      /\ contact \in ContactForms /\ chosen \subseteq Units /\ rows \in Seq(Rows)
  BY <1>1, InTools
<1>3. p \in Pending /\ p.phone = "own" /\ p.unit \in chosen /\ p # None
  <2>1. turn.reserve BY <1>1 DEF DialogueInv, RequestsOwned
  <2>2. p # None /\ p.phone # None /\ p \in Pending \cup {None} BY <1>2, <2>1 DEF States
  <2>3. p.phone # "another customer's" BY <1>2, <2>2 DEF Own
  <2>4. p.unit \in chosen BY <2>2 DEF DialogueInv, RequestsOwned, Pointed
  <2> QED BY <2>2, <2>3, <2>4 DEF Pending, Phones
<1>4. t \in TurnForms /\ t.reserve = FALSE /\ t.st = turn.st BY <1>2 DEF TurnForms
<1> HIDE DEF t
<1>5. Onward(done, t) /\ done.st = turn.st BY <1>4, ToolsFollow DEF Onward
<1> HIDE DEF done
<1>6. ASSUME NEW st \in States, turn' = [done EXCEPT !.st = st],
             st.search = turn.st.search, st.contexts = turn.st.contexts, st.results = turn.st.results,
             st.pending \in {None, p}, BookedAsChosen'
      PROVE  DialogueInv'
  <2> DEFINE x == [t EXCEPT !.st = st]
  <2>1. x \in TurnForms /\ x.st = st /\ x.reserve = FALSE /\ Onward(turn', x)
    BY <1>4, <1>5, <1>6, StateSwapped
  <2> HIDE DEF x
  <2>2. FreshResults(x.st) BY <1>2, <1>6, <2>1 DEF FreshResults
  <2>3. Own(x.st) BY <1>2, <1>3, <1>6, <2>1 DEF Own
  <2>4. /\ saved' = saved /\ active' = active /\ rows' = rows /\ contact' = contact
        /\ topic' = topic /\ chosen' = chosen /\ failed' = failed
    BY <1>1 DEF history
  <2>5. x.st.pending # None => turn.st.pending # None /\ x.st.pending.unit = turn.st.pending.unit
    BY <1>3, <1>6, <2>1
  <2>6. turn.step # "idle" BY <1>1
  <2>7. ~x.reserve BY <2>1
  <2> QED BY <1>2, <1>6, <2>1, <2>2, <2>3, <2>4, <2>5, <2>6, <2>7, OnwardGoesOn
<1>7. CASE turn.verified
  <2>1. PICK committed \in BOOLEAN, reported \in BOOLEAN :
          /\ bookings' = bookings \cup (IF committed THEN {[unit |-> p.unit, phone |-> p.phone]} ELSE {})
          /\ turn' = [done EXCEPT !.st = [@ EXCEPT !.pending = IF reported THEN None ELSE p]]
    BY <1>7 DEF Reserve, done, t
  <2> DEFINE pending == IF reported THEN None ELSE p
             st == [turn.st EXCEPT !.pending = pending]
  <2>2. turn' = [done EXCEPT !.st = st] BY <1>5, <2>1
  <2>3. pending \in {None, p} /\ pending \in Pending \cup {None} BY <1>3
  <2> HIDE DEF pending
  <2>4. /\ st \in States /\ st.search = turn.st.search /\ st.contexts = turn.st.contexts
        /\ st.results = turn.st.results /\ st.pending = pending
    BY <1>2, <2>3 DEF States
  <2> HIDE DEF st
  <2>5. BookedAsChosen'
    <3>1. BookedAsChosen /\ chosen' = chosen BY <1>1 DEF DialogueInv, history
    <3>2. ASSUME NEW b \in bookings' PROVE b.unit \in chosen /\ b.phone = "own"
      <4>1. CASE b \in bookings BY <3>1, <4>1 DEF BookedAsChosen
      <4>2. CASE b = [unit |-> p.unit, phone |-> p.phone] BY <1>3, <4>2
      <4> QED BY <2>1, <4>1, <4>2
    <3> QED BY <3>1, <3>2 DEF BookedAsChosen
  <2> QED BY <1>6, <2>2, <2>3, <2>4, <2>5
<1>8. CASE ~turn.verified
  <2> DEFINE st == [turn.st EXCEPT !.clarify = "RESERVATION_PAYMENT_PLAN_UNAVAILABLE"]
  <2>1. turn' = [done EXCEPT !.st = [@ EXCEPT !.clarify = "RESERVATION_PAYMENT_PLAN_UNAVAILABLE"]]
        /\ bookings' = bookings
    BY <1>8 DEF Reserve, done, t
  <2>2. turn' = [done EXCEPT !.st = st] BY <1>5, <2>1
  <2>3. /\ st \in States /\ st.search = turn.st.search /\ st.contexts = turn.st.contexts
        /\ st.results = turn.st.results /\ st.pending = p
    BY <1>2 DEF States, Clarifications
  <2> HIDE DEF st
  <2>4. BookedAsChosen'
    <3>1. chosen' = chosen BY <1>1 DEF history
    <3> QED BY <2>1, <3>1 DEF DialogueInv, BookedAsChosen
  <2> QED BY <1>6, <2>2, <2>3, <2>4
<1> QED BY <1>7, <1>8

\* What a saved brief makes of the row of its requirement.
LEMMA RequirementRowed ==
  ASSUME NEW st \in States, NEW old \in Rows
  PROVE  LET row == RequirementRow(st, old) IN
         /\ row \in Rows
         /\ (/\ Bare(st.search) /\ Described(st.search)
             /\ old.amount # None => old.currency # None)
            => Explains(st.search.constraint, row)
<1> DEFINE s == st.search
           amount == Kept(s.amount, old.amount)
           currency == Kept(s.currency, old.currency)
           original == IF s.budget = None THEN old.original ELSE s.budget.of
           egp == IF s.budget = None THEN old.egp ELSE Kept(s.budget.egp, old.egp)
           selected == Kept(st.selected, old.selected)
           row == RequirementRow(st, old)
<1>1. row = [place |-> s.place, amount |-> amount, currency |-> currency, original |-> original,
             egp |-> egp, selected |-> selected, compared |-> st.compared,
             results |-> st.results, status |-> "OPEN"]
  BY DEF RequirementRow
<1>2. s \in Search_ /\ s.budget \in Budget \cup {None} BY DEF States, Search_
<1>3. amount \in Amounts \cup {None} /\ currency \in Currencies \cup {None} /\ selected \in Units \cup {None}
  BY <1>2 DEF Kept, Search_, Rows, States
<1>4. original \in Worth /\ egp \in Worth
  BY <1>2 DEF Kept, Rows, Budget, Worth
<1>5. ASSUME Bare(s), Described(s), old.amount # None => old.currency # None
      PROVE  /\ s.constraint # None => amount # None /\ s.constraint.of = Asked([amount |-> amount, currency |-> currency])
             /\ amount # None => currency # None
  <2>1. CASE s.amount # None
    <3>1. amount = s.amount /\ currency = s.currency BY <1>5, <2>1 DEF Kept, Described
    <3> QED BY <1>5, <2>1, <3>1 DEF Described, Asked, Currency
  <2>2. CASE s.amount = None
    BY <1>5, <2>2 DEF Kept, Bare
  <2> QED BY <2>1, <2>2
<1> HIDE DEF amount, currency, original, egp, selected
<1>6. row \in Rows BY <1>1, <1>2, <1>3, <1>4 DEF Rows, Search_, States
<1>7. row.amount = amount /\ row.currency = currency BY <1>1
<1> HIDE DEF row
<1>8. Asked(row) = Asked([amount |-> amount, currency |-> currency])
  BY <1>7 DEF Asked, Currency
<1>9. Bare(s) /\ Described(s) /\ (old.amount # None => old.currency # None) => Explains(s.constraint, row)
  BY <1>5, <1>7, <1>8 DEF Explains
<1> QED BY <1>6, <1>9 DEF row

LEMMA SaveBriefKeeps ==
  ASSUME DialogueInv, SaveBrief
  PROVE  DialogueInv'
<1> DEFINE creates == active = 0 \/ turn.fresh
           id == IF creates THEN Len(rows) + 1 ELSE active
           old == IF creates THEN NoRow ELSE rows[id]
           row == RequirementRow(turn.st, old)
           k == turn.st.search.constraint
           contexts == [turn.st.contexts EXCEPT ![id] = k]
           st == [turn.st EXCEPT !.contexts = contexts]
           t == [turn EXCEPT !.brief = id, !.req = id, !.st = st]
<1>1. /\ turn.step = "brief" /\ id <= MaxRequirements
      /\ rows' = IF creates THEN Append(rows, row) ELSE [rows EXCEPT ![id] = row]
      /\ active' = id
      /\ turn' = AfterBrief(t)
      /\ topic' = IF creates THEN id ELSE topic
      /\ UNCHANGED <<saved, contact, turns, bookings, chosen, failed>>
  <2>1. turn.step = "brief" /\ id <= MaxRequirements /\ active' = id /\ topic' = (IF creates THEN id ELSE topic)
        /\ UNCHANGED <<saved, contact, turns, bookings, chosen, failed>>
    BY DEF SaveBrief
  <2>2. turn' = AfterBrief(t) BY DEF SaveBrief
  <2>3. rows' = IF creates THEN Append(rows, row) ELSE [rows EXCEPT ![id] = row]
    BY DEF SaveBrief
  <2> QED BY <2>1, <2>2, <2>3
<1>2. /\ turn \in TurnForms /\ turn.st \in States /\ FreshResults(turn.st) /\ Own(turn.st)
      /\ turn.reserve => turn.st.pending # None /\ turn.st.pending.phone # None
      /\ contact \in ContactForms /\ chosen \subseteq Units /\ rows \in Seq(Rows)
  BY <1>1, InTools
<1>3. Len(rows) \in Nat /\ DOMAIN rows = 1..Len(rows) /\ \A r \in 1..Len(rows) : rows[r] \in Rows
  BY <1>2, LenProperties, ElementOfSeq
<1>4. active \in 0..Len(rows) /\ Len(rows) <= MaxRequirements /\ MaxRequirements \in Nat
  BY DialogueConstants DEF DialogueInv, DialogueShape
<1>5. id \in 1..MaxRequirements /\ (~creates => id \in 1..Len(rows)) BY <1>1, <1>3, <1>4
<1>6. NoRow \in Rows
  <2> NoResults \in Results_ BY DEF NoResults, Results_
  <2> QED BY DEF NoRow, Rows, Worth
<1>7. old \in Rows BY <1>3, <1>5, <1>6
<1>8. ~failed => (old.amount # None => old.currency # None)
  <2>1. CASE creates BY <2>1 DEF NoRow
  <2>2. CASE ~creates
    <3>1. ~failed => Explains(turn.st.contexts[id], rows[id])
      BY <1>1, <1>3, <1>5, <2>2 DEF DialogueInv, BudgetsAlike, RowsExplained
    <3> QED BY <2>2, <3>1 DEF Explains
  <2> QED BY <2>1, <2>2
<1> HIDE DEF old
<1>9. row \in Rows /\ (~failed => Explains(k, row))
  <2>1. ~failed => Bare(turn.st.search) /\ Described(turn.st.search) BY DEF DialogueInv, BudgetsAlike
  <2> QED BY <1>2, <1>7, <1>8, <2>1, RequirementRowed
<1> HIDE DEF row
<1>10. /\ rows' \in Seq(Rows) /\ Len(rows') <= MaxRequirements /\ id \in 0..Len(rows')
       /\ DOMAIN rows' = 1..Len(rows')
       /\ \A r \in 1..Len(rows') : \/ r = id /\ rows'[r] = row
                                   \/ r # id /\ r \in DOMAIN rows /\ rows'[r] = rows[r]
  <2>1. CASE creates
    <3>1. rows' = Append(rows, row) /\ id = Len(rows) + 1 BY <1>1, <2>1
    <3>2. /\ rows' \in Seq(Rows) /\ Len(rows') = Len(rows) + 1
          /\ \A r \in 1..Len(rows) : rows'[r] = rows[r]
          /\ rows'[Len(rows) + 1] = row
      BY <1>2, <1>9, <3>1, AppendProperties
    <3>3. DOMAIN rows' = 1..Len(rows') BY <3>2, LenProperties
    <3>4. id <= MaxRequirements BY <1>1
    <3> HIDE DEF id
    <3>5. Len(rows') <= MaxRequirements /\ id \in 0..Len(rows') BY <1>3, <3>1, <3>2, <3>4
    <3>6. ASSUME NEW r \in 1..Len(rows')
          PROVE  \/ r = id /\ rows'[r] = row
                 \/ r # id /\ r \in DOMAIN rows /\ rows'[r] = rows[r]
      <4>1. r = Len(rows) + 1 \/ r \in 1..Len(rows) BY <1>3, <3>2
      <4> QED BY <1>3, <3>1, <3>2, <4>1
    <3> QED BY <3>2, <3>3, <3>5, <3>6
  <2>2. CASE ~creates
    <3> DEFINE n == [rows EXCEPT ![id] = row]
    <3>1. rows' = n BY <1>1, <2>2
    <3>2. id \in 1..Len(rows) BY <1>5, <2>2
    <3> HIDE DEF id
    <3>3. /\ n \in Seq(Rows) /\ Len(n) = Len(rows) /\ DOMAIN n = DOMAIN rows
          /\ \A r \in DOMAIN rows : n[r] = IF r = id THEN row ELSE rows[r]
      BY <1>2, <1>9, RowReplaced
    <3> HIDE DEF n
    <3> QED BY <1>3, <1>4, <3>1, <3>2, <3>3
  <2> QED BY <2>1, <2>2
<1>11. k \in Constraint \cup {None} /\ turn.st.contexts \in Contexts
  BY <1>2 DEF States, Search_
<1>12. contexts \in Contexts /\ contexts[id] = k
       /\ \A r \in 1..MaxRequirements : r # id => contexts[r] = turn.st.contexts[r]
  <2> HIDE DEF id, k
  <2> QED BY <1>5, <1>11 DEF Contexts
<1> HIDE DEF contexts
<1>13. /\ st \in States /\ st.search = turn.st.search /\ st.contexts = contexts
       /\ st.results = turn.st.results /\ st.pending = turn.st.pending
  BY <1>2, <1>12 DEF States
<1>14. id \in 0..MaxRequirements BY <1>5
<1> HIDE DEF st, id
<1>15. t \in TurnForms /\ t.st = st /\ t.reserve = turn.reserve
  BY <1>2, <1>13, <1>14 DEF TurnForms
<1> HIDE DEF t
<1>16. Onward(turn', t) BY <1>1, <1>15, BriefFollows
<1>17. /\ turn' \in TurnForms /\ turn'.st = st /\ turn'.reserve = turn.reserve
       /\ turn'.step \notin {"idle", "contact"} /\ (turn'.step = "reserve" => turn'.reserve)
  BY <1>15, <1>16 DEF Onward
<1>18. ASSUME ~failed PROVE Bare(turn'.st.search) /\ Described(turn'.st.search) /\ RowsExplained(turn.st)'
  <2>1. Bare(turn.st.search) /\ Described(turn.st.search) /\ RowsExplained(turn.st)
    BY <1>1, <1>18 DEF DialogueInv, BudgetsAlike
  <2>2. ASSUME NEW r \in DOMAIN rows' PROVE Explains(turn'.st.contexts[r], rows'[r])
    <3>1. CASE r = id BY <1>9, <1>10, <1>12, <1>13, <1>17, <1>18, <2>2, <3>1
    <3>2. CASE r # id
      <4>1. r \in DOMAIN rows /\ rows'[r] = rows[r] BY <1>10, <2>2, <3>2
      <4>2. r \in 1..MaxRequirements BY <1>3, <1>4, <4>1
      <4>3. turn'.st.contexts[r] = turn.st.contexts[r] BY <1>12, <1>13, <1>17, <3>2, <4>2
      <4> QED BY <2>1, <4>1, <4>3 DEF RowsExplained
    <3> QED BY <3>1, <3>2
  <2>3. RowsExplained(turn.st)' BY <2>2 DEF RowsExplained
  <2> QED BY <1>13, <1>17, <2>1, <2>3
<1>19. FreshResults(turn.st)' BY <1>2, <1>13, <1>17 DEF FreshResults
<1>20. Pointed(turn.st)'
  <2>1. turn.st.pending # None => turn.st.pending.unit \in chosen BY DEF DialogueInv, RequestsOwned, Pointed
  <2> QED BY <1>1, <1>13, <1>17, <2>1 DEF Pointed
<1>21. Own(turn.st)' BY <1>2, <1>13, <1>17 DEF Own
<1>22. BookedAsChosen' BY <1>1 DEF DialogueInv, BookedAsChosen
<1>23. topic' \in Nat BY <1>1, <1>14 DEF DialogueInv, DialogueShape
<1>24. turn'.reserve => turn'.st.pending # None /\ turn'.st.pending.phone # None BY <1>2, <1>13, <1>17
<1>25. active' \in 0..Len(rows') BY <1>1, <1>10
<1> QED BY <1>1, <1>2, <1>10, <1>17, <1>18, <1>19, <1>20, <1>21, <1>22, <1>23, <1>24, <1>25, TurnGoesOn

LEMMA ContextKeeps ==
  ASSUME DialogueInv, UpdateRequirementContext
  PROVE  DialogueInv'
<1> DEFINE row == [rows[turn.req] EXCEPT !.results = turn.st.results, !.selected = turn.st.selected,
                                         !.compared = turn.st.compared]
           n == [rows EXCEPT ![turn.req] = row]
           t == [turn EXCEPT !.step = "persist"]
<1>1. turn.step = "context" /\ turn' = t /\ rows' = n
      /\ UNCHANGED <<saved, active, contact, turns, bookings, history>>
  BY DEF UpdateRequirementContext
<1>2. /\ turn \in TurnForms /\ turn.st \in States /\ FreshResults(turn.st) /\ Own(turn.st)
      /\ turn.reserve => turn.st.pending # None /\ turn.st.pending.phone # None
      /\ contact \in ContactForms /\ chosen \subseteq Units /\ rows \in Seq(Rows)
  BY <1>1, InTools
<1>3. turn.req \in DOMAIN rows =>
        row \in Rows /\ row.amount = rows[turn.req].amount /\ row.currency = rows[turn.req].currency
  <2>1. turn.req \in DOMAIN rows => rows[turn.req] \in Rows BY <1>2, ElementOfSeq, LenProperties
  <2> QED BY <1>2, <2>1 DEF Rows, States
<1> HIDE DEF row
<1>4. /\ n \in Seq(Rows) /\ Len(n) = Len(rows) /\ DOMAIN n = DOMAIN rows
      /\ \A r \in DOMAIN rows : n[r] = IF r = turn.req THEN row ELSE rows[r]
  BY <1>2, <1>3, RowReplaced
<1> HIDE DEF n
<1>5. \A r \in DOMAIN rows : rows'[r].amount = rows[r].amount /\ rows'[r].currency = rows[r].currency
  BY <1>1, <1>3, <1>4
<1>6. Onward(t, turn) BY <1>2 DEF Onward, TurnForms, Steps
<1>7. Onward(turn', turn) BY <1>1, <1>6
<1>8. /\ saved' = saved /\ active' = active /\ contact' = contact /\ bookings' = bookings
      /\ topic' = topic /\ chosen' = chosen /\ failed' = failed
  BY <1>1 DEF history
<1>9. BookedAsChosen' BY <1>8 DEF DialogueInv, BookedAsChosen
<1>10. turn.step # "idle" BY <1>1
<1> QED BY <1>1, <1>2, <1>4, <1>5, <1>7, <1>8, <1>9, <1>10, OnwardGoesOn

LEMMA NothingBegun ==
  /\ NoTurn.step = "idle" /\ NoTurn.st = InitialState /\ ~NoTurn.reserve
  /\ FreshResults(InitialState) /\ Bare(InitialState.search) /\ Described(InitialState.search)
  /\ InitialState.pending = None
BY DEF NoTurn, InitialState, NoSearch, NoResults, FreshResults, Bare, Described

\* What is left when the turn has ended.
LEMMA TurnEnds ==
  ASSUME DialogueInv, turn' = NoTurn, failed' \in BOOLEAN,
         UNCHANGED <<active, rows, contact, bookings, topic, chosen>>,
         saved' \in States, FreshResults(saved)', Pointed(saved)', Own(saved)',
         ~failed' => Bare(saved'.search) /\ Described(saved'.search) /\ RowsExplained(saved)'
  PROVE  DialogueInv'
<1>1. DialogueShape' BY InitialShapes DEF DialogueInv, DialogueShape
<1>2. turn'.step = "idle" /\ turn'.st = InitialState /\ ~turn'.reserve BY NothingBegun
<1>3. FreshResults(turn.st)' BY <1>2, NothingBegun DEF FreshResults
<1>4. ASSUME ~failed' PROVE BudgetsAlike'
  <2>1. Bare(turn.st.search)' /\ Described(turn.st.search)'
    BY <1>2, NothingBegun DEF Bare, Described, Asked, Currency
  <2>2. Bare(saved.search)' /\ Described(saved.search)' BY <1>4 DEF Bare, Described, Asked, Currency
  <2> QED BY <1>2, <1>4, <2>1, <2>2 DEF BudgetsAlike
<1>5. turn'.st.pending = None BY <1>2, NothingBegun
<1>6. Pointed(turn.st)' /\ Own(turn.st)' BY <1>5 DEF Pointed, Own
<1>7. RequestsOwned' BY <1>2, <1>6 DEF RequestsOwned
<1>8. BookedAsChosen' BY DEF DialogueInv, BookedAsChosen
<1> QED BY <1>1, <1>3, <1>4, <1>7, <1>8 DEF DialogueInv

LEMMA PersistKeeps ==
  ASSUME DialogueInv, Persist
  PROVE  DialogueInv'
<1>1. turn.step = "persist" /\ saved' = turn.st /\ turn' = NoTurn
      /\ UNCHANGED <<active, rows, contact, turns, bookings, topic, chosen, failed>>
  BY DEF Persist, history
<1>2. /\ turn.st \in States /\ FreshResults(turn.st) /\ Own(turn.st) BY <1>1, InTools
<1>3. Pointed(turn.st) BY DEF DialogueInv, RequestsOwned
<1>4. ~failed => Bare(turn.st.search) /\ Described(turn.st.search) /\ RowsExplained(turn.st)
  BY <1>1 DEF DialogueInv, BudgetsAlike
<1>5. FreshResults(saved)' /\ Own(saved)' /\ Pointed(saved)' BY <1>1, <1>2, <1>3 DEF FreshResults, Own, Pointed
<1>6. ~failed' => Bare(saved'.search) /\ Described(saved'.search) /\ RowsExplained(saved)'
  BY <1>1, <1>4 DEF RowsExplained
<1>7. failed' \in BOOLEAN BY <1>1 DEF DialogueInv, DialogueShape
<1> QED BY <1>1, <1>2, <1>5, <1>6, <1>7, TurnEnds

LEMMA ThrowKeeps ==
  ASSUME DialogueInv, Throw
  PROVE  DialogueInv'
<1>1. turn' = NoTurn /\ failed' = TRUE
      /\ UNCHANGED <<saved, active, rows, contact, turns, bookings, topic, chosen>>
  BY DEF Throw
<1>2. saved' \in States BY <1>1 DEF DialogueInv, DialogueShape
<1>3. FreshResults(saved)' BY <1>1 DEF DialogueInv, FreshResults
<1>4. Pointed(saved)' /\ Own(saved)' BY <1>1 DEF DialogueInv, RequestsOwned, Pointed, Own
<1> QED BY <1>1, <1>2, <1>3, <1>4, TurnEnds

LEMMA DialogueBegins == Init => DialogueInv
<1> SUFFICES ASSUME Init PROVE DialogueInv OBVIOUS
<1> USE DEF Init
<1>1. rows \in Seq(Rows) /\ Len(rows) = 0 /\ DOMAIN rows = {} OBVIOUS
<1>2. DialogueShape
  <2>1. contact \in ContactForms BY DEF ContactForms
  <2>2. saved \in States /\ turn \in TurnForms /\ turn = NoTurn BY InitialShapes
  <2>3. Len(rows) <= MaxRequirements /\ active \in 0..Len(rows) BY <1>1, DialogueConstants
  <2>4. chosen \subseteq Units /\ topic \in Nat /\ failed \in BOOLEAN OBVIOUS
  <2> QED BY <1>1, <2>1, <2>2, <2>3, <2>4 DEF DialogueShape
<1>3. FreshResults(saved) /\ FreshResults(turn.st) BY NothingBegun
<1>4. BudgetsAlike BY <1>1, NothingBegun DEF BudgetsAlike, RowsExplained
<1>5. RequestsOwned BY NothingBegun DEF RequestsOwned, Pointed, Own
<1>6. BookedAsChosen BY DEF BookedAsChosen
<1> QED BY <1>2, <1>3, <1>4, <1>5, <1>6 DEF DialogueInv

LEMMA DialogueContinues == DialogueInv /\ [Next]_dvars => DialogueInv'
<1> SUFFICES ASSUME DialogueInv, [Next]_dvars PROVE DialogueInv' OBVIOUS
<1>1. ASSUME NEW m \in Messages, NEW rate \in BOOLEAN, Understand(m, rate) PROVE DialogueInv'
  BY <1>1, UnderstandKeeps
<1>2. CASE UNCHANGED dvars
  BY <1>2 DEF dvars, history, DialogueInv, DialogueShape, FreshResults, BudgetsAlike, Bare, Described, Asked, Currency,
              RowsExplained, RequestsOwned, Pointed, Own, BookedAsChosen
<1> QED BY <1>1, <1>2, SaveContactKeeps, SaveBriefKeeps, SearchKeeps, ToolFailsKeeps, LookUpKeeps,
           ReserveKeeps, ContextKeeps, PersistKeeps, ThrowKeeps DEF Next

-----------------------------------------------------------------------------
(* Theorems *)

\* The state of a conversation, its turns, its requirements and its requests keep the
\* inductive invariant, whatever the customer says, the tools answer and wherever a turn
\* fails (NadimV2Service.turn).
THEOREM DialogueInvariant == Spec => []DialogueInv
BY DialogueBegins, DialogueContinues, PTL DEF Spec

\* The stored and the running state have the shape NadimStateSchema prescribes, and a turn
\* works on a requirement that exists.
THEOREM DialogueTyped == Spec => []TypeOK
<1>1. DialogueInv => TypeOK
  <2> SUFFICES ASSUME DialogueInv PROVE TypeOK OBVIOUS
  <2>1. saved \in States /\ turn \in TurnForms /\ turn.st \in States
    BY DEF DialogueInv, DialogueShape, TurnForms
  <2>2. rows \in Seq(Rows) /\ Len(rows) <= MaxRequirements /\ active \in 0..Len(rows)
    BY DEF DialogueInv, DialogueShape
  <2>3. \A r \in DOMAIN rows : rows[r] \in Rows BY <2>2, ElementOfSeq, LenProperties
  <2> QED BY <2>1, <2>2, <2>3 DEF TypeOK, States, TurnForms, Steps, Rows
<1> QED BY <1>1, DialogueInvariant, PTL

\* The results an ordinal points into were found for the search next to them, after any
\* number of turns (StateEngineService.apply, withResults).
THEOREM ResultsStayCurrent == Spec => []ResultsAreCurrent
<1>1. DialogueInv => ResultsAreCurrent BY DEF DialogueInv, FreshResults, ResultsAreCurrent
<1> QED BY <1>1, DialogueInvariant, PTL

\* The budget the customer means, the one that is spoken of and the one searched are the
\* same, and no EGP price is compared with another currency (searchIntent,
\* syncBudgetConstraint, normalizeBudget).
THEOREM BudgetStaysSound == Spec => []BudgetSound
<1>1. DialogueInv => EgpOnly
  <2> SUFFICES ASSUME DialogueInv PROVE EgpOnly OBVIOUS
  <2>1. turn.query \in BudgetNumbers \cup {None} BY DEF DialogueInv, DialogueShape, TurnForms
  <2> QED BY <2>1 DEF EgpOnly, BudgetNumbers
<1>2. DialogueInv => BudgetDescribed
  BY DEF DialogueInv, BudgetsAlike, Described, BudgetDescribed
<1> QED BY <1>1, <1>2, DialogueInvariant, PTL DEF BudgetSound

\* A reservation is for a unit the customer pointed at, under no other customer's phone
\* (reservationTransition, saveCustomerContact).
THEOREM ReservationsAsChosen == Spec => []BookedAsChosen
<1>1. DialogueInv => BookedAsChosen BY DEF DialogueInv
<1> QED BY <1>1, DialogueInvariant, PTL

-----------------------------------------------------------------------------
(* TurnUnderstanding *)

\* Every set of naturals has a least element: induction, for the recursive functions below.
LEMMA LeastNatural ==
  ASSUME NEW T \in SUBSET Nat, T # {}
  PROVE  \E n \in T : \A m \in T : n <= m
<1>1. IsWellFoundedOn({ss \in Nat \X Nat : ss[1] < ss[2]}, Nat)
  BY NatLessThanWellFounded DEF OpToRel
<1>2. PICK n \in T : \A m \in T : <<m, n>> \notin {ss \in Nat \X Nat : ss[1] < ss[2]}
  BY <1>1, WFMin
<1>3. ASSUME NEW m \in T, m < n
      PROVE  FALSE
  <2>1. <<m, n>> \in Nat \X Nat
    OBVIOUS
  <2>2. <<m, n>>[1] < <<m, n>>[2]
    BY <1>3
  <2>. QED  BY <1>2, <2>1, <2>2
<1>. QED  BY <1>3

LEMMA UpTo ==
  ASSUME NEW N \in Nat, NEW T, 0 \in T, \A k \in 1..N : k - 1 \in T => k \in T
  PROVE  \A k \in 0..N : k \in T
<1> DEFINE Missed == {k \in 0..N : k \notin T}
<1> SUFFICES ASSUME Missed # {}
             PROVE  FALSE
  OBVIOUS
<1>0. Missed \in SUBSET Nat
  OBVIOUS
<1>1. PICK n \in Missed : \A m \in Missed : n <= m
  <2> HIDE DEF Missed
  <2>. QED  BY <1>0, LeastNatural
<1>2. n \in 1..N /\ n - 1 \in 0..N
  BY <1>1
<1>3. n - 1 \in T
  <2>1. ~ (n <= n - 1)
    BY <1>2
  <2>. QED  BY <1>1, <1>2, <2>1
<1>. QED  BY <1>1, <1>2, <1>3

SearchParts == {"amount", "place"}
Operations == Sets \cup {ResetSearch}

\* What a search is after each of the operations of a turn.
After(f, sought, ops, N) ==
  f = [k \in 0..N |-> IF k = 0 THEN sought ELSE ApplyOne(f[k - 1], ops[k])]

LEMMA AfterExists ==
  ASSUME NEW sought, NEW ops, NEW N \in Nat
  PROVE  \E f : After(f, sought, ops, N)
<1> DEFINE T == {n \in 0..N : \E f : After(f, sought, ops, n)}
<1>1. 0 \in T
  <2>1. PICK f : f = [k \in 0..0 |-> sought]
    OBVIOUS
  <2>2. After(f, sought, ops, 0)
    BY <2>1 DEF After
  <2>. QED  BY <2>2
<1>2. ASSUME NEW n \in 1..N, n - 1 \in T
      PROVE  n \in T
  <2>1. PICK g : After(g, sought, ops, n - 1)
    BY <1>2
  <2>2. PICK f : f = [k \in 0..n |-> IF k = n THEN ApplyOne(g[n - 1], ops[n]) ELSE g[k]]
    OBVIOUS
  <2>3. \A k \in 0..(n - 1) : f[k] = g[k]
    BY <2>2
  <2>4. \A k \in 0..(n - 1) : g[k] = IF k = 0 THEN sought ELSE ApplyOne(g[k - 1], ops[k])
    BY <2>1 DEF After
  <2>5. \A k \in 0..n : f[k] = IF k = 0 THEN sought ELSE ApplyOne(f[k - 1], ops[k])
    <3> SUFFICES ASSUME NEW k \in 0..n
                 PROVE  f[k] = IF k = 0 THEN sought ELSE ApplyOne(f[k - 1], ops[k])
      OBVIOUS
    <3>1. CASE k = n
      BY <3>1, <2>2, <2>3
    <3>2. CASE k # n
      <4>1. k \in 0..(n - 1) /\ (k # 0 => k - 1 \in 0..(n - 1))
        BY <3>2
      <4>. QED  BY <4>1, <2>3, <2>4
    <3>. QED  BY <3>1, <3>2
  <2>6. f = [k \in 0..n |-> f[k]]
    BY <2>2
  <2>7. After(f, sought, ops, n)
    BY <2>5, <2>6 DEF After
  <2>. QED  BY <2>7
<1>3. \A k \in 0..N : k \in T
  <2> HIDE DEF T
  <2>. QED  BY <1>1, <1>2, UpTo
<1>. QED  BY <1>3

\* The last operation of a turn is the last word: it stands in the search.
LEMMA LastStands ==
  ASSUME NEW sought, DOMAIN sought = SearchParts, NEW ops \in Seq(Operations), Len(ops) > 0,
         ops[Len(ops)].op = "SET", NEW intent, intent \notin PassiveIntents
  PROVE  ApplyAll(sought, intent, ops)[ops[Len(ops)].field] = ops[Len(ops)].value
<1> DEFINE N == Len(ops)
           o == ops[N]
<1>1. N \in Nat /\ N > 0 /\ o \in Operations /\ o.op = "SET" /\ o.field \in SearchParts
  BY DEF Operations, Sets, SetTo, ResetSearch, SearchParts
<1>2. PICK f : /\ f = CHOOSE g : After(g, sought, ops, N)
               /\ After(f, sought, ops, N)
  BY <1>1, AfterExists
<1>3. ApplyAll(sought, intent, ops) = f[N]
  BY <1>2 DEF ApplyAll, After
<1>4. \A k \in 0..N : f[k] = IF k = 0 THEN sought ELSE ApplyOne(f[k - 1], ops[k])
  BY <1>2 DEF After
<1> DEFINE T == {m \in 0..N : DOMAIN f[m] = SearchParts}
<1> HIDE DEF N
<1>5. \A k \in 0..N : k \in T
  <2>1. 0 \in T
    <3>1. 0 \in 0..N
      BY <1>1
    <3>. QED  BY <3>1, <1>4
  <2>2. \A k \in 1..N : k - 1 \in T => k \in T
    <3> SUFFICES ASSUME NEW k \in 1..N, k - 1 \in T
                 PROVE  k \in T
      OBVIOUS
    <3>1. k \in 0..N /\ k # 0 /\ DOMAIN f[k - 1] = SearchParts
      BY <1>1
    <3>2. f[k] = ApplyOne(f[k - 1], ops[k])
      BY <3>1, <1>4
    <3>3. DOMAIN f[k] = SearchParts
      BY <3>1, <3>2 DEF ApplyOne, EmptySearch, SearchParts
    <3>. QED  BY <3>1, <3>3
  <2>3. \A k \in 0..N : k \in T
    <3> HIDE DEF T
    <3>. QED  BY <2>1, <2>2, <1>1, UpTo
  <2>. QED  BY <2>3
<1>6. f[N] = ApplyOne(f[N - 1], o) /\ DOMAIN f[N - 1] = SearchParts
  <2>1. N \in 0..N /\ N # 0 /\ N - 1 \in 0..N
    BY <1>1
  <2>. QED  BY <2>1, <1>4, <1>5
<1>7. f[N] = [f[N - 1] EXCEPT ![o.field] = o.value] /\ o.field \in DOMAIN f[N - 1]
  BY <1>1, <1>6 DEF ApplyOne
<1>8. f[N][o.field] = o.value
  BY <1>7
<1>. QED  BY <1>3, <1>8 DEF N

\* The operations that are kept of a sequence are a sequence, and all of it if all are.
Filtering(f, s, S, N) ==
  f = [k \in 0..N |-> IF k = 0 THEN <<>> ELSE IF s[k] \in S THEN Append(f[k - 1], s[k]) ELSE f[k - 1]]

LEMMA FilteringExists ==
  ASSUME NEW s, NEW S, NEW N \in Nat
  PROVE  \E f : Filtering(f, s, S, N)
<1> DEFINE Upon(v, k) == IF s[k] \in S THEN Append(v, s[k]) ELSE v
           T == {n \in 0..N : \E f : Filtering(f, s, S, n)}
<1>1. 0 \in T
  <2>1. PICK f : f = [k \in 0..0 |-> <<>>]
    OBVIOUS
  <2>2. Filtering(f, s, S, 0)
    BY <2>1 DEF Filtering
  <2>. QED  BY <2>2
<1>2. ASSUME NEW n \in 1..N, n - 1 \in T
      PROVE  n \in T
  <2>1. PICK g : Filtering(g, s, S, n - 1)
    BY <1>2
  <2>2. PICK f : f = [k \in 0..n |-> IF k = n THEN Upon(g[n - 1], n) ELSE g[k]]
    OBVIOUS
  <2>3. \A k \in 0..(n - 1) : f[k] = g[k]
    BY <2>2
  <2>4. \A k \in 0..(n - 1) : g[k] = IF k = 0 THEN <<>> ELSE Upon(g[k - 1], k)
    BY <2>1 DEF Filtering
  <2>5. \A k \in 0..n : f[k] = IF k = 0 THEN <<>> ELSE Upon(f[k - 1], k)
    <3> SUFFICES ASSUME NEW k \in 0..n
                 PROVE  f[k] = IF k = 0 THEN <<>> ELSE Upon(f[k - 1], k)
      OBVIOUS
    <3> HIDE DEF Upon
    <3>1. CASE k = n
      BY <3>1, <2>2, <2>3
    <3>2. CASE k # n
      <4>1. k \in 0..(n - 1) /\ (k # 0 => k - 1 \in 0..(n - 1))
        BY <3>2
      <4>. QED  BY <4>1, <2>3, <2>4
    <3>. QED  BY <3>1, <3>2
  <2>6. f = [k \in 0..n |-> f[k]]
    BY <2>2
  <2>7. Filtering(f, s, S, n)
    BY <2>5, <2>6 DEF Filtering
  <2>. QED  BY <2>7
<1>3. \A k \in 0..N : k \in T
  <2> HIDE DEF T
  <2>. QED  BY <1>1, <1>2, UpTo
<1>. QED  BY <1>3

LEMMA FilteredIs ==
  ASSUME NEW A, NEW s \in Seq(A), NEW S
  PROVE  /\ Filtered(s, S) \in Seq(A)
         /\ (\A i \in 1..Len(s) : s[i] \in S) => Filtered(s, S) = s
<1> DEFINE N == Len(s)
<1>1. N \in Nat
  OBVIOUS
<1>2. PICK f : /\ f = CHOOSE g : Filtering(g, s, S, N)
               /\ Filtering(f, s, S, N)
  BY <1>1, FilteringExists
<1>3. Filtered(s, S) = f[N]
  BY <1>2 DEF Filtered, Filtering
<1>4. \A k \in 0..N : f[k] = IF k = 0 THEN <<>> ELSE IF s[k] \in S THEN Append(f[k - 1], s[k]) ELSE f[k - 1]
  BY <1>2 DEF Filtering
<1>0. \A k \in 1..N : s[k] \in A
  OBVIOUS
<1>9. f[N] \in Seq(A)
  <2> HIDE DEF N
  <2> DEFINE T == {k \in 0..N : f[k] \in Seq(A)}
  <2>1. 0 \in T
    <3>1. 0 \in 0..N /\ <<>> \in Seq(A)
      BY <1>1
    <3>2. f[0] = <<>>
      BY <3>1, <1>4
    <3>3. f[0] \in Seq(A)
      BY <3>1, <3>2
    <3>. QED  BY <3>1, <3>3
  <2>2. \A k \in 1..N : k - 1 \in T => k \in T
    <3> SUFFICES ASSUME NEW k \in 1..N, k - 1 \in T
                 PROVE  k \in T
      OBVIOUS
    <3>1. k \in 0..N /\ k # 0 /\ f[k - 1] \in Seq(A) /\ s[k] \in A
      BY <1>0, <1>1
    <3>2. f[k] = IF s[k] \in S THEN Append(f[k - 1], s[k]) ELSE f[k - 1]
      BY <3>1, <1>4
    <3>3. Append(f[k - 1], s[k]) \in Seq(A)
      BY <3>1
    <3>4. f[k] \in Seq(A)
      BY <3>1, <3>2, <3>3
    <3>. QED  BY <3>1, <3>4
  <2>3. \A k \in 0..N : k \in T
    <3> HIDE DEF T
    <3>. QED  BY <2>1, <2>2, <1>1, UpTo
  <2>. QED  BY <2>3, <1>1
<1>6. ASSUME \A i \in 1..N : s[i] \in S
      PROVE  f[N] = s
  <2> HIDE DEF N
  <2> DEFINE T == {k \in 0..N : /\ f[k] \in Seq(A) /\ Len(f[k]) = k
                                /\ \A i \in 1..k : f[k][i] = s[i]}
  <2>1. 0 \in T
    <3>1. 0 \in 0..N /\ <<>> \in Seq(A) /\ Len(<<>>) = 0
      BY <1>1
    <3>2. f[0] = <<>>
      BY <3>1, <1>4
    <3>3. f[0] \in Seq(A) /\ Len(f[0]) = 0 /\ \A i \in 1..0 : f[0][i] = s[i]
      BY <3>1, <3>2
    <3>. QED  BY <3>1, <3>3
  <2>2. \A k \in 1..N : k - 1 \in T => k \in T
    <3> SUFFICES ASSUME NEW k \in 1..N, k - 1 \in T
                 PROVE  k \in T
      OBVIOUS
    <3>1. k \in 0..N /\ k # 0 /\ k \in Nat /\ f[k - 1] \in Seq(A) /\ Len(f[k - 1]) = k - 1 /\ s[k] \in A
      BY <1>0, <1>1
    <3>2. f[k] = Append(f[k - 1], s[k])
      BY <3>1, <1>4, <1>6
    <3>3. \A i \in 1..(k - 1) : f[k - 1][i] = s[i]
      OBVIOUS
    <3>4. f[k] \in Seq(A) /\ Len(f[k]) = k
      BY <3>1, <3>2
    <3>5. \A i \in 1..k : f[k][i] = s[i]
      BY <3>1, <3>2, <3>3
    <3>. QED  BY <3>1, <3>4, <3>5
  <2>3. \A k \in 0..N : k \in T
    <3> HIDE DEF T
    <3>. QED  BY <2>1, <2>2, <1>1, UpTo
  <2>4. f[N] \in Seq(A) /\ Len(f[N]) = Len(s) /\ \A i \in 1..Len(s) : f[N][i] = s[i]
    <3>1. N \in 0..N
      BY <1>1
    <3>2. f[N] \in Seq(A) /\ Len(f[N]) = N /\ \A i \in 1..N : f[N][i] = s[i]
      BY <2>3, <3>1
    <3>. QED  BY <3>2 DEF N
  <2>. QED  BY <2>4
<1>. QED  BY <1>3, <1>6, <1>9 DEF N

\* A fresh start comes first and what is set comes last, in the words and in a decision.
LEMMA WordsShape ==
  ASSUME NEW s \in ExplicitOperations
  PROVE  /\ s \in Seq(Operations)
         /\ \A i \in DOMAIN s : s[i].op = "SET" => i = Len(s) /\ Len(s) > 0
<1>1. ResetSearch \in Operations /\ Sets \subseteq Operations /\ ResetSearch.op = "RESET"
  BY DEF Operations, ResetSearch
<1>2. CASE s = <<>>
  BY <1>2
<1>3. CASE s = <<ResetSearch>>
  BY <1>1, <1>3
<1>4. CASE \E o \in Sets : s = <<o>>
  BY <1>1, <1>4
<1>5. CASE \E o \in Sets : s = <<ResetSearch, o>>
  <2>1. PICK o \in Sets : s = <<ResetSearch, o>>
    BY <1>5
  <2>2. s \in Seq(Operations) /\ Len(s) = 2 /\ DOMAIN s = {1, 2} /\ s[1] = ResetSearch
    BY <1>1, <2>1
  <2>. QED  BY <1>1, <2>2
<1>. QED  BY <1>2, <1>3, <1>4, <1>5 DEF ExplicitOperations

LEMMA DecidedShape ==
  ASSUME NEW d \in Decisions
  PROVE  d.ops \in Seq(Operations)
<1>1. ResetSearch \in Operations /\ Sets \subseteq Operations
  BY DEF Operations
<1>2. d.ops \in {<<>>, <<ResetSearch>>} \cup {<<o>> : o \in Sets} \cup {<<o, ResetSearch>> : o \in Sets}
  BY DEF Decisions
<1>3. CASE d.ops = <<>>
  BY <1>3
<1>4. CASE d.ops = <<ResetSearch>>
  BY <1>1, <1>4
<1>5. CASE \E o \in Sets : d.ops = <<o>>
  BY <1>1, <1>5
<1>6. CASE \E o \in Sets : d.ops = <<o, ResetSearch>>
  BY <1>1, <1>6
<1>. QED  BY <1>2, <1>3, <1>4, <1>5, <1>6

LEMMA ExplicitShape ==
  ASSUME NEW e \in Explicit
  PROVE  e.ops \in ExplicitOperations
BY DEF Explicit

\* The customer's own words come last, unless the model said them too.
LEMMA WordsLast ==
  ASSUME NEW e \in Explicit, NEW d \in Decisions, d.asks # "state",
         \A i \in DOMAIN e.ops : ~ Contains(d.ops, e.ops[i])
  PROVE  Merged(e, d) = Others(e, d) \o e.ops /\ Others(e, d) \in Seq(Operations)
<1>1. e.ops \in Seq(Operations) /\ d.ops \in Seq(Operations)
  BY ExplicitShape, WordsShape, DecidedShape
<1>2. \A i \in 1..Len(e.ops) : e.ops[i] \in Range(e.ops) \ Range(d.ops)
  <2> SUFFICES ASSUME NEW i \in 1..Len(e.ops)
               PROVE  e.ops[i] \in Range(e.ops) \ Range(d.ops)
    OBVIOUS
  <2>1. i \in DOMAIN e.ops /\ DOMAIN d.ops = 1..Len(d.ops)
    BY <1>1
  <2>. QED  BY <2>1 DEF Contains, Range
<1>3. Additions(e, d) = e.ops
  BY <1>1, <1>2, FilteredIs DEF Additions
<1>4. Others(e, d) \in Seq(Operations)
  <2>1. \A S : Filtered(d.ops, S) \in Seq(Operations)
    BY <1>1, FilteredIs
  <2>. QED  BY <2>1 DEF Others
<1>. QED  BY <1>3, <1>4 DEF Merged

\* An explicit operation that sets a field is the last of those the message names.
LEMMA SetsLast ==
  ASSUME NEW e \in Explicit, NEW i \in DOMAIN e.ops, e.ops[i].op = "SET"
  PROVE  i = Len(e.ops) /\ Len(e.ops) \in Nat /\ Len(e.ops) > 0 /\ e.ops \in Seq(Operations)
<1>1. e.ops \in ExplicitOperations
  BY ExplicitShape
<1>2. e.ops \in Seq(Operations)
  BY <1>1, WordsShape
<1>. QED  BY <1>1, <1>2, WordsShape

\* Operations that end with the explicit ones leave what these set.
LEMMA AppliedLast ==
  ASSUME NEW sought, DOMAIN sought = SearchParts, NEW e \in Explicit, NEW others \in Seq(Operations),
         NEW intent, intent \notin PassiveIntents, NEW i \in DOMAIN e.ops, e.ops[i].op = "SET"
  PROVE  ApplyAll(sought, intent, others \o e.ops)[e.ops[i].field] = e.ops[i].value
<1> DEFINE ops == others \o e.ops
<1>1. i = Len(e.ops) /\ Len(e.ops) \in Nat /\ Len(e.ops) > 0 /\ e.ops \in Seq(Operations)
  BY SetsLast
<1>2. ops \in Seq(Operations) /\ Len(ops) = Len(others) + Len(e.ops) /\ Len(ops) > 0
  BY <1>1
<1>3. ops[Len(ops)] = e.ops[i]
  BY <1>1, <1>2
<1> HIDE DEF ops
<1>4. ApplyAll(sought, intent, ops)[ops[Len(ops)].field] = ops[Len(ops)].value
  BY <1>2, <1>3, LastStands
<1>. QED  BY <1>3, <1>4 DEF ops

WordsStand(t) ==
  ~t.excused /\ t.intent \notin PassiveIntents =>
    \A i \in DOMAIN t.explicit :
      t.explicit[i].op = "SET" => t.search[t.explicit[i].field] = t.explicit[i].value

AtTools == {"at", "explicit", "search", "intent", "queue", "planned", "executed", "iterations",
            "chain", "left", "decided", "continued", "excused", "actions", "requested", "sure"}

ThoughtInv ==
  /\ thought.at = "decide" =>
       /\ DOMAIN thought = {"at", "explicit", "search", "chain", "left"}
       /\ thought.explicit \in Explicit
       /\ DOMAIN thought.search = SearchParts
  /\ thought.at \in {"tools", "continue"} => DOMAIN thought = AtTools /\ WordsStand(thought)

LEMMA ThoughtInvStep == ThoughtInv /\ [ThoughtNext]_thought => ThoughtInv'
<1> SUFFICES ASSUME ThoughtInv, [ThoughtNext]_thought
             PROVE  ThoughtInv'
  OBVIOUS
<1>1. CASE Receive
  <2>1. PICK chain \in Chains, e \in Explicit, sought \in Searches :
          thought' = [at |-> "decide", explicit |-> e, search |-> sought, chain |-> chain, left |-> chain]
    BY <1>1 DEF Receive
  <2>2. DOMAIN sought = SearchParts
    BY DEF Searches, EmptySearch, SearchParts
  <2>. QED  BY <2>1, <2>2 DEF ThoughtInv
<1>2. CASE Decide
  <2>0. PICK d \in Decisions : \E plan \in Plans(Combined(thought.explicit, d)) :
          thought' = ToTools(thought, Combined(thought.explicit, d), plan, TRUE,
                             \E i \in DOMAIN thought.explicit.ops : Contains(d.ops, thought.explicit.ops[i]))
    BY <1>2 DEF Decide
  <2>1. PICK plan \in Plans(Combined(thought.explicit, d)) :
          thought' = ToTools(thought, Combined(thought.explicit, d), plan, TRUE,
                             \E i \in DOMAIN thought.explicit.ops : Contains(d.ops, thought.explicit.ops[i]))
    BY <2>0
  <2> DEFINE e == thought.explicit
             u == Combined(e, d)
  <2>2. e \in Explicit /\ DOMAIN thought.search = SearchParts
    BY <1>2 DEF Decide, ThoughtInv
  <2>3. u.intent = MergedIntent(e, d) /\ u.ops = Merged(e, d) /\ u.asks = (d.asks = "state")
    BY DEF Combined
  <2>4. /\ thought'.at = "tools" /\ thought'.explicit = e.ops
        /\ thought'.search = ApplyAll(thought.search, u.intent, u.ops)
        /\ thought'.intent = u.intent
        /\ thought'.excused = (u.asks \/ \E i \in DOMAIN e.ops : Contains(d.ops, e.ops[i]))
        /\ DOMAIN thought' = AtTools
    BY <2>1 DEF ToTools, AtTools
  <2>5. ASSUME ~thought'.excused, thought'.intent \notin PassiveIntents,
               NEW i \in DOMAIN e.ops, e.ops[i].op = "SET"
        PROVE  thought'.search[e.ops[i].field] = e.ops[i].value
    <3>1. d.asks # "state" /\ \A j \in DOMAIN e.ops : ~ Contains(d.ops, e.ops[j])
      BY <2>3, <2>4, <2>5
    <3>2. u.ops = Others(e, d) \o e.ops /\ Others(e, d) \in Seq(Operations)
      BY <2>2, <2>3, <3>1, WordsLast
    <3> HIDE DEF u, e
    <3>. QED  BY <2>2, <2>4, <2>5, <3>2, AppliedLast
  <2>6. WordsStand(thought')
    <3> HIDE DEF u, e
    <3>. QED  BY <2>4, <2>5 DEF WordsStand
  <2>. QED  BY <2>4, <2>6 DEF ThoughtInv, WordsStand
<1>3. CASE NextProvider
  BY <1>3 DEF NextProvider, ThoughtInv, WordsStand, AtTools
<1>4. CASE Outage
  <2>1. PICK plan \in Plans(SemanticFallback(thought.explicit)) :
          thought' = ToTools(thought, SemanticFallback(thought.explicit), plan, FALSE, FALSE)
    BY <1>4 DEF Outage
  <2> DEFINE e == thought.explicit
             u == SemanticFallback(e)
  <2>2. e \in Explicit /\ DOMAIN thought.search = SearchParts
    BY <1>4 DEF Outage, ThoughtInv
  <2>3. u.ops = e.ops
    BY DEF SemanticFallback
  <2>4. /\ thought'.at = "tools" /\ thought'.explicit = e.ops
        /\ thought'.search = ApplyAll(thought.search, u.intent, u.ops)
        /\ thought'.intent = u.intent
        /\ DOMAIN thought' = AtTools
    BY <2>1 DEF ToTools, AtTools
  <2>5. ASSUME thought'.intent \notin PassiveIntents, NEW i \in DOMAIN e.ops, e.ops[i].op = "SET"
        PROVE  thought'.search[e.ops[i].field] = e.ops[i].value
    <3>1. <<>> \in Seq(Operations) /\ e.ops = <<>> \o e.ops
      BY <2>2, <2>5, SetsLast
    <3>3. PICK none \in Seq(Operations) : none \o e.ops = e.ops
      BY <3>1
    <3>4. u.intent \notin PassiveIntents /\ e.ops[i].op = "SET" /\ i \in DOMAIN e.ops
      BY <2>4, <2>5
    <3> HIDE DEF u, e
    <3>2. ApplyAll(thought.search, u.intent, none \o e.ops)[e.ops[i].field] = e.ops[i].value
      BY <2>2, <3>4, AppliedLast
    <3>. QED  BY <2>3, <2>4, <3>2, <3>3
  <2>6. WordsStand(thought')
    <3> HIDE DEF u, e
    <3>. QED  BY <2>4, <2>5 DEF WordsStand
  <2>. QED  BY <2>4, <2>6 DEF ThoughtInv, WordsStand
<1>5. CASE RunTool
  BY <1>5 DEF RunTool, ThoughtInv, WordsStand, AtTools
<1>6. CASE Continue
  BY <1>6 DEF Continue, ThoughtInv, WordsStand, AtTools
<1>7. CASE ContinuationFails
  BY <1>7 DEF ContinuationFails, ThoughtInv, WordsStand, AtTools
<1>8. CASE Propose
  BY <1>8 DEF Propose, ThoughtInv, AtTools
<1>9. CASE Answer
  BY <1>9 DEF Answer, ThoughtInv
<1>10. CASE UNCHANGED thought
  BY <1>10 DEF ThoughtInv, WordsStand
<1>. QED  BY <1>1, <1>2, <1>3, <1>4, <1>5, <1>6, <1>7, <1>8, <1>9, <1>10 DEF ThoughtNext

\* What the customer said in so many words is what the search goes by (ExplicitStands).
THEOREM ExplicitSaidStands == ThoughtSpec => []ExplicitStands
<1>1. ThoughtInit => ThoughtInv
  BY DEF ThoughtInit, ThoughtInv
<1>2. ThoughtInv => ExplicitStands
  BY DEF ThoughtInv, ExplicitStands, WordsStand
<1>. QED  BY <1>1, <1>2, ThoughtInvStep, PTL DEF ThoughtSpec

\* A turn runs each call once, and at most four.
RunSound(t) ==
  /\ DOMAIN t = AtTools
  /\ IsFiniteSet(t.executed) /\ t.iterations = Cardinality(t.executed)
  /\ t.iterations <= MaxIterations
  /\ t.continued => t.decided /\ t.executed # {}

ThoughtRuns == thought.at \in {"tools", "continue", "acted"} => RunSound(thought)

LEMMA RunsStep == ThoughtRuns /\ [ThoughtNext]_thought => ThoughtRuns'
<1> SUFFICES ASSUME ThoughtRuns, [ThoughtNext]_thought
             PROVE  ThoughtRuns'
  OBVIOUS
<1>0. IsFiniteSet({}) /\ Cardinality({}) = 0 /\ 0 <= MaxIterations
  BY FS_EmptySet DEF MaxIterations
<1>1. ASSUME NEW u, NEW plan, NEW decided, NEW agreed, thought' = ToTools(thought, u, plan, decided, agreed)
      PROVE  ThoughtRuns'
  <2>1. /\ DOMAIN thought' = AtTools /\ thought'.executed = {} /\ thought'.iterations = 0
        /\ thought'.continued = FALSE
    BY <1>1 DEF ToTools, AtTools
  <2>. QED  BY <1>0, <2>1 DEF ThoughtRuns, RunSound
<1>2. CASE Receive
  <2>1. thought'.at = "decide"
    BY <1>2 DEF Receive
  <2>. QED  BY <2>1 DEF ThoughtRuns
<1>3. CASE Decide \/ Outage
  <2>1. \E u, plan, decided, agreed : thought' = ToTools(thought, u, plan, decided, agreed)
    BY <1>3 DEF Decide, Outage
  <2>. QED  BY <1>1, <2>1
<1>4. CASE NextProvider
  <2>1. thought.at \in {"decide", "continue"} /\ thought' = [thought EXCEPT !.left = Tail(@)]
    BY <1>4 DEF NextProvider
  <2>2. thought'.at = thought.at
    BY <2>1
  <2>3. CASE thought.at = "decide"
    BY <2>2, <2>3 DEF ThoughtRuns
  <2>4. CASE thought.at = "continue"
    BY <2>1, <2>4 DEF ThoughtRuns, RunSound, AtTools
  <2>. QED  BY <2>1, <2>3, <2>4
<1>5. CASE RunTool
  <2> DEFINE call == Head(thought.queue)
             again == call \in thought.executed
             asks == /\ ~again /\ thought.decided /\ thought.chain # <<>> /\ ~thought.continued
                     /\ thought.planned <= 1 /\ thought.iterations + 1 < MaxIterations
             next == [thought EXCEPT !.queue = Tail(@), !.executed = @ \cup {call},
                                     !.iterations = IF again THEN @ ELSE @ + 1,
                                     !.at = IF asks THEN "continue" ELSE @,
                                     !.continued = @ \/ asks,
                                     !.left = IF asks THEN thought.chain ELSE <<>>]
  <2>1. thought.at = "tools" /\ thought.iterations < MaxIterations /\ thought' = next
    BY <1>5 DEF RunTool
  <2>2. RunSound(thought)
    BY <2>1 DEF ThoughtRuns
  <2>3. /\ DOMAIN next = AtTools /\ next.executed = thought.executed \cup {call}
        /\ next.iterations = IF again THEN thought.iterations ELSE thought.iterations + 1
        /\ next.continued = (thought.continued \/ asks) /\ next.decided = thought.decided
    BY <2>2 DEF RunSound, AtTools
  <2>4. /\ IsFiniteSet(thought.executed \cup {call})
        /\ Cardinality(thought.executed \cup {call}) =
             IF again THEN Cardinality(thought.executed) ELSE Cardinality(thought.executed) + 1
    <3> HIDE DEF call
    <3>. QED  BY <2>2, FS_AddElement DEF RunSound
  <2>5. Cardinality(thought.executed) \in Nat
    BY <2>2, FS_CardinalityType DEF RunSound
  <2>6. next.iterations = Cardinality(next.executed) /\ IsFiniteSet(next.executed) /\ next.iterations <= MaxIterations
    BY <2>1, <2>2, <2>3, <2>4, <2>5 DEF RunSound, MaxIterations
  <2>7. next.continued => next.decided /\ next.executed # {}
    BY <2>2, <2>3 DEF RunSound
  <2> HIDE DEF next
  <2>8. RunSound(next)
    BY <2>3, <2>6, <2>7 DEF RunSound
  <2>. QED  BY <2>1, <2>8 DEF ThoughtRuns
<1>9. ASSUME RunSound(thought), DOMAIN thought' = DOMAIN thought, thought'.executed = thought.executed,
             thought'.iterations = thought.iterations, thought'.continued = thought.continued,
             thought'.decided = thought.decided
      PROVE  ThoughtRuns'
  BY <1>9 DEF ThoughtRuns, RunSound
<1>6. CASE Continue
  <2>1. thought.at = "continue"
    BY <1>6 DEF Continue
  <2>3. PICK calls, actions :
          thought' = [thought EXCEPT !.at = "tools", !.left = <<>>, !.actions = @ \/ actions,
                                     !.queue = @ \o Filtered(calls, Calls \ thought.executed)]
    BY <1>6 DEF Continue
  <2>4. RunSound(thought)
    BY <2>1 DEF ThoughtRuns
  <2>. QED  BY <1>9, <2>3, <2>4 DEF RunSound, AtTools
<1>10. CASE ContinuationFails
  <2>1. thought.at = "continue" /\ thought' = [thought EXCEPT !.at = "tools"]
    BY <1>10 DEF ContinuationFails
  <2>2. RunSound(thought)
    BY <2>1 DEF ThoughtRuns
  <2>. QED  BY <1>9, <2>1, <2>2 DEF RunSound, AtTools
<1>11. CASE Propose
  <2>1. thought.at = "tools" /\ thought' = [thought EXCEPT !.at = "acted", !.actions = @ /\ thought.sure]
    BY <1>11 DEF Propose
  <2>2. RunSound(thought)
    BY <2>1 DEF ThoughtRuns
  <2>. QED  BY <1>9, <2>1, <2>2 DEF RunSound, AtTools
<1>7. CASE Answer
  <2>1. thought'.at = "idle"
    BY <1>7 DEF Answer
  <2>. QED  BY <2>1 DEF ThoughtRuns
<1>8. CASE UNCHANGED thought
  BY <1>8 DEF ThoughtRuns, RunSound
<1>. QED  BY <1>2, <1>3, <1>4, <1>5, <1>6, <1>7, <1>8, <1>10, <1>11 DEF ThoughtNext

\* Each call of a turn runs once, at most four run, and the model is asked to continue only
\* after one has run (ToolLoopService.run).
THEOREM CallsBounded == ThoughtSpec => []ThoughtTyped
<1>1. ThoughtInit => ThoughtRuns
  BY DEF ThoughtInit, ThoughtRuns
<1>2. ThoughtRuns => ThoughtTyped
  BY DEF ThoughtRuns, RunSound, ThoughtTyped
<1>. QED  BY <1>1, <1>2, RunsStep, PTL DEF ThoughtSpec

-----------------------------------------------------------------------------
(* Places in an order *)

\* In a finite set with a strict total order there is an element with n elements before it,
\* for each n below the cardinality.
Orders(R, S) ==
  /\ \A x \in S : <<x, x>> \notin R
  /\ \A x, y \in S : x # y => <<x, y>> \in R \/ <<y, x>> \in R
  /\ \A x, y, z \in S : <<x, y>> \in R /\ <<y, z>> \in R => <<x, z>> \in R

Ahead(R, S, x) == {y \in S : <<y, x>> \in R}

LEMMA RankExists ==
  ASSUME NEW S, IsFiniteSet(S), NEW R, Orders(R, S)
  PROVE  \A n \in Nat : n < Cardinality(S) => \E x \in S : Cardinality(Ahead(R, S, x)) = n
<1> DEFINE N == Cardinality(S)
           Below(x) == {y \in S : <<y, x>> \in R}
           place == [x \in S |-> Cardinality(Below(x))]
           T == 0..(N - 1)
<1>1. N \in Nat
  BY FS_CardinalityType
<1>2. IsFiniteSet(T) /\ Cardinality(T) = N
  <2>1. 0 \in Int /\ N - 1 \in Int /\ (IF 0 > N - 1 THEN 0 ELSE N - 1 - 0 + 1) = N
    BY <1>1
  <2>. QED  BY <2>1, FS_Interval
<1>3. ASSUME NEW x \in S
      PROVE  IsFiniteSet(Below(x)) /\ Cardinality(Below(x)) \in T
  <2>1. IsFiniteSet(S \ {x}) /\ Cardinality(S \ {x}) = N - 1
    BY FS_RemoveElement
  <2>2. Below(x) \in SUBSET (S \ {x})
    BY DEF Orders
  <2>3. IsFiniteSet(Below(x)) /\ Cardinality(Below(x)) <= N - 1
    <3> DEFINE B == Below(x)
               O == S \ {x}
    <3>1. IsFiniteSet(O) /\ Cardinality(O) = N - 1 /\ B \in SUBSET O
      BY <2>1, <2>2
    <3> HIDE DEF B, O
    <3>2. IsFiniteSet(B) /\ Cardinality(B) <= Cardinality(O)
      BY <3>1, FS_Subset
    <3>. QED  BY <3>1, <3>2 DEF B
  <2>4. Cardinality(Below(x)) \in Nat
    BY <2>3, FS_CardinalityType
  <2>. QED  BY <1>1, <2>3, <2>4
<1>4. ASSUME NEW x \in S, NEW y \in S, <<x, y>> \in R
      PROVE  place[x] # place[y]
  <2>1. Below(x) \in SUBSET Below(y) /\ x \in Below(y) /\ x \notin Below(x)
    BY <1>4 DEF Orders
  <2>2. Cardinality(Below(x)) # Cardinality(Below(y))
    BY <2>1, <1>3, FS_Subset
  <2>. QED  BY <2>2
<1>5. place \in Injection(S, T)
  <2>1. place \in [S -> T]
    BY <1>3
  <2>2. \A x, y \in S : place[x] = place[y] => x = y
    <3> HIDE DEF place
    <3>. QED  BY <1>4 DEF Orders
  <2>. QED  BY <2>1, <2>2 DEF Injection, IsInjective
<1>6. place \in Surjection(S, T)
  BY <1>2, <1>5, FS_Injection
<1>7. SUFFICES ASSUME NEW n \in Nat, n < N
              PROVE  \E x \in S : Cardinality(Below(x)) = n
  BY DEF Ahead
<1>8. PICK x \in S : place[x] = n
  <2>1. n \in T
    BY <1>1, <1>7
  <2>. QED  BY <1>6, <2>1 DEF Surjection
<1>. QED  BY <1>8

\* In a finite set of naturals there is, for each n up to its size, one with n up to it.
LEMMA PlacesOfNaturals ==
  ASSUME NEW S, IsFiniteSet(S), \A i \in S : i \in Nat
  PROVE  \A n \in 1..Cardinality(S) : \E i \in S : Cardinality({j \in S : j <= i}) = n
<1> DEFINE R == {p \in S \X S : p[1] < p[2]}
           K == Cardinality(S)
<1>0. \A i, j \in S : <<i, j>> \in R <=> i < j
  OBVIOUS
<1> HIDE DEF R
<1>1. Orders(R, S)
  <2>2. /\ \A x \in S : ~ (x < x)
        /\ \A x, y \in S : x # y => x < y \/ y < x
        /\ \A x, y, z \in S : x < y /\ y < z => x < z
    OBVIOUS
  <2>. QED  BY <1>0, <2>2 DEF Orders
<1>2. \A m \in Nat : m < Cardinality(S) => \E x \in S : Cardinality(Ahead(R, S, x)) = m
  BY <1>1, RankExists
<1>3. ASSUME NEW n \in 1..K
      PROVE  \E i \in S : Cardinality({j \in S : j <= i}) = n
  <2>0. K \in Nat
    BY FS_CardinalityType
  <2>1. n - 1 \in Nat /\ n - 1 < Cardinality(S)
    BY <2>0
  <2>2. PICK i \in S : Cardinality(Ahead(R, S, i)) = n - 1
    BY <1>2, <2>1
  <2>3. {j \in S : j <= i} = Ahead(R, S, i) \cup {i}
    <3>1. \A j \in S : j <= i <=> <<j, i>> \in R \/ j = i
      BY <1>0
    <3>. QED  BY <3>1 DEF Ahead
  <2>4. IsFiniteSet(Ahead(R, S, i)) /\ i \notin Ahead(R, S, i)
    <3>1. Ahead(R, S, i) \in SUBSET S
      BY DEF Ahead
    <3>2. ~ (i < i)
      OBVIOUS
    <3>3. i \notin Ahead(R, S, i)
      BY <1>0, <3>2 DEF Ahead
    <3>. QED  BY <3>1, <3>3, FS_Subset
  <2>5. Cardinality(Ahead(R, S, i) \cup {i}) = n - 1 + 1
    BY <2>2, <2>4, FS_AddElement
  <2>6. Cardinality({j \in S : j <= i}) = n - 1 + 1
    BY <2>3, <2>5, Zenon
  <2>7. n - 1 + 1 = n
    BY <2>0
  <2>. QED  BY <2>6, <2>7
<1>. QED  BY <1>3

-----------------------------------------------------------------------------
(* AnswerProviders *)

Tokens == {Word, Thought, Close, Open[1], Open[2]}

\* What is picked of a sequence are its elements at the places kept.
LEMMA PickIs ==
  ASSUME NEW raw, NEW N \in Nat, NEW kept \in SUBSET (1..N)
  PROVE  Pick(raw, kept) \in Seq({raw[i] : i \in kept})
<1> DEFINE K == Cardinality(kept)
<1>1. IsFiniteSet(kept) /\ K \in Nat
  <2>1. IsFiniteSet(1..N)
    BY FS_Interval
  <2>2. IsFiniteSet(kept)
    BY <2>1, FS_Subset
  <2>. QED  BY <2>2, FS_CardinalityType
<1>2. \A i \in kept : i \in Nat
  OBVIOUS
<1>3. \A n \in 1..K : \E i \in kept : Cardinality({j \in kept : j <= i}) = n
  BY <1>1, <1>2, PlacesOfNaturals
<1>4. \A n \in 1..K : raw[CHOOSE i \in kept : Cardinality({j \in kept : j <= i}) = n] \in {raw[i] : i \in kept}
  <2> SUFFICES ASSUME NEW n \in 1..K
               PROVE  (CHOOSE i \in kept : Cardinality({j \in kept : j <= i}) = n) \in kept
    OBVIOUS
  <2>. QED  BY <1>3
<1> DEFINE V == {raw[i] : i \in kept}
           at(n) == raw[CHOOSE i \in kept : Cardinality({j \in kept : j <= i}) = n]
<1>5. Pick(raw, kept) = [n \in 1..K |-> at(n)]
  BY DEF Pick
<1>6. \A n \in 1..K : at(n) \in V
  BY <1>4
<1> HIDE DEF V, at, K
<1>7. Pick(raw, kept) \in Seq(V)
  BY <1>1, <1>5, <1>6
<1>. QED  BY <1>7 DEF V

\* A thought stands between the tags.
RawSound(raw) == raw \in Seq(Tokens) /\ \A i \in 1..Len(raw) : raw[i] = Thought => InsideAfter(raw, i)

LEMMA SentSound ==
  ASSUME NEW raw, RawSound(raw), NEW chunk \in Chunks, MaySend(raw, chunk)
  PROVE  RawSound(raw \o chunk)
<1> DEFINE next == raw \o chunk
           L == Len(raw)
<1>1. raw \in Seq(Tokens) /\ chunk \in Seq(Tokens) /\ L \in Nat
  <2>1. raw \in Seq(Tokens)
    BY DEF RawSound
  <2>2. /\ {Word, Thought, Close, Open[1], Open[2]} = Tokens
        /\ Open = <<Open[1], Open[2]>>
    BY DEF Tokens, Open
  <2>3. /\ Word \in Tokens /\ Thought \in Tokens /\ Close \in Tokens /\ Open[1] \in Tokens /\ Open[2] \in Tokens
        /\ Chunks = {<<Word>>, <<Thought>>, <<Close>>, <<Open[1], Open[2]>>, <<Open[1]>>, <<Open[2]>>}
    BY <2>2 DEF Chunks
  <2>4. \A a, b \in Tokens : <<a>> \in Seq(Tokens) /\ <<a, b>> \in Seq(Tokens)
    OBVIOUS
  <2>5. chunk \in Seq(Tokens)
    BY <2>3, <2>4
  <2>. QED  BY <2>1, <2>5
<1>2. next \in Seq(Tokens) /\ Len(next) = L + Len(chunk) /\ \A i \in 1..L : next[i] = raw[i]
  BY <1>1
<1>3. \A i \in 1..L : InsideAfter(raw, i) => InsideAfter(next, i)
  <2> SUFFICES ASSUME NEW i \in 1..L, InsideAfter(raw, i)
               PROVE  InsideAfter(next, i)
    OBVIOUS
  <2>1. PICK k \in 1..i : /\ k > 1 /\ raw[k - 1] = Open[1] /\ raw[k] = Open[2]
                          /\ \A j \in k..i : raw[j] # Close
    BY DEF InsideAfter
  <2>2. k - 1 \in 1..L /\ k \in 1..L /\ \A j \in k..i : j \in 1..L
    BY <1>1, <2>1
  <2>3. k > 1 /\ next[k - 1] = Open[1] /\ next[k] = Open[2] /\ \A j \in k..i : next[j] # Close
    BY <1>2, <2>1, <2>2
  <2>. QED  BY <2>3 DEF InsideAfter
<1>4. \A i \in 1..Len(next) : next[i] = Thought => InsideAfter(next, i)
  <2> SUFFICES ASSUME NEW i \in 1..Len(next), next[i] = Thought
               PROVE  InsideAfter(next, i)
    OBVIOUS
  <2>1. CASE i \in 1..L
    BY <1>2, <1>3, <2>1 DEF RawSound
  <2>2. CASE i \notin 1..L
    <3>1. i - L \in 1..Len(chunk) /\ next[i] = chunk[i - L]
      BY <1>1, <1>2, <2>2
    <3>2. chunk = <<Thought>> /\ InsideAfter(raw, L)
      BY <3>1 DEF MaySend, Chunks, Open, Word, Thought, Close
    <3>3. i = L + 1 /\ Len(chunk) = 1
      BY <1>1, <3>1, <3>2
    <3>4. L \in 1..L
      <4>1. PICK k \in 1..L : k > 1
        BY <3>2 DEF InsideAfter
      <4>. QED  BY <1>1, <4>1
    <3>5. InsideAfter(next, L)
      BY <1>3, <3>2, <3>4
    <3>6. PICK k \in 1..L : /\ k > 1 /\ next[k - 1] = Open[1] /\ next[k] = Open[2]
                            /\ \A j \in k..L : next[j] # Close
      BY <3>5 DEF InsideAfter
    <3>7. k \in 1..i /\ \A j \in k..i : next[j] # Close
      <4>1. \A j \in k..i : j \in k..L \/ j = i
        BY <1>1, <3>3
      <4>2. next[i] # Close
        BY DEF Thought, Close
      <4>. QED  BY <1>1, <3>3, <3>6, <4>1, <4>2
    <3>. QED  BY <3>6, <3>7 DEF InsideAfter
  <2>. QED  BY <2>1, <2>2
<1>. QED  BY <1>2, <1>4 DEF RawSound

Heeded == Tokens \ {Thought}

\* What remains of a stream has no thought in it.
LEMMA Stripped ==
  ASSUME NEW raw, RawSound(raw)
  PROVE  StripReasoning(raw) \in Seq(Heeded)
<1>1. raw \in Seq(Tokens) /\ Len(raw) \in Nat
  BY DEF RawSound
<1>2. Visible(raw) \in SUBSET (1..Len(raw)) /\ \A i \in Visible(raw) : raw[i] # Thought
  BY DEF Visible, RawSound
<1>3. {raw[i] : i \in Visible(raw)} \subseteq Heeded
  BY <1>1, <1>2 DEF Heeded
<1>4. StripReasoning(raw) \in Seq({raw[i] : i \in Visible(raw)})
  BY <1>1, <1>2, PickIs DEF StripReasoning
<1> DEFINE V == {raw[i] : i \in Visible(raw)}
<1> HIDE DEF V
<1>5. StripReasoning(raw) \in Seq(V) /\ V \subseteq Heeded
  BY <1>3, <1>4 DEF V
<1>. QED  BY <1>5

\* Answers of the given models, in which no thought is spoken.
Said(models) == Seq([by : models, token : Heeded])

LEMMA BySaid ==
  ASSUME NEW model, NEW tokens \in Seq(Heeded)
  PROVE  By(model, tokens) \in Said({model}) /\ Len(By(model, tokens)) = Len(tokens)
<1>1. DOMAIN tokens = 1..Len(tokens) /\ Len(tokens) \in Nat /\ \A i \in 1..Len(tokens) : tokens[i] \in Heeded
  OBVIOUS
<1>2. \A i \in DOMAIN tokens : [by |-> model, token |-> tokens[i]] \in [by : {model}, token : Heeded]
  BY <1>1
<1> DEFINE R == [by : {model}, token : Heeded]
           at(i) == [by |-> model, token |-> tokens[i]]
<1>3. By(model, tokens) = [i \in 1..Len(tokens) |-> at(i)] /\ \A i \in 1..Len(tokens) : at(i) \in R
  BY <1>1, <1>2 DEF By
<1> HIDE DEF R, at
<1>4. By(model, tokens) \in Seq(R) /\ Len(By(model, tokens)) = Len(tokens)
  BY <1>1, <1>3
<1>. QED  BY <1>4 DEF R, Said

LEMMA WordSaid == ASSUME NEW model PROVE By(model, <<Word>>) \in Said({model})
<1>1. Word \in Heeded
  BY DEF Heeded, Tokens, Word, Thought
<1>2. <<Word>> \in Seq(Heeded)
  BY <1>1
<1>. QED  BY <1>2, BySaid

LEMMA SaidMore ==
  ASSUME NEW A, NEW B, A \subseteq B, NEW s \in Said(A)
  PROVE  s \in Said(B)
<1> DEFINE RA == [by : A, token : Heeded]
           RB == [by : B, token : Heeded]
<1>1. RA \subseteq RB
  OBVIOUS
<1>2. s \in Seq(RA)
  BY DEF Said
<1> HIDE DEF RA, RB
<1>3. s \in Seq(RB)
  BY <1>1, <1>2
<1>. QED  BY <1>3 DEF Said, RB

LEMMA SaidOn ==
  ASSUME NEW A, NEW s \in Said(A), NEW t \in Said(A)
  PROVE  s \o t \in Said(A)
<1> DEFINE R == [by : A, token : Heeded]
<1>1. s \in Seq(R) /\ t \in Seq(R)
  BY DEF Said
<1> HIDE DEF R
<1>2. s \o t \in Seq(R)
  BY <1>1
<1>. QED  BY <1>2 DEF R, Said

LEMMA NothingSaid == ASSUME NEW A PROVE <<>> \in Said(A)
  BY DEF Said

\* The inductive invariant: while the Groq models are tried, what has been heard is of the
\* first of those that are left, and nothing has been heard while nothing was emitted.
TurnFields == {"at", "path", "models", "input", "raw", "emittedLength", "answer"}

OneOrTheLast(answer) ==
  answer \in Said({OpenAI, Workers}) \/ \E model : answer \in Said({model})

Trying(t) ==
  /\ RawSound(t.raw) /\ t.emittedLength \in Nat
  /\ t.answer \in Said({Head(t.models)})
  /\ t.emittedLength = 0 \/ t.path = "send" => t.answer = <<>>
  /\ t.path = "send" => t.emittedLength = 0

Spoken(t) ==
  /\ DOMAIN t = TurnFields
  /\ \/ t.at = "groq" /\ Trying(t)
     \/ t.at = "openai" /\ t.answer = <<>>
     \/ t.at = "workers" /\ t.answer \in Said({OpenAI})
     \/ t.at \in {"answered", "stored", "unavailable"} /\ OneOrTheLast(t.answer)

VoiceInv ==
  /\ DOMAIN request = Enquiries
  /\ \A r \in Enquiries : request[r] = NoRequest \/ Spoken(request[r])

LEMMA VoiceTurn ==
  ASSUME VoiceInv, NEW r \in Enquiries
  PROVE  request[r] = NoRequest \/ Spoken(request[r])
  BY DEF VoiceInv

LEMMA VoiceStep ==
  ASSUME VoiceInv, NEW r \in Enquiries, NEW t, t = NoRequest \/ Spoken(t), Becomes(r, t)
  PROVE  VoiceInv'
  BY DEF VoiceInv, Becomes

LEMMA VoiceAt ==
  ASSUME NEW t, t = NoRequest \/ Spoken(t), t.at # "idle"
  PROVE  Spoken(t)
  BY DEF NoRequest

\* What follows a failure has nothing of the model that failed.
LEMMA FailureSpoken ==
  ASSUME NEW t, Spoken(t), t.at = "groq", t.emittedLength = 0, NEW failure
  PROVE  Spoken(AfterFailure(t, failure))
<1>1. DOMAIN t = TurnFields /\ t.answer = <<>>
  BY DEF Spoken, Trying
<1> DEFINE n == AfterFailure(t, failure)
<1>2. DOMAIN n = TurnFields
  BY <1>1 DEF AfterFailure
<1>3. /\ n.answer = <<>>
      /\ \/ n.at = "groq" /\ n.raw = <<>> /\ n.emittedLength = 0
         \/ n.at = "openai"
         \/ n.at = "workers"
  BY <1>1 DEF AfterFailure, TurnFields
<1>4. RawSound(<<>>)
  BY DEF RawSound
<1> HIDE DEF n
<1>5. n.at = "groq" => Trying(n)
  BY <1>3, <1>4, NothingSaid DEF Trying
<1>. QED  BY <1>2, <1>3, <1>5, NothingSaid DEF Spoken, n

LEMMA BreakSpoken ==
  ASSUME NEW t, Spoken(t), t.at = "groq", NEW failure
  PROVE  Spoken(StopOrAnother(t, failure))
<1>1. DOMAIN t = TurnFields /\ Trying(t) /\ t.emittedLength \in Nat
  BY DEF Spoken, Trying
<1>2. CASE t.emittedLength > 0
  <2> DEFINE n == [t EXCEPT !.at = "unavailable"]
  <2>1. DOMAIN n = TurnFields /\ n.at = "unavailable" /\ n.answer = t.answer
    BY <1>1 DEF TurnFields
  <2>2. OneOrTheLast(n.answer)
    BY <1>1, <2>1 DEF Trying, OneOrTheLast
  <2>3. StopOrAnother(t, failure) = n
    BY <1>2 DEF StopOrAnother
  <2> HIDE DEF n
  <2>. QED  BY <2>1, <2>2, <2>3 DEF Spoken
<1>3. CASE ~ (t.emittedLength > 0)
  <2>1. t.emittedLength = 0
    BY <1>1, <1>3
  <2>. QED  BY <1>3, <2>1, FailureSpoken DEF StopOrAnother
<1>. QED  BY <1>2, <1>3

LEMMA AskKeeps ==
  ASSUME VoiceInv, NEW r \in Enquiries, AskModel(r)
  PROVE  VoiceInv'
<1>1. PICK path \in {"send", "stream"}, role \in {"FAST", "STANDARD"} :
        Becomes(r, [at |-> "groq", path |-> path, models |-> Route(role), input |-> "normal",
                    raw |-> <<>>, emittedLength |-> 0, answer |-> <<>>])
  BY DEF AskModel
<1> DEFINE t == [at |-> "groq", path |-> path, models |-> Route(role), input |-> "normal",
                 raw |-> <<>>, emittedLength |-> 0, answer |-> <<>>]
<1>2. /\ DOMAIN t = TurnFields /\ t.at = "groq" /\ t.raw = <<>> /\ t.emittedLength = 0 /\ t.answer = <<>>
  BY DEF TurnFields
<1>3. Becomes(r, t)
  BY <1>1
<1> HIDE DEF t
<1>4. RawSound(<<>>)
  BY DEF RawSound
<1>5. Spoken(t)
  BY <1>2, <1>4, NothingSaid DEF Spoken, Trying
<1>. QED  BY <1>3, <1>5, VoiceStep

LEMMA ComposeKeeps ==
  ASSUME VoiceInv, NEW r \in Enquiries, GroqCompose(r)
  PROVE  VoiceInv'
<1> DEFINE t == request[r]
           n == [t EXCEPT !.at = "answered", !.answer = By(Head(t.models), <<Word>>)]
<1>1. t.at = "groq" /\ t.path = "send"
  BY DEF GroqCompose
<1>2. Spoken(t)
  BY <1>1, VoiceTurn DEF NoRequest
<1>3. t.emittedLength = 0 /\ DOMAIN t = TurnFields
  BY <1>1, <1>2 DEF Spoken, Trying
<1>4. CASE Becomes(r, n)
  <2>1. DOMAIN n = TurnFields /\ n.at = "answered" /\ n.answer = By(Head(t.models), <<Word>>)
    BY <1>3 DEF TurnFields
  <2>2. OneOrTheLast(n.answer)
    BY <2>1, WordSaid DEF OneOrTheLast
  <2> HIDE DEF n
  <2>3. Spoken(n)
    BY <2>1, <2>2 DEF Spoken
  <2>. QED  BY <1>4, <2>3, VoiceStep
<1>5. ASSUME NEW failure \in Failures, Becomes(r, AfterFailure(t, failure))
      PROVE  VoiceInv'
  BY <1>1, <1>2, <1>3, <1>5, FailureSpoken, VoiceStep
<1>. QED  BY <1>4, <1>5 DEF GroqCompose

\* What one model emits of a stream is its answer so far and what has become visible.
LEMMA ChunkKeeps ==
  ASSUME VoiceInv, NEW r \in Enquiries, NEW chunk \in Chunks, GroqChunk(r, chunk)
  PROVE  VoiceInv'
<1> DEFINE t == request[r]
           raw == t.raw \o chunk
           visible == StripReasoning(raw)
           delta == SubSeq(visible, t.emittedLength + 1, Len(visible))
           more == By(Head(t.models), delta)
           n == [t EXCEPT !.raw = raw, !.answer = @ \o more, !.emittedLength = @ + Len(delta)]
<1>1. t.at = "groq" /\ t.path = "stream" /\ MaySend(t.raw, chunk) /\ Becomes(r, n)
  BY DEF GroqChunk
<1>2. Spoken(t)
  BY <1>1, VoiceTurn DEF NoRequest
<1>3. DOMAIN t = TurnFields /\ Trying(t)
  BY <1>1, <1>2 DEF Spoken
<1>4. RawSound(raw)
  BY <1>1, <1>3, SentSound DEF Trying
<1>5. visible \in Seq(Heeded)
  BY <1>4, Stripped
<1>6. delta \in Seq(Heeded)
  <2> DEFINE v == visible
             from == t.emittedLength + 1
  <2>1. v \in Seq(Heeded) /\ from \in 1..(from + 1) /\ from \in Int
    BY <1>3, <1>5 DEF Trying
  <2> HIDE DEF v, from
  <2>2. Len(v) \in Int /\ \A i \in from..Len(v) : v[i] \in Heeded
    BY <2>1
  <2>3. SubSeq(v, from, Len(v)) \in Seq(Heeded)
    BY <2>1, <2>2, SubSeqProperties
  <2>. QED  BY <2>3 DEF v, from
<1> HIDE DEF visible, delta
<1>7. more \in Said({Head(t.models)}) /\ Len(more) = Len(delta) /\ Len(delta) \in Nat
  <2> DEFINE model == Head(t.models)
  <2>1. Len(delta) \in Nat
    BY <1>6
  <2> HIDE DEF model
  <2>2. By(model, delta) \in Said({model}) /\ Len(By(model, delta)) = Len(delta)
    BY <1>6, BySaid
  <2>. QED  BY <2>1, <2>2 DEF model
<1>8. /\ DOMAIN n = TurnFields /\ n.at = "groq" /\ n.path = "stream" /\ n.models = t.models
      /\ n.raw = raw /\ n.answer = t.answer \o more /\ n.emittedLength = t.emittedLength + Len(delta)
  BY <1>1, <1>3 DEF TurnFields
<1>9. n.answer \in Said({Head(n.models)})
  BY <1>3, <1>7, <1>8, SaidOn DEF Trying
<1>10. n.emittedLength = 0 => n.answer = <<>>
  <2> SUFFICES ASSUME n.emittedLength = 0
               PROVE  t.answer \o more = <<>>
    BY <1>8
  <2>1. t.emittedLength = 0 /\ Len(delta) = 0
    BY <1>3, <1>7, <1>8 DEF Trying
  <2>2. t.answer = <<>>
    BY <1>3, <2>1 DEF Trying
  <2>3. more = <<>>
    <3>1. more \in Seq([by : {Head(t.models)}, token : Heeded]) /\ Len(more) = 0
      BY <1>7, <2>1 DEF Said
    <3>. QED  BY <3>1, EmptySeq
  <2>. QED  BY <2>2, <2>3
<1> HIDE DEF n
<1>11. n.emittedLength \in Nat
  BY <1>3, <1>7, <1>8 DEF Trying
<1>12. Spoken(n)
  BY <1>4, <1>8, <1>9, <1>10, <1>11 DEF Spoken, Trying
<1>. QED  BY <1>1, <1>12, VoiceStep

LEMMA EndKeeps ==
  ASSUME VoiceInv, NEW r \in Enquiries, GroqEnd(r) \/ GroqBreaks(r)
  PROVE  VoiceInv'
<1> DEFINE t == request[r]
           n == [t EXCEPT !.at = "answered"]
<1>1. t.at = "groq"
  BY DEF GroqEnd, GroqBreaks
<1>2. Spoken(t)
  BY <1>1, VoiceTurn DEF NoRequest
<1>3. DOMAIN t = TurnFields /\ Trying(t)
  BY <1>1, <1>2 DEF Spoken
<1>4. CASE Becomes(r, n)
  <2>1. DOMAIN n = TurnFields /\ n.at = "answered" /\ n.answer = t.answer
    BY <1>3 DEF TurnFields
  <2>2. OneOrTheLast(n.answer)
    BY <1>3, <2>1 DEF Trying, OneOrTheLast
  <2> HIDE DEF n
  <2>3. Spoken(n)
    BY <2>1, <2>2 DEF Spoken
  <2>. QED  BY <1>4, <2>3, VoiceStep
<1>5. ASSUME NEW failure, Becomes(r, StopOrAnother(t, failure))
      PROVE  VoiceInv'
  <2>1. Spoken(StopOrAnother(t, failure))
    BY <1>1, <1>2, BreakSpoken
  <2>. QED  BY <1>5, <2>1, VoiceStep
<1>6. \/ Becomes(r, n)
      \/ \E failure : Becomes(r, StopOrAnother(t, failure))
  BY DEF GroqEnd, GroqBreaks
<1>. QED  BY <1>4, <1>5, <1>6

LEMMA OpenAIKeeps ==
  ASSUME VoiceInv, NEW r \in Enquiries, OpenAIAnswers(r)
  PROVE  VoiceInv'
<1> DEFINE t == request[r]
           word == By(OpenAI, <<Word>>)
           a == [t EXCEPT !.at = "answered", !.answer = @ \o word]
           b == [t EXCEPT !.at = "workers"]
           c == [t EXCEPT !.at = "workers", !.answer = @ \o word]
<1>1. t.at = "openai"
  BY DEF OpenAIAnswers
<1>2. Spoken(t)
  BY <1>1, VoiceTurn DEF NoRequest
<1>3. DOMAIN t = TurnFields /\ t.answer = <<>>
  BY <1>1, <1>2 DEF Spoken
<1>4. /\ DOMAIN a = TurnFields /\ a.at = "answered" /\ a.answer = <<>> \o word
      /\ DOMAIN b = TurnFields /\ b.at = "workers" /\ b.answer = <<>>
      /\ DOMAIN c = TurnFields /\ c.at = "workers" /\ c.answer = <<>> \o word
  BY <1>3 DEF TurnFields
<1>5. Becomes(r, a) \/ Becomes(r, b) \/ Becomes(r, c)
  BY DEF OpenAIAnswers
<1>6. word \in Said({OpenAI})
  BY WordSaid
<1> HIDE DEF word, a, b, c
<1>7. <<>> \o word \in Said({OpenAI})
  BY <1>6, NothingSaid, SaidOn
<1>8. Spoken(a) /\ Spoken(b) /\ Spoken(c)
  BY <1>4, <1>7, NothingSaid DEF Spoken, OneOrTheLast
<1>. QED  BY <1>5, <1>8, VoiceStep

LEMMA WorkersKeeps ==
  ASSUME VoiceInv, NEW r \in Enquiries, WorkersAnswers(r)
  PROVE  VoiceInv'
<1> DEFINE t == request[r]
           word == By(Workers, <<Word>>)
           a == [t EXCEPT !.at = "answered", !.answer = @ \o word]
           b == [t EXCEPT !.at = "unavailable"]
<1>1. t.at = "workers"
  BY DEF WorkersAnswers
<1>2. Spoken(t)
  BY <1>1, VoiceTurn DEF NoRequest
<1>3. DOMAIN t = TurnFields /\ t.answer \in Said({OpenAI})
  BY <1>1, <1>2 DEF Spoken
<1>4. /\ DOMAIN a = TurnFields /\ a.at = "answered" /\ a.answer = t.answer \o word
      /\ DOMAIN b = TurnFields /\ b.at = "unavailable" /\ b.answer = t.answer
  BY <1>3 DEF TurnFields
<1>5. Becomes(r, a) \/ Becomes(r, b)
  BY DEF WorkersAnswers
<1>6. word \in Said({Workers})
  BY WordSaid
<1> HIDE DEF word, a, b
<1>7. {OpenAI} \subseteq {OpenAI, Workers} /\ {Workers} \subseteq {OpenAI, Workers}
  OBVIOUS
<1>8. t.answer \in Said({OpenAI, Workers}) /\ word \in Said({OpenAI, Workers})
  BY <1>3, <1>6, <1>7, SaidMore
<1>9. t.answer \o word \in Said({OpenAI, Workers})
  BY <1>8, SaidOn
<1>10. Spoken(a) /\ Spoken(b)
  BY <1>4, <1>8, <1>9 DEF Spoken, OneOrTheLast
<1>. QED  BY <1>5, <1>10, VoiceStep

LEMMA DeliverKeeps ==
  ASSUME VoiceInv, NEW r \in Enquiries, Deliver(r)
  PROVE  VoiceInv'
<1> DEFINE t == request[r]
           n == [t EXCEPT !.at = "stored"]
<1>1. t.at = "answered" /\ Becomes(r, n)
  BY DEF Deliver
<1>2. Spoken(t)
  BY <1>1, VoiceTurn DEF NoRequest
<1>3. DOMAIN n = TurnFields /\ n.at = "stored" /\ n.answer = t.answer
  BY <1>2 DEF Spoken, TurnFields
<1>4. OneOrTheLast(t.answer)
  BY <1>1, <1>2 DEF Spoken
<1> HIDE DEF n
<1>5. Spoken(n)
  BY <1>3, <1>4 DEF Spoken
<1>. QED  BY <1>1, <1>5, VoiceStep

LEMMA VoiceKept == VoiceInv /\ [AnswerNext]_answerVars => VoiceInv'
<1> SUFFICES ASSUME VoiceInv, [AnswerNext]_answerVars
             PROVE  VoiceInv'
  OBVIOUS
<1>1. CASE AnswerNext
  <2> PICK r \in Enquiries : AskModel(r) \/ AnswerStep(r)
    BY <1>1 DEF AnswerNext
  <2>. QED
    BY AskKeeps, ComposeKeeps, ChunkKeeps, EndKeeps, OpenAIKeeps, WorkersKeeps, DeliverKeeps DEF AnswerStep
<1>2. CASE UNCHANGED answerVars
  BY <1>2 DEF answerVars, VoiceInv
<1>. QED  BY <1>1, <1>2

\* One model, or the two that are tried in turn, and no thought.
LEMMA SaidIsOneVoice ==
  ASSUME NEW answer, OneOrTheLast(answer)
  PROVE  LET voices == {answer[i].by : i \in DOMAIN answer} IN
         /\ \A i \in DOMAIN answer : answer[i].token # Thought
         /\ voices \subseteq {OpenAI, Workers} \/ \E v \in voices : voices = {v}
<1>1. PICK models : /\ answer \in Said(models)
                    /\ models = {OpenAI, Workers} \/ \E model : models = {model}
  BY DEF OneOrTheLast
<1>2. \A i \in DOMAIN answer : answer[i].by \in models /\ answer[i].token \in Heeded
  <2>1. \A i \in DOMAIN answer : answer[i] \in [by : models, token : Heeded]
    <3> DEFINE R == [by : models, token : Heeded]
    <3>1. answer \in Seq(R)
      BY <1>1 DEF Said
    <3> HIDE DEF R
    <3>2. \A i \in DOMAIN answer : answer[i] \in R
      BY <3>1
    <3>. QED  BY <3>2 DEF R
  <2>. QED  BY <2>1
<1>3. \A i \in DOMAIN answer : answer[i].token # Thought
  BY <1>2 DEF Heeded
<1> DEFINE voices == {answer[i].by : i \in DOMAIN answer}
<1>4. voices \subseteq models
  BY <1>2
<1> HIDE DEF voices
<1>5. voices \subseteq {OpenAI, Workers} \/ \E v \in voices : voices = {v}
  BY <1>1, <1>4
<1>. QED  BY <1>3, <1>5 DEF voices

LEMMA VoicesOne == ASSUME VoiceInv PROVE OneVoice
<1> SUFFICES ASSUME NEW r \in Enquiries
             PROVE  OneOrTheLast(Heard(r))
  BY SaidIsOneVoice DEF OneVoice
<1>1. CASE request[r] = NoRequest
  BY <1>1, NothingSaid DEF Heard, OneOrTheLast
<1>2. CASE request[r] # NoRequest
  <2>1. Spoken(request[r]) /\ Heard(r) = request[r].answer
    BY <1>2, VoiceTurn DEF Heard
  <2>2. \/ \E model : Heard(r) \in Said({model})
        \/ Heard(r) = <<>>
        \/ OneOrTheLast(Heard(r))
    BY <2>1 DEF Spoken, Trying
  <2>. QED  BY <2>2, NothingSaid DEF OneOrTheLast
<1>. QED  BY <1>1, <1>2

\* A customer hears one model, and none of its reasoning, however the stream is cut into
\* chunks, models fail and others take over (HybridAIProvider, GroqProvider.streamAnswer):
\* for any models, any requests and streams of any length.
THEOREM OneVoiceHolds == AnswerSpec => []OneVoice
<1>1. AnswerInit => VoiceInv
  BY DEF AnswerInit, VoiceInv
<1>. QED  BY <1>1, VoiceKept, VoicesOne, PTL DEF AnswerSpec

\* While the Groq models are tried there is one to ask, and as much has been heard as was
\* emitted: something, once something is visible.
Models == {FastModel, StandardModel, BackupModel, LastResortModel}

Answering(t) ==
  /\ t.at = "groq" =>
       /\ t.path \in {"send", "stream"} /\ t.models \in Seq(Models) /\ t.models # <<>>
       /\ Len(t.answer) = t.emittedLength
       /\ StripReasoning(t.raw) # <<>> => t.emittedLength > 0
  /\ t.at \in {"answered", "stored"} => t.answer # <<>>

AnswerInv ==
  VoiceInv /\ \A r \in Enquiries : request[r] = NoRequest \/ Answering(request[r])

LEMMA AnswerTurn ==
  ASSUME AnswerInv, NEW r \in Enquiries, request[r].at # "idle"
  PROVE  Spoken(request[r]) /\ Answering(request[r])
  BY DEF AnswerInv, VoiceInv, NoRequest

LEMMA TurnAnswers ==
  ASSUME AnswerInv, VoiceInv', NEW r \in Enquiries, NEW t, Answering(t), Becomes(r, t)
  PROVE  AnswerInv'
  BY DEF AnswerInv, VoiceInv, Becomes

\* A route names a model.
LEMMA PickedSome ==
  ASSUME NEW raw, NEW N \in Nat, NEW kept \in SUBSET (1..N), NEW i \in kept
  PROVE  Pick(raw, kept) # <<>>
<1>1. IsFiniteSet(kept)
  <2>1. IsFiniteSet(1..N)
    BY FS_Interval
  <2>. QED  BY <2>1, FS_Subset
<1>2. Cardinality(kept) \in Nat \ {0}
  BY <1>1, FS_EmptySet, FS_CardinalityType
<1> DEFINE K == Cardinality(kept)
           at(n) == raw[CHOOSE k \in kept : Cardinality({j \in kept : j <= k}) = n]
           P == [n \in 1..K |-> at(n)]
<1>3. P = Pick(raw, kept)
  BY DEF Pick
<1>4. 1 \in 1..K
  BY <1>2
<1> HIDE DEF K, at
<1>5. DOMAIN P = 1..K
  OBVIOUS
<1> HIDE DEF P
<1>6. P # <<>>
  <2>1. DOMAIN <<>> = {}
    OBVIOUS
  <2>. QED  BY <1>4, <1>5, <2>1
<1>. QED  BY <1>3, <1>6

LEMMA UniqueModels ==
  ASSUME NEW models \in Seq(Models), models # <<>>
  PROVE  Unique(models) \in Seq(Models) /\ Unique(models) # <<>>
<1> DEFINE kept == {i \in DOMAIN models : \A j \in 1..(i - 1) : models[j] # models[i]}
           V == {models[i] : i \in kept}
<1>1. DOMAIN models = 1..Len(models) /\ Len(models) \in Nat \ {0} /\ \A i \in 1..Len(models) : models[i] \in Models
  OBVIOUS
<1>2. kept \in SUBSET (1..Len(models))
  BY <1>1
<1>3. 1 \in kept
  BY <1>1
<1>4. V \subseteq Models
  BY <1>1, <1>2
<1>5. Unique(models) = Pick(models, kept)
  BY DEF Unique
<1> HIDE DEF kept
<1>6. Unique(models) \in Seq(V) /\ Unique(models) # <<>>
  BY <1>1, <1>2, <1>3, <1>5, PickIs, PickedSome
<1> HIDE DEF V
<1>. QED  BY <1>4, <1>6

LEMMA RouteNamed == ASSUME NEW role PROVE Route(role) \in Seq(Models) /\ Route(role) # <<>>
<1> DEFINE long == <<FastModel, StandardModel, BackupModel, LastResortModel>>
           short == <<StandardModel, BackupModel, LastResortModel>>
<1>1. long \in Seq(Models) /\ long # <<>> /\ short \in Seq(Models) /\ short # <<>>
  BY DEF Models
<1>2. Route(role) = Unique(IF role = "FAST" THEN long ELSE short)
  BY DEF Route
<1> HIDE DEF long, short
<1>. QED  BY <1>1, <1>2, UniqueModels

\* No stream: nothing remains of it.
LEMMA NothingVisible == StripReasoning(<<>>) = <<>>
<1>1. Visible(<<>>) = {}
  BY DEF Visible
<1>2. Cardinality({}) = 0
  BY FS_EmptySet
<1> DEFINE at(n) == <<>>[CHOOSE k \in {} : Cardinality({j \in {} : j <= k}) = n]
           P == [n \in 1..0 |-> at(n)]
<1>3. StripReasoning(<<>>) = P
  BY <1>1, <1>2 DEF StripReasoning, Pick
<1> HIDE DEF at
<1>4. DOMAIN P = 1..0 /\ 1..0 = {}
  OBVIOUS
<1>5. P = <<>>
  BY <1>4
<1>. QED  BY <1>3, <1>5

LEMMA FailureAnswers ==
  ASSUME NEW t, Spoken(t), Answering(t), t.at = "groq", t.emittedLength = 0, NEW failure
  PROVE  Answering(AfterFailure(t, failure))
<1> DEFINE rest == Tail(t.models)
<1>1. DOMAIN t = TurnFields /\ t.answer = <<>>
  BY DEF Spoken, Trying
<1>2. t.models \in Seq(Models) /\ t.models # <<>> /\ t.path \in {"send", "stream"}
  BY DEF Answering
<1>3. rest \in Seq(Models)
  <2> DEFINE ms == t.models
             M == Models
  <2> HIDE DEF ms, M
  <2>1. ms \in Seq(M) /\ ms # <<>> => Tail(ms) \in Seq(M)
    OBVIOUS
  <2>. QED  BY <1>2, <2>1 DEF ms, M
<1> HIDE DEF rest
<1> DEFINE n == AfterFailure(t, failure)
<1>4. /\ n.answer = <<>> /\ n.emittedLength = 0 /\ n.raw = <<>> /\ n.path = t.path
      /\ \/ n.at = "groq" /\ n.models = rest /\ rest # <<>>
         \/ n.at = "openai"
         \/ n.at = "workers"
  BY <1>1 DEF AfterFailure, TurnFields, rest
<1> HIDE DEF n
<1>5. Answering(n)
  BY <1>2, <1>3, <1>4, NothingVisible DEF Answering
<1>. QED  BY <1>5 DEF n

LEMMA BreakAnswers ==
  ASSUME NEW t, Spoken(t), Answering(t), t.at = "groq", NEW failure
  PROVE  Answering(StopOrAnother(t, failure))
<1>1. DOMAIN t = TurnFields /\ t.emittedLength \in Nat
  BY DEF Spoken, Trying
<1>2. CASE t.emittedLength > 0
  <2> DEFINE n == [t EXCEPT !.at = "unavailable"]
  <2>1. n.at = "unavailable" /\ StopOrAnother(t, failure) = n
    BY <1>1, <1>2 DEF TurnFields, StopOrAnother
  <2>. QED  BY <2>1 DEF Answering
<1>3. CASE ~ (t.emittedLength > 0)
  <2>1. t.emittedLength = 0
    BY <1>1, <1>3
  <2>. QED  BY <1>3, <2>1, FailureAnswers DEF StopOrAnother
<1>. QED  BY <1>2, <1>3

LEMMA AWordIsSaid ==
  ASSUME NEW A, NEW said \in Said(A), NEW model
  PROVE  said \o By(model, <<Word>>) # <<>> /\ By(model, <<Word>>) # <<>>
<1> DEFINE w == By(model, <<Word>>)
           R == [by : A \cup {model}, token : Heeded]
<1>1. Word \in Heeded
  BY DEF Heeded, Tokens, Word, Thought
<1>2. <<Word>> \in Seq(Heeded) /\ Len(<<Word>>) = 1
  BY <1>1
<1>3. w \in Said({model}) /\ Len(w) = 1
  BY <1>2, BySaid
<1>4. w \in Seq(R) /\ said \in Seq(R)
  <2>1. A \subseteq A \cup {model} /\ {model} \subseteq A \cup {model}
    OBVIOUS
  <2>2. w \in Said(A \cup {model}) /\ said \in Said(A \cup {model})
    BY <1>3, <2>1, SaidMore
  <2>. QED  BY <2>2 DEF Said
<1> HIDE DEF w, R
<1>5. Len(said \o w) = Len(said) + 1 /\ Len(said) \in Nat
  <2>1. Len(said \o w) = Len(said) + Len(w)
    BY <1>4, ConcatProperties
  <2>2. Len(said) \in Nat
    BY <1>4
  <2>. QED  BY <1>3, <2>1, <2>2
<1>6. Len(<<>>) = 0
  OBVIOUS
<1>7. said \o w # <<>>
  BY <1>5, <1>6
<1>8. w # <<>>
  BY <1>3, <1>6
<1>. QED  BY <1>7, <1>8 DEF w

LEMMA AskAnswers ==
  ASSUME AnswerInv, VoiceInv', NEW r \in Enquiries, AskModel(r)
  PROVE  AnswerInv'
<1>1. PICK path \in {"send", "stream"}, role \in {"FAST", "STANDARD"} :
        Becomes(r, [at |-> "groq", path |-> path, models |-> Route(role), input |-> "normal",
                    raw |-> <<>>, emittedLength |-> 0, answer |-> <<>>])
  BY DEF AskModel
<1> DEFINE t == [at |-> "groq", path |-> path, models |-> Route(role), input |-> "normal",
                 raw |-> <<>>, emittedLength |-> 0, answer |-> <<>>]
<1>2. t.at = "groq" /\ t.path = path /\ t.models = Route(role) /\ t.raw = <<>> /\ t.emittedLength = 0
      /\ t.answer = <<>>
  OBVIOUS
<1>3. Becomes(r, t)
  BY <1>1
<1> HIDE DEF t
<1>4. Answering(t)
  BY <1>2, RouteNamed, NothingVisible DEF Answering
<1>. QED  BY <1>3, <1>4, TurnAnswers

LEMMA ComposeAnswers ==
  ASSUME AnswerInv, VoiceInv', NEW r \in Enquiries, GroqCompose(r)
  PROVE  AnswerInv'
<1> DEFINE t == request[r]
           n == [t EXCEPT !.at = "answered", !.answer = By(Head(t.models), <<Word>>)]
<1>1. t.at = "groq" /\ t.path = "send"
  BY DEF GroqCompose
<1>2. Spoken(t) /\ Answering(t)
  BY <1>1, AnswerTurn
<1>3. t.emittedLength = 0 /\ DOMAIN t = TurnFields
  BY <1>1, <1>2 DEF Spoken, Trying
<1>4. CASE Becomes(r, n)
  <2>1. n.at = "answered" /\ n.answer = By(Head(t.models), <<Word>>)
    BY <1>3 DEF TurnFields
  <2>2. <<>> \in Said({})
    BY NothingSaid
  <2>3. n.answer # <<>>
    BY <2>1, <2>2, AWordIsSaid
  <2> HIDE DEF n
  <2>4. Answering(n)
    BY <2>1, <2>3 DEF Answering
  <2>. QED  BY <1>4, <2>4, TurnAnswers
<1>5. ASSUME NEW failure \in Failures, Becomes(r, AfterFailure(t, failure))
      PROVE  AnswerInv'
  BY <1>1, <1>2, <1>3, <1>5, FailureAnswers, TurnAnswers
<1>. QED  BY <1>4, <1>5 DEF GroqCompose

LEMMA ChunkAnswers ==
  ASSUME AnswerInv, VoiceInv', NEW r \in Enquiries, NEW chunk \in Chunks, GroqChunk(r, chunk)
  PROVE  AnswerInv'
<1> DEFINE t == request[r]
           raw == t.raw \o chunk
           visible == StripReasoning(raw)
           delta == SubSeq(visible, t.emittedLength + 1, Len(visible))
           more == By(Head(t.models), delta)
           n == [t EXCEPT !.raw = raw, !.answer = @ \o more, !.emittedLength = @ + Len(delta)]
<1>1. t.at = "groq" /\ t.path = "stream" /\ MaySend(t.raw, chunk) /\ Becomes(r, n)
  BY DEF GroqChunk
<1>2. Spoken(t) /\ Answering(t)
  BY <1>1, AnswerTurn
<1>3. DOMAIN t = TurnFields /\ Trying(t)
  BY <1>1, <1>2 DEF Spoken
<1>4. RawSound(raw)
  BY <1>1, <1>3, SentSound DEF Trying
<1>5. visible \in Seq(Heeded)
  BY <1>4, Stripped
<1>6. /\ delta \in Seq(Heeded)
      /\ t.emittedLength = 0 => delta = visible
  <2> DEFINE v == visible
             from == t.emittedLength + 1
  <2>1. v \in Seq(Heeded) /\ from \in 1..(from + 1) /\ from \in Int /\ (t.emittedLength = 0 => from = 1)
    BY <1>3, <1>5 DEF Trying
  <2> HIDE DEF v, from
  <2>2. Len(v) \in Int /\ \A i \in from..Len(v) : v[i] \in Heeded
    BY <2>1
  <2>3. SubSeq(v, from, Len(v)) \in Seq(Heeded)
    BY <2>1, <2>2, SubSeqProperties
  <2>4. SubSeq(v, 1, Len(v)) = v
    BY <2>1
  <2>. QED  BY <2>1, <2>3, <2>4 DEF v, from
<1> HIDE DEF visible, delta
<1>7. more \in Said({Head(t.models)}) /\ Len(more) = Len(delta) /\ Len(delta) \in Nat
  <2> DEFINE model == Head(t.models)
  <2>1. Len(delta) \in Nat
    BY <1>6
  <2> HIDE DEF model
  <2>2. By(model, delta) \in Said({model}) /\ Len(By(model, delta)) = Len(delta)
    BY <1>6, BySaid
  <2>. QED  BY <2>1, <2>2 DEF model
<1>8. /\ n.at = "groq" /\ n.path = "stream" /\ n.models = t.models
      /\ n.raw = raw /\ n.answer = t.answer \o more /\ n.emittedLength = t.emittedLength + Len(delta)
  BY <1>1, <1>3 DEF TurnFields
<1>9. t.emittedLength \in Nat /\ Len(t.answer) = t.emittedLength
  BY <1>1, <1>2, <1>3 DEF Trying, Answering
<1>10. Len(n.answer) = n.emittedLength
  <2> DEFINE R == [by : {Head(t.models)}, token : Heeded]
             said == t.answer
  <2>1. said \in Seq(R) /\ more \in Seq(R)
    BY <1>3, <1>7 DEF Trying, Said
  <2> HIDE DEF R, more, said
  <2>2. Len(said \o more) = Len(said) + Len(more)
    BY <2>1
  <2>. QED  BY <1>7, <1>8, <1>9, <2>2 DEF said
<1>11. visible # <<>> => n.emittedLength > 0
  <2>1. visible # <<>> => Len(visible) > 0
    BY <1>5
  <2>2. CASE t.emittedLength = 0
    BY <1>6, <1>8, <2>1, <2>2
  <2>3. CASE t.emittedLength # 0
    BY <1>7, <1>8, <1>9, <2>3
  <2>. QED  BY <2>2, <2>3
<1> HIDE DEF n
<1>12. n.models \in Seq(Models) /\ n.models # <<>>
  BY <1>1, <1>2, <1>8 DEF Answering
<1>13. Answering(n)
  BY <1>8, <1>10, <1>11, <1>12 DEF Answering, visible
<1>. QED  BY <1>1, <1>13, TurnAnswers

LEMMA EndAnswers ==
  ASSUME AnswerInv, VoiceInv', NEW r \in Enquiries, GroqEnd(r) \/ GroqBreaks(r)
  PROVE  AnswerInv'
<1> DEFINE t == request[r]
           n == [t EXCEPT !.at = "answered"]
<1>1. t.at = "groq"
  BY DEF GroqEnd, GroqBreaks
<1>2. Spoken(t) /\ Answering(t)
  BY <1>1, AnswerTurn
<1>3. DOMAIN t = TurnFields /\ t.emittedLength \in Nat /\ Len(t.answer) = t.emittedLength
  BY <1>1, <1>2 DEF Spoken, Trying, Answering
<1>4. CASE StripReasoning(t.raw) # <<>> /\ Becomes(r, n)
  <2>1. n.at = "answered" /\ n.answer = t.answer
    BY <1>3 DEF TurnFields
  <2>2. t.answer # <<>>
    <3>1. Len(t.answer) > 0
      BY <1>1, <1>2, <1>3, <1>4 DEF Answering
    <3>2. Len(<<>>) = 0
      OBVIOUS
    <3>. QED  BY <3>1, <3>2
  <2> HIDE DEF n
  <2>3. Answering(n)
    BY <2>1, <2>2 DEF Answering
  <2>. QED  BY <1>4, <2>3, TurnAnswers
<1>5. ASSUME NEW failure, Becomes(r, StopOrAnother(t, failure))
      PROVE  AnswerInv'
  BY <1>1, <1>2, <1>5, BreakAnswers, TurnAnswers
<1>6. \/ StripReasoning(t.raw) # <<>> /\ Becomes(r, n)
      \/ \E failure : Becomes(r, StopOrAnother(t, failure))
  BY DEF GroqEnd, GroqBreaks
<1>. QED  BY <1>4, <1>5, <1>6

LEMMA OthersAnswer ==
  ASSUME AnswerInv, VoiceInv', NEW r \in Enquiries, OpenAIAnswers(r) \/ WorkersAnswers(r)
  PROVE  AnswerInv'
<1> DEFINE t == request[r]
           word == By(OpenAI, <<Word>>)
           last == By(Workers, <<Word>>)
           a == [t EXCEPT !.at = "answered", !.answer = @ \o word]
           b == [t EXCEPT !.at = "workers"]
           c == [t EXCEPT !.at = "workers", !.answer = @ \o word]
           d == [t EXCEPT !.at = "answered", !.answer = @ \o last]
           e == [t EXCEPT !.at = "unavailable"]
<1>1. t.at \in {"openai", "workers"}
  BY DEF OpenAIAnswers, WorkersAnswers
<1>2. Spoken(t)
  BY <1>1, AnswerTurn
<1>3. DOMAIN t = TurnFields /\ t.answer \in Said({OpenAI})
  BY <1>1, <1>2, NothingSaid DEF Spoken
<1>4. /\ a.at = "answered" /\ a.answer = t.answer \o word
      /\ b.at = "workers" /\ c.at = "workers"
      /\ d.at = "answered" /\ d.answer = t.answer \o last
      /\ e.at = "unavailable"
  BY <1>3 DEF TurnFields
<1>5. Becomes(r, a) \/ Becomes(r, b) \/ Becomes(r, c) \/ Becomes(r, d) \/ Becomes(r, e)
  BY DEF OpenAIAnswers, WorkersAnswers
<1>6. t.answer \o word # <<>> /\ t.answer \o last # <<>>
  BY <1>3, AWordIsSaid
<1> HIDE DEF word, last, a, b, c, d, e
<1>7. Answering(a) /\ Answering(b) /\ Answering(c) /\ Answering(d) /\ Answering(e)
  BY <1>4, <1>6 DEF Answering
<1>. QED  BY <1>5, <1>7, TurnAnswers

LEMMA DeliverAnswers ==
  ASSUME AnswerInv, VoiceInv', NEW r \in Enquiries, Deliver(r)
  PROVE  AnswerInv'
<1> DEFINE t == request[r]
           n == [t EXCEPT !.at = "stored"]
<1>1. t.at = "answered" /\ Becomes(r, n)
  BY DEF Deliver
<1>2. Spoken(t) /\ Answering(t)
  BY <1>1, AnswerTurn
<1>3. n.at = "stored" /\ n.answer = t.answer
  BY <1>2 DEF Spoken, TurnFields
<1> HIDE DEF n
<1>4. Answering(n)
  BY <1>1, <1>2, <1>3 DEF Answering
<1>. QED  BY <1>1, <1>4, TurnAnswers

LEMMA AnswerKept == AnswerInv /\ [AnswerNext]_answerVars => AnswerInv'
<1> SUFFICES ASSUME AnswerInv, [AnswerNext]_answerVars
             PROVE  AnswerInv'
  OBVIOUS
<1>1. VoiceInv'
  BY VoiceKept DEF AnswerInv
<1>2. CASE AnswerNext
  <2> PICK r \in Enquiries : AskModel(r) \/ AnswerStep(r)
    BY <1>2 DEF AnswerNext
  <2>. QED
    BY <1>1, AskAnswers, ComposeAnswers, ChunkAnswers, EndAnswers, OthersAnswer, DeliverAnswers DEF AnswerStep
<1>3. CASE UNCHANGED answerVars
  BY <1>1, <1>3 DEF answerVars, AnswerInv
<1>. QED  BY <1>2, <1>3

\* A request the Groq models still serve has a model to ask, and one that is answered has an
\* answer, whatever was stripped of it: for any models and streams of any length.
THEOREM AnswersGiven == AnswerSpec => []AnswersTyped
<1>1. AnswerInit => AnswerInv
  BY DEF AnswerInit, AnswerInv, VoiceInv
<1>2. AnswerInv => AnswersTyped
  BY DEF AnswerInv, Answering, AnswersTyped, Heard
<1>. QED  BY <1>1, <1>2, AnswerKept, PTL DEF AnswerSpec

-----------------------------------------------------------------------------
(* PropertySearch *)

\* A pool has one row of each unit in it.
Pools ==
  {P \in SUBSET PoolRows : IsFiniteSet(P) /\ \A x, y \in P : x.id = y.id => x = y}

CacheEntries == [key : {Key(r) : r \in Requirements}, pool : Pools, left : 0..CacheTtl]

\* What a reader has at each step: the answer is a ranking of some pool.
ReaderSound(s) ==
  \/ s = NotSearching
  \/ s.step = "loading" /\ s.req \in Requirements
  \/ s.step = "loaded" /\ s.req \in Requirements /\ s.pool \in Pools
  \/ s.step = "answered" /\ s.req \in Requirements /\ \E P \in Pools : s.answer = Ranked(s.req, P)

SearchInv ==
  /\ unit \in [Listings -> [price : Prices, open : BOOLEAN]]
  /\ entries \in Seq(CacheEntries)
  /\ DOMAIN search = Readers
  /\ \A p \in Readers : ReaderSound(search[p])

\* The ranking is a strict order of the units of a pool, whatever is asked for.
LEMMA BeforeOrders ==
  ASSUME NEW r \in Requirements, NEW P \in Pools, NEW good \in SUBSET P,
         NEW R, \A x, y \in good : <<x, y>> \in R <=> Before(r, x, y)
  PROVE  Orders(R, good)
<1>1. \A x \in good : x.price \in Nat /\ x.id \in Nat
  <2>1. \A x \in good : x \in PoolRows
    BY DEF Pools
  <2>2. \A x \in PoolRows : x.price \in Prices /\ x.id \in Listings
    BY DEF PoolRows
  <2>. QED  BY <2>1, <2>2, SearchAssumption
<1>2. \A x, y \in good : x # y => x.id # y.id
  BY DEF Pools
<1>3. \A x \in good : MatchScore(r, x) \in Nat
  BY DEF MatchScore
<1> DEFINE score(x) == MatchScore(r, x)
           d == Dearest(r)
<1>4. \A x, y \in good : Before(r, x, y) <=>
        IF d /\ x.price # y.price THEN x.price > y.price
        ELSE score(x) > score(y) \/ (score(x) = score(y) /\ x.id < y.id)
  BY DEF Before, RanksHigher
<1> HIDE DEF score, d
<1>5. \A x \in good : score(x) \in Nat
  BY <1>3 DEF score
<1>6. \A x \in good : <<x, x>> \notin R
  BY <1>1, <1>4, <1>5
<1>7. \A x, y \in good : x # y => <<x, y>> \in R \/ <<y, x>> \in R
  <2> SUFFICES ASSUME NEW x \in good, NEW y \in good, x # y
               PROVE  Before(r, x, y) \/ Before(r, y, x)
    OBVIOUS
  <2>1. x.price \in Nat /\ y.price \in Nat /\ x.id \in Nat /\ y.id \in Nat /\ x.id # y.id
    BY <1>1, <1>2
  <2>2. score(x) \in Nat /\ score(y) \in Nat
    BY <1>5
  <2>. QED  BY <1>4, <2>1, <2>2
<1>8. \A x, y, z \in good : <<x, y>> \in R /\ <<y, z>> \in R => <<x, z>> \in R
  <2> SUFFICES ASSUME NEW x \in good, NEW y \in good, NEW z \in good, Before(r, x, y), Before(r, y, z)
               PROVE  Before(r, x, z)
    OBVIOUS
  <2>1. /\ x.price \in Nat /\ y.price \in Nat /\ z.price \in Nat
        /\ x.id \in Nat /\ y.id \in Nat /\ z.id \in Nat
    BY <1>1
  <2>2. score(x) \in Nat /\ score(y) \in Nat /\ score(z) \in Nat
    BY <1>5
  <2>3. /\ IF d /\ x.price # y.price THEN x.price > y.price
           ELSE score(x) > score(y) \/ (score(x) = score(y) /\ x.id < y.id)
        /\ IF d /\ y.price # z.price THEN y.price > z.price
           ELSE score(y) > score(z) \/ (score(y) = score(z) /\ y.id < z.id)
    BY <1>4
  <2>4. IF d /\ x.price # z.price THEN x.price > z.price
        ELSE score(x) > score(z) \/ (score(x) = score(z) /\ x.id < z.id)
    BY <2>1, <2>2, <2>3
  <2>. QED  BY <1>4, <2>4
<1>. QED  BY <1>6, <1>7, <1>8 DEF Orders

\* What is shown of a pool are units that were checked, no more than the limit.
LEMMA RankedIs ==
  ASSUME NEW r \in Requirements, NEW P \in Pools
  PROVE  /\ Len(Ranked(r, P)) <= Limit
         /\ \A i \in DOMAIN Ranked(r, P) : Ranked(r, P)[i] \in P /\ Validated(r, Ranked(r, P)[i])
<1> DEFINE good == {x \in P : Validated(r, x)}
           C == Cardinality(good)
           shown == IF C < Limit THEN C ELSE Limit
           R == {p \in good \X good : Before(r, p[1], p[2])}
           at(n) == CHOOSE x \in good : Cardinality({y \in good : Before(r, y, x)}) = n - 1
<1>1. IsFiniteSet(good) /\ C \in Nat
  <2>1. IsFiniteSet(P) /\ good \in SUBSET P
    BY DEF Pools
  <2> HIDE DEF good
  <2>2. IsFiniteSet(good)
    BY <2>1, FS_Subset
  <2>. QED  BY <2>2, FS_CardinalityType
<1>2. \A x, y \in good : <<x, y>> \in R <=> Before(r, x, y)
  OBVIOUS
<1>3. \A x \in good : x \in P /\ Validated(r, x)
  OBVIOUS
<1>4. Ranked(r, P) = [n \in 1..shown |-> at(n)]
  BY DEF Ranked
<1>0. good \in SUBSET P
  OBVIOUS
<1> HIDE DEF good, R
<1>5. Orders(R, good)
  BY <1>0, <1>2, BeforeOrders
<1>6. \A n \in Nat : n < Cardinality(good) => \E x \in good : Cardinality(Ahead(R, good, x)) = n
  BY <1>1, <1>5, RankExists
<1>7. \A x \in good : Ahead(R, good, x) = {y \in good : Before(r, y, x)}
  BY <1>2 DEF Ahead
<1>8. shown \in Nat /\ shown <= Limit /\ shown <= C
  BY <1>1, SearchAssumption
<1>9. \A n \in 1..shown : at(n) \in good
  <2> SUFFICES ASSUME NEW n \in 1..shown
               PROVE  \E x \in good : Cardinality({y \in good : Before(r, y, x)}) = n - 1
    OBVIOUS
  <2>1. n - 1 \in Nat /\ n - 1 < Cardinality(good)
    BY <1>1, <1>8
  <2>2. PICK x \in good : Cardinality(Ahead(R, good, x)) = n - 1
    BY <1>6, <2>1
  <2>. QED  BY <1>7, <2>2
<1> HIDE DEF at, shown
<1>10. Len(Ranked(r, P)) = shown /\ DOMAIN Ranked(r, P) = 1..shown
  BY <1>4, <1>8
<1>11. \A i \in DOMAIN Ranked(r, P) : Ranked(r, P)[i] \in good
  BY <1>4, <1>9, <1>10
<1>. QED  BY <1>3, <1>8, <1>10, <1>11

LEMMA PoolFetched ==
  ASSUME unit \in [Listings -> [price : Prices, open : BOOLEAN]], NEW r \in Requirements
  PROVE  Fetch(r) \in Pools
<1> DEFINE fetched == {UnitRow(u) : u \in Where(r)}
<1>1. Where(r) \in SUBSET Listings /\ IsFiniteSet(Where(r))
  <2>1. Where(r) \in SUBSET Listings
    BY DEF Where
  <2>. QED  BY <2>1, SearchAssumption, FS_Subset
<1>2. IsFiniteSet(fetched)
  <2> DEFINE f == [u \in Where(r) |-> UnitRow(u)]
  <2>1. f \in Surjection(Where(r), fetched)
    BY DEF Surjection
  <2> HIDE DEF f, fetched
  <2>. QED  BY <1>1, <2>1, FS_Surjection
<1>3. fetched \in SUBSET PoolRows
  <2> SUFFICES ASSUME NEW u \in Listings
               PROVE  UnitRow(u) \in PoolRows
    BY <1>1
  <2>1. unit[u] \in [price : Prices, open : BOOLEAN]
    OBVIOUS
  <2>. QED  BY <2>1 DEF UnitRow, PoolRows
<1>4. \A x, y \in fetched : x.id = y.id => x = y
  BY DEF UnitRow
<1>5. Fetch(r) \in SUBSET fetched
  BY DEF Fetch
<1> HIDE DEF fetched
<1>6. IsFiniteSet(Fetch(r))
  BY <1>2, <1>5, FS_Subset
<1>. QED  BY <1>3, <1>4, <1>5, <1>6 DEF Pools

LEMMA WithoutIs ==
  ASSUME entries \in Seq(CacheEntries), NEW key
  PROVE  EntriesWithout(key) \in Seq(CacheEntries)
  BY FilteredIs DEF EntriesWithout

LEMMA WithIs ==
  ASSUME entries \in Seq(CacheEntries), NEW r \in Requirements, NEW pool \in Pools
  PROVE  EntriesWith(Key(r), pool) \in Seq(CacheEntries)
<1> DEFINE e == [key |-> Key(r), pool |-> pool, left |-> CacheTtl]
           E == CacheEntries
           s == Append(EntriesWithout(Key(r)), e)
           from == IF Len(s) > MaxEntries THEN 2 ELSE 1
<1>1. e \in E
  BY SearchAssumption DEF CacheEntries
<1>2. EntriesWithout(Key(r)) \in Seq(E)
  BY WithoutIs
<1>3. EntriesWith(Key(r), pool) = SubSeq(s, from, Len(s))
  BY DEF EntriesWith
<1> HIDE DEF e, E
<1>4. s \in Seq(E)
  BY <1>1, <1>2
<1> HIDE DEF s
<1>5. Len(s) \in Int /\ from \in {1, 2} /\ \A i \in from..Len(s) : s[i] \in E
  BY <1>4
<1> HIDE DEF from
<1>6. SubSeq(s, from, Len(s)) \in Seq(E)
  BY <1>5, SubSeqProperties
<1>. QED  BY <1>3, <1>6 DEF E

\* A reader that moves on as it may keeps the invariant of the readers.
LEMMA SearchingStep ==
  ASSUME SearchInv, NEW p \in Readers, NEW s, ReaderSound(s), search' = [search EXCEPT ![p] = s]
  PROVE  DOMAIN search' = Readers /\ \A q \in Readers : ReaderSound(search'[q])
  BY DEF SearchInv

LEMMA PropertiesKeep ==
  ASSUME SearchInv, NEW p \in Readers, NEW r \in Requirements, SearchProperties(p, r)
  PROVE  SearchInv'
<1>1. unit' = unit
  BY DEF SearchProperties
<1>2. entries \in Seq(CacheEntries)
  BY DEF SearchInv
<1>3. EntriesWithout(Key(r)) \in Seq(CacheEntries)
  BY <1>2, WithoutIs
<1>4. CASE Live(Key(r)) # {}
  <2>1. PICK i \in Live(Key(r)) :
          /\ entries' = Append(EntriesWithout(Key(r)), entries[i])
          /\ search' = [search EXCEPT ![p] =
               [step |-> "answered", req |-> r, answer |-> Ranked(r, entries[i].pool)]]
    BY <1>4 DEF SearchProperties
  <2>2. entries[i] \in CacheEntries
    <3> DEFINE E == CacheEntries
    <3>1. i \in DOMAIN entries /\ entries \in Seq(E)
      BY <1>2 DEF Live
    <3> HIDE DEF E
    <3>2. entries[i] \in E
      BY <3>1
    <3>. QED  BY <3>2 DEF E
  <2>3. entries[i].pool \in Pools
    BY <2>2 DEF CacheEntries
  <2>4. entries' \in Seq(CacheEntries)
    <3> DEFINE E == CacheEntries
    <3>1. EntriesWithout(Key(r)) \in Seq(E) /\ entries[i] \in E
      BY <1>3, <2>2
    <3> HIDE DEF E
    <3>2. Append(EntriesWithout(Key(r)), entries[i]) \in Seq(E)
      BY <3>1
    <3>. QED  BY <2>1, <3>2 DEF E
  <2>5. ReaderSound([step |-> "answered", req |-> r, answer |-> Ranked(r, entries[i].pool)])
    BY <2>3 DEF ReaderSound
  <2>6. DOMAIN search' = Readers /\ \A q \in Readers : ReaderSound(search'[q])
    BY <2>1, <2>5, SearchingStep
  <2>. QED  BY <1>1, <2>4, <2>6 DEF SearchInv, ReaderSound
<1>5. CASE Live(Key(r)) = {}
  <2>1. /\ entries' = EntriesWithout(Key(r))
        /\ search' = [search EXCEPT ![p] = [step |-> "loading", req |-> r]]
    BY <1>5 DEF SearchProperties
  <2>2. ReaderSound([step |-> "loading", req |-> r])
    BY DEF ReaderSound
  <2>3. DOMAIN search' = Readers /\ \A q \in Readers : ReaderSound(search'[q])
    BY <2>1, <2>2, SearchingStep
  <2>. QED  BY <1>1, <1>3, <2>1, <2>3 DEF SearchInv, ReaderSound
<1>. QED  BY <1>4, <1>5

LEMMA LoadKeeps ==
  ASSUME SearchInv, NEW p \in Readers, Load(p)
  PROVE  SearchInv'
<1> DEFINE r == search[p].req
           s == [step |-> "loaded", req |-> r, pool |-> Fetch(r)]
<1>1. search[p].step = "loading" /\ unit' = unit /\ entries' = entries /\ search' = [search EXCEPT ![p] = s]
  BY DEF Load
<1>2. r \in Requirements
  BY <1>1 DEF SearchInv, ReaderSound, NotSearching
<1>3. ReaderSound(s)
  BY <1>2, PoolFetched DEF ReaderSound, SearchInv
<1> HIDE DEF s
<1>4. DOMAIN search' = Readers /\ \A q \in Readers : ReaderSound(search'[q])
  BY <1>1, <1>3, SearchingStep
<1>. QED  BY <1>1, <1>4 DEF SearchInv, ReaderSound

LEMMA StoreKeeps ==
  ASSUME SearchInv, NEW p \in Readers, Store(p)
  PROVE  SearchInv'
<1> DEFINE r == search[p].req
           s == [step |-> "answered", req |-> r, answer |-> Ranked(r, search[p].pool)]
<1>1. /\ search[p].step = "loaded" /\ unit' = unit /\ search' = [search EXCEPT ![p] = s]
      /\ entries' = EntriesWith(Key(r), search[p].pool)
  BY DEF Store
<1>2. r \in Requirements /\ search[p].pool \in Pools
  BY <1>1 DEF SearchInv, ReaderSound, NotSearching
<1>3. ReaderSound(s)
  BY <1>2 DEF ReaderSound
<1>4. entries' \in Seq(CacheEntries)
  BY <1>1, <1>2, WithIs DEF SearchInv
<1> HIDE DEF s
<1>5. DOMAIN search' = Readers /\ \A q \in Readers : ReaderSound(search'[q])
  BY <1>1, <1>3, SearchingStep
<1>. QED  BY <1>1, <1>4, <1>5 DEF SearchInv, ReaderSound

LEMMA CommitKeeps ==
  ASSUME SearchInv, NEW u \in Listings, NEW row \in [price : Prices, open : BOOLEAN], CommitUnit(u, row)
  PROVE  SearchInv'
<1>1. unit' = [unit EXCEPT ![u] = row] /\ entries' = entries /\ search' = search
  BY DEF CommitUnit
<1>2. unit' \in [Listings -> [price : Prices, open : BOOLEAN]]
  BY <1>1 DEF SearchInv
<1>. QED  BY <1>1, <1>2 DEF SearchInv, ReaderSound

LEMMA AgeKeeps ==
  ASSUME SearchInv, EntriesAge
  PROVE  SearchInv'
<1> DEFINE E == CacheEntries
           older(i) == [entries[i] EXCEPT !.left = IF entries[i].left > 0 THEN entries[i].left - 1 ELSE 0]
<1>1. entries' = [i \in DOMAIN entries |-> older(i)] /\ unit' = unit /\ search' = search
  BY DEF EntriesAge
<1>2. entries \in Seq(E)
  BY DEF SearchInv
<1>3. \A i \in DOMAIN entries : older(i) \in E
  <2> SUFFICES ASSUME NEW i \in DOMAIN entries
               PROVE  older(i) \in E
    OBVIOUS
  <2>1. entries[i] \in E
    <3> HIDE DEF E
    <3>. QED  BY <1>2
  <2>2. entries[i].left \in 0..CacheTtl
    BY <2>1 DEF CacheEntries
  <2>3. (IF entries[i].left > 0 THEN entries[i].left - 1 ELSE 0) \in 0..CacheTtl
    BY <2>2, SearchAssumption
  <2>. QED  BY <2>1, <2>3 DEF CacheEntries
<1> HIDE DEF E, older
<1>4. [i \in DOMAIN entries |-> older(i)] \in Seq(E)
  <2>1. DOMAIN entries = 1..Len(entries) /\ Len(entries) \in Nat
    BY <1>2
  <2>. QED  BY <1>3, <2>1
<1>. QED  BY <1>1, <1>4 DEF SearchInv, ReaderSound, E

LEMMA SearchStart == SearchInit => SearchInv
<1> SUFFICES ASSUME SearchInit
             PROVE  SearchInv
  OBVIOUS
<1>1. \E x \in Prices : \A y \in Prices : x <= y
  BY SearchAssumption, LeastNatural
<1>2. unit \in [Listings -> [price : Prices, open : BOOLEAN]]
  BY <1>1 DEF SearchInit
<1>3. entries \in Seq(CacheEntries)
  BY DEF SearchInit
<1>. QED  BY <1>2, <1>3 DEF SearchInit, SearchInv, ReaderSound

LEMMA SearchKept == SearchInv /\ [SearchNext]_searchVars => SearchInv'
<1> SUFFICES ASSUME SearchInv, [SearchNext]_searchVars
             PROVE  SearchInv'
  OBVIOUS
<1>1. ASSUME NEW p \in Readers, NEW r \in Requirements, SearchProperties(p, r)
      PROVE  SearchInv'
  BY <1>1, PropertiesKeep
<1>2. ASSUME NEW p \in Readers, Load(p) \/ Store(p)
      PROVE  SearchInv'
  BY <1>2, LoadKeeps, StoreKeeps
<1>3. ASSUME NEW p \in Readers, QueryFails(p)
      PROVE  SearchInv'
  <2>1. ReaderSound(NotSearching)
    BY DEF ReaderSound
  <2>2. unit' = unit /\ entries' = entries /\ search' = [search EXCEPT ![p] = NotSearching]
    BY <1>3 DEF QueryFails
  <2>3. DOMAIN search' = Readers /\ \A q \in Readers : ReaderSound(search'[q])
    BY <2>1, <2>2, SearchingStep
  <2>. QED  BY <2>2, <2>3 DEF SearchInv, ReaderSound
<1>4. CASE UpdatePrice
  <2>1. PICK u \in Listings, x \in Prices : CommitUnit(u, [unit[u] EXCEPT !.price = x])
    BY <1>4 DEF UpdatePrice
  <2>2. [unit[u] EXCEPT !.price = x] \in [price : Prices, open : BOOLEAN]
    BY DEF SearchInv
  <2>. QED  BY <2>1, <2>2, CommitKeeps
<1>5. CASE BulkUnits
  <2>1. PICK u \in Listings, x \in BOOLEAN : CommitUnit(u, [unit[u] EXCEPT !.open = x])
    BY <1>5 DEF BulkUnits
  <2>2. [unit[u] EXCEPT !.open = x] \in [price : Prices, open : BOOLEAN]
    BY DEF SearchInv
  <2>. QED  BY <2>1, <2>2, CommitKeeps
<1>6. CASE InvalidateCustomerData \/ AuditFails
  <2>1. unit' = unit /\ search' = search /\ (entries' = <<>> \/ entries' = entries)
    BY <1>6 DEF InvalidateCustomerData, AuditFails
  <2>0. entries \in Seq(CacheEntries) /\ <<>> \in Seq(CacheEntries)
    BY DEF SearchInv
  <2>2. entries' \in Seq(CacheEntries)
    BY <2>0, <2>1
  <2>. QED  BY <2>1, <2>2 DEF SearchInv, ReaderSound
<1>7. CASE Restart
  <2>1. unit' = unit /\ entries' = <<>> /\ search' = [p \in Readers |-> NotSearching]
    BY <1>7 DEF Restart
  <2>2. entries' \in Seq(CacheEntries)
    BY <2>1
  <2>. QED  BY <2>1, <2>2 DEF SearchInv, ReaderSound
<1>8. CASE UNCHANGED searchVars
  BY <1>8 DEF searchVars, SearchInv, ReaderSound
<1>. QED  BY <1>1, <1>2, <1>3, <1>4, <1>5, <1>6, <1>7, <1>8, AgeKeeps DEF SearchNext

LEMMA SearchMeets == ASSUME SearchInv PROVE UnitsMeetRequirement
<1> SUFFICES ASSUME NEW p \in Readers, search[p].step = "answered"
             PROVE  LET r == search[p].req  a == search[p].answer IN
                    /\ Len(a) <= Limit
                    /\ \A i \in DOMAIN a : /\ a[i].open
                                           /\ r.hard => a[i].price <= r.max
                                           /\ r.baths => a[i].id \in TwoBaths
  BY DEF UnitsMeetRequirement
<1> DEFINE r == search[p].req
           a == search[p].answer
<1>1. r \in Requirements /\ \E P \in Pools : a = Ranked(r, P)
  BY DEF SearchInv, ReaderSound, NotSearching
<1>2. PICK P \in Pools : a = Ranked(r, P)
  BY <1>1
<1> HIDE DEF r, a
<1>3. Len(a) <= Limit /\ \A i \in DOMAIN a : Validated(r, a[i])
  BY <1>1, <1>2, RankedIs
<1>4. r.hard => r.max # Anything
  BY <1>1 DEF Requirements
<1>5. \A i \in DOMAIN a : /\ a[i].open
                          /\ r.hard => a[i].price <= r.max
                          /\ r.baths => a[i].id \in TwoBaths
  BY <1>3, <1>4 DEF Validated, WithinBudget, HardCeiling
<1>. QED  BY <1>3, <1>5 DEF r, a

\* Entries of different keys, which a filter keeps apart.
KeysApart(s) == \A i, j \in DOMAIN s : s[i].key = s[j].key => i = j

KeptOf(F, s, S, k) ==
  /\ Len(F) \in 0..k
  /\ (\E i \in 1..k : s[i] \notin S) => Len(F) < k
  /\ \A i \in 1..Len(F) : \E m \in 1..k : F[i] = s[m] /\ s[m] \in S
  /\ KeysApart(F)

LEMMA FilteredKeys ==
  ASSUME NEW A, NEW s \in Seq(A), NEW S, KeysApart(s)
  PROVE  KeptOf(Filtered(s, S), s, S, Len(s))
<1> DEFINE N == Len(s)
<1>1. N \in Nat /\ DOMAIN s = 1..N
  OBVIOUS
<1>2. PICK f : /\ f = CHOOSE g : Filtering(g, s, S, N)
               /\ Filtering(f, s, S, N)
  BY <1>1, FilteringExists
<1>3. Filtered(s, S) = f[N]
  BY <1>2 DEF Filtered, Filtering
<1>4. \A k \in 0..N : f[k] = IF k = 0 THEN <<>> ELSE IF s[k] \in S THEN Append(f[k - 1], s[k]) ELSE f[k - 1]
  BY <1>2 DEF Filtering
<1>5. \A i \in 1..N : s[i] \in A
  OBVIOUS
<1>6. \A i, j \in 1..N : s[i].key = s[j].key => i = j
  BY <1>1 DEF KeysApart
<1> HIDE DEF N
<1> DEFINE T == {k \in 0..N : f[k] \in Seq(A) /\ KeptOf(f[k], s, S, k)}
<1>7. 0 \in T
  <2>1. 0 \in 0..N
    BY <1>1
  <2>2. f[0] = <<>>
    BY <1>4, <2>1
  <2>3. KeptOf(<<>>, s, S, 0)
    BY DEF KeptOf, KeysApart
  <2>4. <<>> \in Seq(A)
    OBVIOUS
  <2>5. f[0] \in Seq(A) /\ KeptOf(f[0], s, S, 0)
    BY <2>2, <2>3, <2>4
  <2>. QED  BY <2>1, <2>5
<1>8. \A k \in 1..N : k - 1 \in T => k \in T
  <2> SUFFICES ASSUME NEW k \in 1..N, k - 1 \in T
               PROVE  f[k] \in Seq(A) /\ KeptOf(f[k], s, S, k)
    BY <1>1
  <2> DEFINE F == f[k - 1]
  <2>1. k \in 0..N /\ k # 0 /\ k - 1 \in 0..N /\ F \in Seq(A) /\ KeptOf(F, s, S, k - 1) /\ s[k] \in A
    BY <1>1, <1>5
  <2>2. f[k] = IF s[k] \in S THEN Append(F, s[k]) ELSE F
    BY <1>4, <2>1
  <2> HIDE DEF F
  <2>3. \A i \in 1..Len(F) : \E m \in 1..k : m < k /\ F[i] = s[m] /\ s[m] \in S
    BY <2>1 DEF KeptOf
  <2>4. CASE s[k] \in S
    <3> DEFINE G == Append(F, s[k])
    <3>1. G \in Seq(A) /\ Len(G) = Len(F) + 1 /\ Len(F) \in Nat /\ G[Len(F) + 1] = s[k]
          /\ \A i \in 1..Len(F) : G[i] = F[i]
      BY <2>1
    <3>2. DOMAIN G = 1..(Len(F) + 1) /\ \A i \in 1..(Len(F) + 1) : i \in 1..Len(F) \/ i = Len(F) + 1
      BY <3>1
    <3> HIDE DEF G
    <3>3. Len(G) \in 0..k
      BY <2>1, <3>1 DEF KeptOf
    <3>4. (\E i \in 1..k : s[i] \notin S) => Len(G) < k
      <4> SUFFICES ASSUME NEW i \in 1..k, s[i] \notin S
                   PROVE  Len(F) < k - 1
        BY <2>1, <3>1
      <4>1. i \in 1..(k - 1)
        BY <2>4
      <4>. QED  BY <2>1, <4>1 DEF KeptOf
    <3>5. \A i \in 1..Len(G) : \E m \in 1..k : G[i] = s[m] /\ s[m] \in S
      <4> SUFFICES ASSUME NEW i \in 1..Len(G)
                   PROVE  \E m \in 1..k : G[i] = s[m] /\ s[m] \in S
        OBVIOUS
      <4>1. i \in 1..(Len(F) + 1)
        BY <3>1
      <4>2. CASE i \in 1..Len(F)
        BY <2>3, <3>1, <4>2
      <4>3. CASE i = Len(F) + 1
        <5>1. k \in 1..k
          OBVIOUS
        <5>2. G[i] = s[k]
          BY <3>1, <4>3
        <5>. QED  BY <2>4, <5>1, <5>2
      <4>. QED  BY <3>2, <4>1, <4>2, <4>3
    <3>6. KeysApart(G)
      <4>1. \A i \in 1..Len(F) : G[i].key # s[k].key
        <5> SUFFICES ASSUME NEW i \in 1..Len(F)
                     PROVE  F[i].key # s[k].key
          BY <3>1
        <5>1. PICK m \in 1..k : m < k /\ F[i] = s[m]
          BY <2>3
        <5>2. m \in 1..N /\ m # k
          BY <1>1, <5>1
        <5>. QED  BY <1>6, <5>1, <5>2
      <4>2. \A i, j \in 1..Len(F) : G[i].key = G[j].key => i = j
        <5>1. DOMAIN F = 1..Len(F)
          BY <2>1
        <5>. QED  BY <2>1, <3>1, <5>1 DEF KeptOf, KeysApart
      <4>. QED  BY <3>1, <3>2, <4>1, <4>2 DEF KeysApart
    <3>7. f[k] = G
      BY <2>2, <2>4 DEF G
    <3>8. KeptOf(G, s, S, k)
      BY <3>3, <3>4, <3>5, <3>6 DEF KeptOf
    <3>. QED  BY <3>1, <3>7, <3>8
  <2>5. CASE s[k] \notin S
    <3>1. f[k] = F /\ Len(F) \in 0..k /\ Len(F) < k
      BY <2>1, <2>2, <2>5 DEF KeptOf
    <3>2. KeysApart(F)
      BY <2>1 DEF KeptOf
    <3>. QED  BY <2>1, <2>3, <3>1, <3>2 DEF KeptOf
  <2>. QED  BY <2>4, <2>5
<1>9. \A k \in 0..N : k \in T
  <2> HIDE DEF T
  <2>. QED  BY <1>1, <1>7, <1>8, UpTo
<1>10. N \in T
  BY <1>1, <1>9
<1>. QED  BY <1>3, <1>10 DEF N

\* The cache keeps one entry a key and never more than its capacity.
SearchTyped ==
  /\ SearchInv
  /\ KeysApart(entries) /\ Len(entries) <= MaxEntries
  /\ owed \in Nat /\ writes \in Nat /\ owed <= writes /\ writes <= MaxWrites

LEMMA WithoutKeeps ==
  ASSUME SearchTyped, NEW key
  PROVE  /\ EntriesWithout(key) \in Seq(CacheEntries)
         /\ Len(EntriesWithout(key)) <= MaxEntries /\ KeysApart(EntriesWithout(key))
         /\ \A i \in DOMAIN EntriesWithout(key) : EntriesWithout(key)[i].key # key
         /\ (\E i \in DOMAIN entries : entries[i].key = key) => Len(EntriesWithout(key)) < MaxEntries
<1> DEFINE E == CacheEntries
           S == {e \in Range(entries) : e.key # key}
           F == EntriesWithout(key)
           n == Len(entries)
<1>1. entries \in Seq(E) /\ KeysApart(entries) /\ n <= MaxEntries
  BY DEF SearchTyped, SearchInv
<1>2. F = Filtered(entries, S)
  BY DEF EntriesWithout
<1>3. \A e \in S : e.key # key
  OBVIOUS
<1>4. F \in Seq(E)
  BY <1>1, WithoutIs
<1> HIDE DEF E, S, F
<1>5. KeptOf(F, entries, S, n)
  BY <1>1, <1>2, FilteredKeys
<1>6. n \in Nat /\ DOMAIN entries = 1..n /\ DOMAIN F = 1..Len(F)
  BY <1>1, <1>4
<1>7. \A i \in DOMAIN F : F[i].key # key
  BY <1>3, <1>5, <1>6 DEF KeptOf
<1>8. (\E i \in DOMAIN entries : entries[i].key = key) => Len(F) < n
  BY <1>3, <1>5, <1>6 DEF KeptOf
<1>9. MaxEntries \in Nat
  BY SearchAssumption
<1>. QED  BY <1>1, <1>4, <1>5, <1>6, <1>7, <1>8, <1>9 DEF KeptOf, F, E

LEMMA AppendApart ==
  ASSUME NEW A, NEW s \in Seq(A), KeysApart(s), NEW e \in A, \A i \in DOMAIN s : s[i].key # e.key
  PROVE  KeysApart(Append(s, e)) /\ Len(Append(s, e)) = Len(s) + 1
<1> DEFINE G == Append(s, e)
           n == Len(s)
<1>1. /\ DOMAIN s = 1..n /\ n \in Nat /\ DOMAIN G = 1..(n + 1) /\ Len(G) = n + 1
      /\ G[n + 1] = e /\ \A i \in 1..n : G[i] = s[i]
  OBVIOUS
<1>2. \A i \in 1..(n + 1) : i \in 1..n \/ i = n + 1
  BY <1>1
<1> HIDE DEF G, n
<1>3. \A i, j \in 1..n : G[i].key = G[j].key => i = j
  BY <1>1 DEF KeysApart
<1>4. \A i \in 1..n : G[i].key # e.key
  BY <1>1
<1>5. KeysApart(G)
  BY <1>1, <1>2, <1>3, <1>4 DEF KeysApart
<1>. QED  BY <1>1, <1>5 DEF G, n

LEMMA WithKeeps ==
  ASSUME SearchTyped, NEW r \in Requirements, NEW pool \in Pools
  PROVE  KeysApart(EntriesWith(Key(r), pool)) /\ Len(EntriesWith(Key(r), pool)) <= MaxEntries
<1> DEFINE key == Key(r)
           e == [key |-> key, pool |-> pool, left |-> CacheTtl]
           E == CacheEntries
           w == EntriesWithout(key)
           s == Append(w, e)
           from == IF Len(s) > MaxEntries THEN 2 ELSE 1
           t == SubSeq(s, from, Len(s))
<1>1. e \in E /\ e.key = key
  BY SearchAssumption DEF CacheEntries
<1>2. w \in Seq(E) /\ Len(w) <= MaxEntries /\ KeysApart(w) /\ \A i \in DOMAIN w : w[i].key # key
  BY WithoutKeeps
<1>3. EntriesWith(key, pool) = t
  BY DEF EntriesWith
<1>4. MaxEntries \in Nat \ {0}
  BY SearchAssumption
<1> HIDE DEF e, E, w, key
<1>5. KeysApart(s) /\ Len(s) = Len(w) + 1 /\ s \in Seq(E)
  BY <1>1, <1>2, AppendApart
<1> HIDE DEF s
<1>6. Len(s) \in Nat /\ Len(s) <= MaxEntries + 1 /\ from \in {1, 2} /\ DOMAIN s = 1..Len(s)
      /\ (Len(s) <= MaxEntries => from = 1) /\ (Len(s) > MaxEntries => from = 2)
  BY <1>2, <1>4, <1>5
<1> HIDE DEF from
<1>7. \A i \in from..Len(s) : s[i] \in E
  BY <1>5, <1>6
<1>8. /\ t \in Seq(E) /\ Len(t) = IF from <= Len(s) THEN Len(s) - from + 1 ELSE 0
      /\ \A i \in 1..(Len(s) - from + 1) : t[i] = s[from + i - 1]
  <2>1. from \in Int /\ Len(s) \in Int
    BY <1>6
  <2>. QED  BY <1>7, <2>1, SubSeqProperties
<1> HIDE DEF t
<1>9. Len(t) <= MaxEntries
  BY <1>4, <1>6, <1>8
<1>10. KeysApart(t)
  <2>1. DOMAIN t = 1..Len(t) /\ Len(t) \in Nat
    BY <1>8
  <2>2. \A i \in DOMAIN t : t[i] = s[from + i - 1] /\ from + i - 1 \in DOMAIN s
    BY <1>6, <1>8, <2>1
  <2>3. \A i, j \in DOMAIN t : from + i - 1 = from + j - 1 => i = j
    BY <1>6, <2>1
  <2>. QED  BY <1>5, <2>2, <2>3 DEF KeysApart
<1>. QED  BY <1>3, <1>9, <1>10 DEF key

LEMMA SearchTypedStep == SearchTyped /\ [SearchNext]_searchVars => SearchTyped'
<1> SUFFICES ASSUME SearchTyped, [SearchNext]_searchVars
             PROVE  SearchTyped'
  OBVIOUS
<1>1. SearchInv'
  BY SearchKept DEF SearchTyped
<1>2. MaxEntries \in Nat \ {0} /\ MaxWrites \in Nat
  BY SearchAssumption
<1>3. ASSUME owed' = owed, writes' = writes, KeysApart(entries'), Len(entries') <= MaxEntries
      PROVE  SearchTyped'
  BY <1>1, <1>3 DEF SearchTyped
<1>4. KeysApart(<<>>) /\ Len(<<>>) <= MaxEntries
  BY <1>2 DEF KeysApart
<1>5. ASSUME NEW p \in Readers, NEW r \in Requirements, SearchProperties(p, r)
      PROVE  SearchTyped'
  <2> DEFINE key == Key(r)
             w == EntriesWithout(key)
             E == CacheEntries
  <2>1. owed' = owed /\ writes' = writes
    BY <1>5 DEF SearchProperties
  <2>2. w \in Seq(E) /\ Len(w) <= MaxEntries /\ KeysApart(w) /\ \A i \in DOMAIN w : w[i].key # key
    BY WithoutKeeps
  <2>3. CASE Live(key) # {}
    <3>1. PICK i \in Live(key) : entries' = Append(w, entries[i])
      BY <1>5, <2>3 DEF SearchProperties
    <3>2. i \in DOMAIN entries /\ entries[i].key = key
      BY DEF Live
    <3>3. Len(w) < MaxEntries
      BY <3>2, WithoutKeeps
    <3>4. entries[i] \in E
      <4>1. entries \in Seq(E)
        BY DEF SearchTyped, SearchInv
      <4> HIDE DEF E
      <4>. QED  BY <3>2, <4>1
    <3> HIDE DEF E, w
    <3>5. KeysApart(Append(w, entries[i])) /\ Len(Append(w, entries[i])) = Len(w) + 1
      BY <2>2, <3>2, <3>4, AppendApart
    <3>6. Len(w) \in Nat
      BY <2>2
    <3>7. Len(entries') <= MaxEntries
      BY <1>2, <3>1, <3>3, <3>5, <3>6
    <3>. QED  BY <1>3, <2>1, <3>1, <3>5, <3>7
  <2>4. CASE Live(key) = {}
    <3>1. entries' = w
      BY <1>5, <2>4 DEF SearchProperties
    <3>. QED  BY <1>3, <2>1, <2>2, <3>1
  <2>. QED  BY <2>3, <2>4
<1>6. ASSUME NEW p \in Readers, Store(p)
      PROVE  SearchTyped'
  <2>1. search[p].step = "loaded" /\ owed' = owed /\ writes' = writes
        /\ entries' = EntriesWith(Key(search[p].req), search[p].pool)
    BY <1>6 DEF Store
  <2>2. search[p].req \in Requirements /\ search[p].pool \in Pools
    BY <2>1 DEF SearchTyped, SearchInv, ReaderSound, NotSearching
  <2>. QED  BY <1>3, <2>1, <2>2, WithKeeps
<1>7. ASSUME NEW p \in Readers, Load(p) \/ QueryFails(p)
      PROVE  SearchTyped'
  BY <1>3, <1>7 DEF Load, QueryFails, SearchTyped
<1>8. CASE UpdatePrice \/ BulkUnits
  <2>1. writes < MaxWrites /\ writes' = writes + 1 /\ owed' = owed + 1 /\ entries' = entries
    BY <1>8 DEF UpdatePrice, BulkUnits, CommitUnit
  <2>. QED  BY <1>1, <1>2, <2>1 DEF SearchTyped
<1>9. CASE InvalidateCustomerData \/ AuditFails \/ Restart
  <2>1. /\ entries' = <<>> \/ entries' = entries
        /\ owed' = 0 \/ (owed > 0 /\ owed' = owed - 1)
        /\ writes' = writes
    BY <1>9 DEF InvalidateCustomerData, AuditFails, Restart
  <2>2. owed' \in Nat /\ owed' <= writes'
    BY <2>1 DEF SearchTyped
  <2>. QED  BY <1>1, <1>4, <2>1, <2>2 DEF SearchTyped
<1>10. CASE EntriesAge
  <2>1. owed' = owed /\ writes' = writes
    BY <1>10 DEF EntriesAge
  <2>2. entries' = [i \in DOMAIN entries |-> [entries[i] EXCEPT !.left = IF @ > 0 THEN @ - 1 ELSE 0]]
    BY <1>10 DEF EntriesAge
  <2>3. entries \in Seq(CacheEntries) /\ entries' \in Seq(CacheEntries)
    BY <1>1 DEF SearchTyped, SearchInv
  <2>4. DOMAIN entries' = DOMAIN entries /\ \A i \in DOMAIN entries : entries'[i].key = entries[i].key
    <3> SUFFICES ASSUME NEW i \in DOMAIN entries
                 PROVE  [entries[i] EXCEPT !.left = IF @ > 0 THEN @ - 1 ELSE 0].key = entries[i].key
      BY <2>2
    <3> DEFINE E == CacheEntries
    <3>1. entries[i] \in E
      <4>1. entries \in Seq(E)
        BY <2>3
      <4> HIDE DEF E
      <4>. QED  BY <4>1
    <3>. QED  BY <3>1 DEF CacheEntries
  <2>5. KeysApart(entries')
    BY <2>4 DEF KeysApart, SearchTyped
  <2>6. Len(entries') = Len(entries)
    <3> DEFINE E == CacheEntries
    <3>1. entries \in Seq(E) /\ entries' \in Seq(E)
      BY <2>3
    <3> HIDE DEF E
    <3>2. DOMAIN entries = 1..Len(entries) /\ DOMAIN entries' = 1..Len(entries') /\ Len(entries) \in Nat /\ Len(entries') \in Nat
      BY <3>1
    <3>. QED  BY <2>4, <3>2
  <2>. QED  BY <1>3, <2>1, <2>5, <2>6 DEF SearchTyped
<1>11. CASE UNCHANGED searchVars
  BY <1>3, <1>11 DEF searchVars, SearchTyped
<1>. QED  BY <1>5, <1>6, <1>7, <1>8, <1>9, <1>10, <1>11 DEF SearchNext

LEMMA SearchTypedIs == ASSUME SearchTyped PROVE SearchTypeOK
<1> DEFINE E == CacheEntries
<1>1. entries \in Seq(E)
  BY DEF SearchTyped, SearchInv
<1> HIDE DEF E
<1>2. \A i \in DOMAIN entries : entries[i] \in E
  BY <1>1
<1>3. \A i \in DOMAIN entries : entries[i].pool \subseteq PoolRows /\ entries[i].left \in 0..CacheTtl
  BY <1>2 DEF E, CacheEntries, Pools
<1>4. owed \in 0..MaxWrites
  BY SearchAssumption DEF SearchTyped
<1>. QED  BY <1>3, <1>4 DEF SearchTyped, SearchInv, SearchTypeOK, KeysApart

\* The cache holds one pool a key, never more than its capacity, and every pool consists of
\* rows of units (ApplicationCache.set): for any capacity, lifetime and number of readers.
THEOREM CacheBounded == SearchSpec => []SearchTypeOK
<1>1. SearchInit => SearchTyped
  BY SearchStart, SearchAssumption DEF SearchInit, SearchTyped, KeysApart
<1>. QED  BY <1>1, SearchTypedStep, SearchTypedIs, PTL DEF SearchSpec

-----------------------------------------------------------------------------
(* PaymentOffers *)

OfferFields == {"name", "kind", "months", "frequency", "every", "percent", "down", "total", "discount",
                "instalment", "monthly"}

LEMMA TermIs ==
  ASSUME NEW p \in Terms
  PROVE  /\ DOMAIN p = OfferFields
         /\ p.months \in Nat \cup {NoTerm} /\ p.percent \in Nat \cup {NoTerm}
         /\ p.down \in Nat \cup {NoTerm} /\ p.total \in Nat \cup {NoTerm}
         /\ p.discount \in Nat /\ p.every \in Nat \ {0} /\ p.instalment = NoTerm
  BY OffersAssumption DEF OfferFields

LEMMA PerYear == ASSUME NEW f PROVE PaymentsPerYear(f) \in {1, 2, 4, 12}
  BY DEF PaymentsPerYear

LEMMA InstallmentsIs ==
  ASSUME NEW p, p.months \in Nat \cup {NoTerm}
  PROVE  /\ Installments(p) = NoTerm \/ Installments(p) \in Nat \ {0}
         /\ Installments(p) = NoTerm <=> p.months \in {NoTerm, 0}
<1> DEFINE k == PaymentsPerYear(p.frequency)
           x == (2 * p.months * k + 12) \div 24
<1>1. k \in {1, 2, 4, 12}
  BY PerYear
<1>2. NoTerm \notin Int
  BY OffersAssumption
<1>3. CASE p.months \in {NoTerm, 0}
  BY <1>3 DEF Installments
<1>4. CASE p.months \notin {NoTerm, 0}
  <2>1. p.months \in Nat /\ p.months # 0
    BY <1>4
  <2>2. 2 * p.months * k + 12 \in Nat
    BY <1>1, <2>1
  <2>3. x \in Int
    BY <2>2
  <2>4. AtLeast(1, x) \in Nat \ {0}
    BY <2>3 DEF AtLeast
  <2>5. Installments(p) = AtLeast(1, x)
    BY <1>4 DEF Installments
  <2>. QED  BY <1>2, <1>4, <2>4, <2>5
<1>. QED  BY <1>3, <1>4

LEMMA TotalIs ==
  ASSUME NEW p \in Terms, NEW base \in UnitPrices
  PROVE  Total(p, base) \in Nat
<1>1. base \in Nat /\ p.discount \in Nat
  BY OffersAssumption, TermIs
<1>2. base * p.discount \in Nat
  BY <1>1
<1>3. base - (base * p.discount) \div 100 \in Int
  BY <1>1, <1>2
<1>4. AtLeast(0, base - (base * p.discount) \div 100) \in Nat
  BY <1>3 DEF AtLeast
<1>. QED  BY <1>4, TermIs DEF Total, Or

LEMMA DownIs ==
  ASSUME NEW p \in Terms, NEW base \in UnitPrices
  PROVE  /\ Down(p, base) \in Int \cup {NoTerm}
         /\ Down(p, base) = NoTerm => p.percent = NoTerm
<1>1. Total(p, base) \in Nat /\ p.percent \in Nat \cup {NoTerm} /\ p.down \in Nat \cup {NoTerm} /\ NoTerm \notin Int
  BY TotalIs, TermIs, OffersAssumption
<1>2. CASE p.down # NoTerm
  <2>1. Down(p, base) = p.down
    BY <1>2 DEF Down, Or
  <2>. QED  BY <1>1, <1>2, <2>1
<1>3. CASE p.down = NoTerm /\ p.percent = NoTerm
  BY <1>3 DEF Down, Or
<1>4. CASE p.down = NoTerm /\ p.percent # NoTerm
  <2>1. Total(p, base) * p.percent \in Int
    BY <1>1, <1>4
  <2>2. (Total(p, base) * p.percent) \div 100 \in Int
    BY <2>1
  <2>3. Down(p, base) = (Total(p, base) * p.percent) \div 100
    BY <1>4 DEF Down, Or
  <2>. QED  BY <1>1, <2>2, <2>3
<1>. QED  BY <1>2, <1>3, <1>4

LEMMA InstalmentIs ==
  ASSUME NEW p \in Terms, NEW base \in UnitPrices
  PROVE  IF Installments(p) = NoTerm THEN Instalment(p, base) = NoTerm
         ELSE /\ Installments(p) \in Nat \ {0}
              /\ Instalment(p, base) \in Int
              /\ Instalment(p, base) * Installments(p) = Total(p, base) - Or(Down(p, base), 0)
<1> DEFINE n == Installments(p)
           x == Total(p, base) - Or(Down(p, base), 0)
<1>1. p.instalment = NoTerm /\ NoTerm \notin Int /\ (n = NoTerm \/ n \in Nat \ {0})
  BY TermIs, InstallmentsIs, OffersAssumption
<1>2. CASE n = NoTerm
  BY <1>1, <1>2 DEF Instalment, Or
<1>3. CASE n # NoTerm
  <2>1. n \in Nat \ {0}
    BY <1>1, <1>3
  <2>2. x \in Int /\ x >= 0 /\ x % n = 0
    <3>1. x \in Int
      BY TotalIs, DownIs DEF Or
    <3>. QED  BY <1>3, <3>1, WholeAmounts
  <2>3. Instalment(p, base) = x \div n
    <3>1. Instalment(p, base) = AtLeast(0, x) \div n
      BY <1>1, <1>3 DEF Instalment, Or
    <3>. QED  BY <2>2, <3>1 DEF AtLeast
  <2> HIDE DEF n, x
  <2>4. x \div n \in Int /\ (x \div n) * n = x
    BY <2>1, <2>2
  <2>. QED  BY <1>3, <2>1, <2>3, <2>4 DEF n, x
<1>. QED  BY <1>2, <1>3

\* A quote is its own quote.
LEMMA QuoteFields ==
  ASSUME NEW p \in Terms, NEW base \in UnitPrices
  PROVE  LET q == QuotePaymentPlan(p, base) IN
         /\ DOMAIN q = OfferFields
         /\ q.name = p.name /\ q.kind = p.kind /\ q.months = p.months /\ q.frequency = p.frequency
         /\ q.every = p.every /\ q.percent = p.percent
         /\ q.total = Total(p, base) /\ q.down = Down(p, base) /\ q.instalment = Instalment(p, base)
         /\ q.discount = (AtLeast(0, base - Total(p, base)) * 100) \div base
         /\ q.monthly = IF Instalment(p, base) = NoTerm THEN NoTerm
                        ELSE (Instalment(p, base) * PaymentsPerYear(p.frequency)) \div 12
<1>1. DOMAIN p = OfferFields
  BY TermIs
<1>. QED  BY <1>1 DEF QuotePaymentPlan, OfferFields

LEMMA QuoteTwice ==
  ASSUME NEW p \in Terms, NEW base \in UnitPrices
  PROVE  QuotePaymentPlan(QuotePaymentPlan(p, base), base) = QuotePaymentPlan(p, base)
<1> DEFINE q == QuotePaymentPlan(p, base)
<1>0. /\ DOMAIN q = OfferFields
      /\ q.months = p.months /\ q.frequency = p.frequency /\ q.percent = p.percent
      /\ q.total = Total(p, base) /\ q.down = Down(p, base) /\ q.instalment = Instalment(p, base)
      /\ q.discount = (AtLeast(0, base - Total(p, base)) * 100) \div base
      /\ q.monthly = IF Instalment(p, base) = NoTerm THEN NoTerm
                     ELSE (Instalment(p, base) * PaymentsPerYear(p.frequency)) \div 12
  BY QuoteFields
<1> HIDE DEF q
<1>1. NoTerm \notin Int /\ q.total \in Int
  BY <1>0, TotalIs, OffersAssumption
<1>2. Total(q, base) = q.total
  BY <1>1 DEF Total, Or
<1>3. Down(q, base) = q.down
  BY <1>0, DownIs DEF Down, Or
<1>4. Installments(q) = Installments(p)
  BY <1>0 DEF Installments
<1>5. Instalment(q, base) = q.instalment
  BY <1>0, <1>1, <1>4, InstalmentIs DEF Instalment, Or
<1>6. QuotePaymentPlan(q, base) =
        [q EXCEPT !.total = q.total, !.down = q.down, !.instalment = q.instalment,
                  !.discount = q.discount, !.monthly = q.monthly]
  BY <1>0, <1>2, <1>3, <1>5 DEF QuotePaymentPlan
<1>7. QuotePaymentPlan(q, base) = q
  <2> DEFINE e == [q EXCEPT !.total = q.total, !.down = q.down, !.instalment = q.instalment,
                            !.discount = q.discount, !.monthly = q.monthly]
  <2>1. e = [f \in OfferFields |-> e[f]]
    BY <1>0
  <2>2. \A f \in OfferFields : e[f] = q[f]
    BY <1>0 DEF OfferFields
  <2>3. q = [f \in OfferFields |-> q[f]]
    BY <1>0 DEF q, QuotePaymentPlan
  <2> HIDE DEF e
  <2>4. e = q
    BY <2>1, <2>2, <2>3
  <2>. QED  BY <1>6, <2>4 DEF e
<1>. QED  BY <1>7 DEF q

\* The plans offered and their quotes.
LEMMA WithTerm ==
  ASSUME NEW list \in Seq(Terms), NEW p \in Terms \cup {NoTerm}
  PROVE  With(list, p) \in Seq(Terms)
<1>1. CASE p = NoTerm
  BY <1>1 DEF With
<1>2. CASE p # NoTerm
  <2>1. p \in Terms
    BY <1>2
  <2>2. Append(list, p) \in Seq(Terms)
    BY <2>1
  <2>3. [i \in DOMAIN list |-> IF SameOffer(list[i], p) THEN p ELSE list[i]] \in Seq(Terms)
    <3> DEFINE at(i) == IF SameOffer(list[i], p) THEN p ELSE list[i]
    <3>1. DOMAIN list = 1..Len(list) /\ Len(list) \in Nat /\ \A i \in DOMAIN list : at(i) \in Terms
      BY <2>1
    <3> HIDE DEF at
    <3>2. [i \in DOMAIN list |-> at(i)] \in Seq(Terms)
      BY <3>1
    <3>. QED  BY <3>2 DEF at
  <2>. QED  BY <1>2, <2>2, <2>3 DEF With
<1>. QED  BY <1>1, <1>2

PlanQuotes(base) == {QuotePaymentPlan(p, base) : p \in Terms}

LEMMA QuoteIs ==
  ASSUME NEW base \in UnitPrices, NEW q \in PlanQuotes(base)
  PROVE  /\ QuotePaymentPlan(q, base) = q
         /\ q.months \in Nat \cup {NoTerm} /\ q.percent \in Nat \cup {NoTerm}
         /\ q.total \in Nat /\ q.every \in Nat \ {0}
         /\ q.down \in Int \cup {NoTerm} /\ (q.down = NoTerm => q.percent = NoTerm)
         /\ IF Installments(q) = NoTerm THEN q.instalment = NoTerm
            ELSE /\ q.instalment \in Int /\ Installments(q) \in Nat \ {0}
                 /\ q.instalment * Installments(q) = q.total - Or(q.down, 0)
<1>1. PICK p \in Terms : q = QuotePaymentPlan(p, base)
  BY DEF PlanQuotes
<1>2. QuotePaymentPlan(q, base) = q
  BY <1>1, QuoteTwice
<1>3. /\ q.months = p.months /\ q.frequency = p.frequency /\ q.percent = p.percent /\ q.every = p.every
      /\ q.total = Total(p, base) /\ q.down = Down(p, base) /\ q.instalment = Instalment(p, base)
  BY <1>1, QuoteFields
<1>4. Installments(q) = Installments(p)
  BY <1>3 DEF Installments
<1>. QED  BY <1>2, <1>3, <1>4, TermIs, TotalIs, DownIs, InstalmentIs

OfferLevels == {Levels[i] : i \in DOMAIN Levels}

LEMMA LevelsIs == OfferLevels = {"project", "phase", "unit"}
  BY DEF OfferLevels, Levels

LEMMA EffectiveQuotes ==
  ASSUME offered \in [OfferLevels -> Terms \cup {NoTerm}], NEW direct \in Terms \cup {NoTerm}, NEW base \in UnitPrices
  PROVE  Effective(direct, base) \in Seq(PlanQuotes(base))
<1> DEFINE a == With(<<>>, offered["project"])
           b == With(a, offered["phase"])
           list == With(b, direct)
           at(i) == QuotePaymentPlan(list[i], base)
<1>1. offered["project"] \in Terms \cup {NoTerm} /\ offered["phase"] \in Terms \cup {NoTerm}
  BY LevelsIs
<1>2. <<>> \in Seq(Terms)
  OBVIOUS
<1>3. a \in Seq(Terms)
  BY <1>1, <1>2, WithTerm
<1> HIDE DEF a
<1>4. b \in Seq(Terms)
  BY <1>1, <1>3, WithTerm
<1> HIDE DEF b
<1>5. list \in Seq(Terms)
  BY <1>4, WithTerm
<1>6. Effective(direct, base) = [i \in DOMAIN list |-> at(i)]
  BY DEF Effective, a, b
<1> HIDE DEF list
<1>7. \A i \in DOMAIN list : at(i) \in PlanQuotes(base)
  BY <1>5 DEF PlanQuotes
<1>8. DOMAIN list = 1..Len(list) /\ Len(list) \in Nat
  BY <1>5
<1> HIDE DEF at
<1>9. [i \in DOMAIN list |-> at(i)] \in Seq(PlanQuotes(base))
  BY <1>7, <1>8
<1>. QED  BY <1>6, <1>9

\* The first of some places of a list is an element of it.
LEMMA FirstIs ==
  ASSUME NEW A, NEW list \in Seq(A), NEW places \in SUBSET (DOMAIN list), places # {}
  PROVE  \E i \in places : First(list, places) = list[i]
<1>1. places \in SUBSET Nat
  OBVIOUS
<1>2. \E i \in places : \A j \in places : i <= j
  BY <1>1, LeastNatural
<1>. QED  BY <1>2 DEF First

\* Integers at finitely many places have a greatest.
LEMMA Greatest ==
  ASSUME NEW N \in Nat \ {0}, NEW f, \A i \in 1..N : f[i] \in Int
  PROVE  \E i \in 1..N : \A j \in 1..N : f[j] <= f[i]
<1> DEFINE T == {k \in 0..N : k = 0 \/ \E i \in 1..k : \A j \in 1..k : f[j] <= f[i]}
<1>1. 0 \in T
  OBVIOUS
<1>2. \A k \in 1..N : k - 1 \in T => k \in T
  <2> SUFFICES ASSUME NEW k \in 1..N, k - 1 \in T
               PROVE  \E i \in 1..k : \A j \in 1..k : f[j] <= f[i]
    OBVIOUS
  <2>1. k \in 1..k /\ f[k] \in Int /\ \A j \in 1..k : j = k \/ j \in 1..(k - 1)
    OBVIOUS
  <2>2. CASE k = 1
    BY <2>1, <2>2
  <2>3. CASE k # 1
    <3>1. PICK i \in 1..(k - 1) : \A j \in 1..(k - 1) : f[j] <= f[i]
      BY <2>3
    <3>2. i \in 1..k /\ f[i] \in Int /\ \A j \in 1..(k - 1) : f[j] \in Int
      OBVIOUS
    <3>3. CASE f[i] <= f[k]
      <4>1. \A j \in 1..(k - 1) : f[j] <= f[k]
        BY <2>1, <3>1, <3>2, <3>3
      <4>2. \A j \in 1..k : f[j] <= f[k]
        BY <2>1, <4>1
      <4>. QED  BY <2>1, <4>2
    <3>4. CASE ~ (f[i] <= f[k])
      <4>1. f[k] <= f[i]
        BY <2>1, <3>2, <3>4
      <4>2. \A j \in 1..k : f[j] <= f[i]
        BY <2>1, <3>1, <4>1
      <4>. QED  BY <3>2, <4>2
    <3>. QED  BY <3>3, <3>4
  <2>. QED  BY <2>2, <2>3
<1>3. \A k \in 0..N : k \in T
  <2> HIDE DEF T
  <2>. QED  BY <1>1, <1>2, UpTo
<1>4. N \in T
  BY <1>3
<1>. QED  BY <1>4

LEMMA TermInt ==
  ASSUME NEW w \in Wishes, NEW base \in UnitPrices, NEW q \in PlanQuotes(base)
  PROVE  /\ Term(q, w) \in Int /\ Score(q, w) \in Int
         /\ Suits(w.down, q.down) \in {0, 120, -120} /\ Suits(w.monthly, q.monthly) \in {0, 120, -120}
<1>1. w.months \in Nat \cup {NoTerm} /\ w.percent \in Nat \cup {NoTerm}
  BY OffersAssumption
<1>2. q.months \in Nat \cup {NoTerm} /\ q.percent \in Nat \cup {NoTerm}
  BY QuoteIs
<1>3. \A x \in Int : Abs(x) \in Int /\ -Abs(x) \in Int
  BY DEF Abs
<1>4. Or(q.months, 0) \in Int /\ Or(q.percent, 999) \in Int
  BY <1>2 DEF Or
<1>5. Term(q, w) \in Int
  BY <1>1, <1>3, <1>4 DEF Term
<1>6. Suits(w.down, q.down) \in {0, 120, -120} /\ Suits(w.monthly, q.monthly) \in {0, 120, -120}
  BY DEF Suits
<1>7. (IF w.percent # NoTerm THEN 12 * Abs(Or(q.percent, 999) - w.percent) ELSE 0) \in Int
  BY <1>1, <1>3, <1>4
<1>. QED  BY <1>5, <1>6, <1>7 DEF Score

\* The best plan of a list of quotes is one of them, and none has a better score.
LEMMA BestIs ==
  ASSUME NEW base \in UnitPrices, NEW list \in Seq(PlanQuotes(base)), NEW w \in Wishes, list # <<>>
  PROVE  \E i \in DOMAIN list : /\ ChooseBestPaymentPlan(list, base, w) = list[i]
                                /\ \A j \in DOMAIN list : Score(list[j], w) <= Score(list[i], w)
<1> DEFINE quotes == [i \in DOMAIN list |-> QuotePaymentPlan(list[i], base)]
           places == {i \in DOMAIN list : \A j \in DOMAIN list : Score(list[j], w) <= Score(list[i], w)}
           score == [i \in DOMAIN list |-> Score(list[i], w)]
           N == Len(list)
<1>1. DOMAIN list = 1..N /\ N \in Nat \ {0} /\ \A i \in DOMAIN list : list[i] \in PlanQuotes(base)
  BY EmptySeq
<1>2. quotes = list
  <2>1. \A i \in DOMAIN list : QuotePaymentPlan(list[i], base) = list[i]
    BY <1>1, QuoteIs
  <2>2. list = [i \in DOMAIN list |-> list[i]]
    OBVIOUS
  <2>. QED  BY <2>1, <2>2
<1>3. ChooseBestPaymentPlan(list, base, w) = First(quotes, {i \in DOMAIN quotes :
         \A j \in DOMAIN quotes : Score(quotes[j], w) <= Score(quotes[i], w)})
  BY DEF ChooseBestPaymentPlan
<1>4. ChooseBestPaymentPlan(list, base, w) = First(list, places)
  <2> HIDE DEF quotes
  <2>. QED  BY <1>2, <1>3
<1>5. \A i \in 1..N : score[i] \in Int
  BY <1>1, TermInt
<1>6. \E i \in 1..N : \A j \in 1..N : score[j] <= score[i]
  <2> HIDE DEF score, N
  <2>. QED  BY <1>1, <1>5, Greatest
<1>7. places \in SUBSET (DOMAIN list) /\ places # {}
  BY <1>1, <1>6
<1>8. \A i \in places : i \in DOMAIN list /\ \A j \in DOMAIN list : Score(list[j], w) <= Score(list[i], w)
  OBVIOUS
<1> HIDE DEF places
<1>9. \E i \in places : First(list, places) = list[i]
  BY <1>7, FirstIs
<1>. QED  BY <1>4, <1>8, <1>9

\* A plan within the limits gives way only to one within them or to twenty years.
LEMMA LimitsFirst ==
  ASSUME NEW base \in UnitPrices, NEW q \in PlanQuotes(base), NEW best \in PlanQuotes(base), NEW w \in Wishes,
         w.percent = NoTerm, Score(q, w) <= Score(best, w), Pays(q, w)
  PROVE  Pays(best, w) \/ Term(best, w) - Term(q, w) >= 240
<1>1. Term(q, w) \in Int /\ Term(best, w) \in Int
  BY TermInt
<1>2. /\ Score(q, w) = Term(q, w) + Suits(w.down, q.down) + Suits(w.monthly, q.monthly) - 0
      /\ Score(best, w) = Term(best, w) + Suits(w.down, best.down) + Suits(w.monthly, best.monthly) - 0
  BY DEF Score
<1>3. /\ Suits(w.down, q.down) = IF w.down = NoTerm THEN 0 ELSE 120
      /\ Suits(w.monthly, q.monthly) = IF w.monthly = NoTerm THEN 0 ELSE 120
  BY DEF Pays, Suits
<1>4. /\ Suits(w.down, best.down) =
           IF w.down = NoTerm THEN 0 ELSE IF Within(w.down, best.down) THEN 120 ELSE -120
      /\ Suits(w.monthly, best.monthly) =
           IF w.monthly = NoTerm THEN 0 ELSE IF Within(w.monthly, best.monthly) THEN 120 ELSE -120
  BY DEF Suits
<1>5. CASE Pays(best, w)
  BY <1>5
<1>6. CASE ~ Pays(best, w)
  <2>1. \/ w.down # NoTerm /\ ~ Within(w.down, best.down)
        \/ w.monthly # NoTerm /\ ~ Within(w.monthly, best.monthly)
    BY <1>6 DEF Pays
  <2>2. Suits(w.down, best.down) + Suits(w.monthly, best.monthly) <=
          Suits(w.down, q.down) + Suits(w.monthly, q.monthly) - 240
    BY <1>3, <1>4, <2>1
  <2> DEFINE x == Suits(w.down, best.down)
             y == Suits(w.monthly, best.monthly)
             u == Suits(w.down, q.down)
             v == Suits(w.monthly, q.monthly)
  <2>3. x \in Int /\ y \in Int /\ u \in Int /\ v \in Int
    BY TermInt
  <2>4. Term(q, w) + u + v - 0 <= Term(best, w) + x + y - 0 /\ x + y <= u + v - 240
    BY <1>2, <2>2
  <2> HIDE DEF x, y, u, v
  <2>. QED  BY <1>1, <2>3, <2>4
<1>. QED  BY <1>5, <1>6

\* What the presenter computes of a quote adds up.
LEMMA AmountAddsUp ==
  ASSUME NEW base \in UnitPrices, NEW q \in PlanQuotes(base)
  PROVE  AddsUp(PaymentPlanAmount(q, base))
<1> DEFINE t == PaymentPlanAmount(q, base)
           n == Installments(q)
<1>1. /\ q.total \in Nat /\ q.down \in Int \cup {NoTerm} /\ (q.down = NoTerm => q.percent = NoTerm)
      /\ q.months \in Nat \cup {NoTerm} /\ NoTerm \notin Int
  BY QuoteIs, OffersAssumption
<1>2. Or(q.total, base - (base * q.discount) \div 100) = q.total
  BY <1>1 DEF Or
<1>3. Or(q.down, IF q.percent = NoTerm THEN NoTerm ELSE (q.total * q.percent) \div 100) = q.down
  BY <1>1 DEF Or
<1>4. /\ t.total = q.total /\ t.down = q.down /\ t.frequency = q.frequency /\ t.months = q.months
      /\ t.instalment = Or(q.instalment,
           IF q.down = NoTerm \/ (IF Or(q.months, 0) = 0 THEN NoTerm ELSE AtLeast(1, q.months \div q.every)) = NoTerm
           THEN NoTerm
           ELSE AtLeast(0, q.total - q.down) \div (IF Or(q.months, 0) = 0 THEN NoTerm ELSE AtLeast(1, q.months \div q.every)))
  BY <1>2, <1>3 DEF PaymentPlanAmount
<1> HIDE DEF t
<1>5. Installments(t) = n
  BY <1>4 DEF Installments
<1>6. CASE n = NoTerm
  <2>1. q.instalment = NoTerm /\ q.months \in {NoTerm, 0}
    BY <1>1, <1>6, QuoteIs, InstallmentsIs
  <2>2. Or(q.months, 0) = 0
    BY <2>1 DEF Or
  <2>3. t.instalment = NoTerm
    BY <1>4, <2>1, <2>2 DEF Or
  <2>. QED  BY <2>3 DEF AddsUp, t
<1>7. CASE n # NoTerm
  <2>1. q.instalment \in Int /\ n \in Nat \ {0} /\ q.instalment * n = q.total - Or(q.down, 0)
    BY <1>7, QuoteIs
  <2>2. t.instalment = q.instalment
    BY <1>1, <1>4, <2>1 DEF Or
  <2>3. Or(q.down, 0) \in Int
    BY <1>1 DEF Or
  <2>4. q.total - Or(q.down, 0) + Or(q.down, 0) = q.total
    BY <1>1, <2>3
  <2>5. t.instalment * Installments(t) + Or(t.down, 0) = t.total
    BY <1>4, <1>5, <2>1, <2>2, <2>4
  <2>. QED  BY <2>5 DEF AddsUp, t
<1>. QED  BY <1>6, <1>7

LEMMA ToldAddsUp ==
  ASSUME NEW base \in UnitPrices, NEW list \in Seq(PlanQuotes(base)), NEW t \in PaymentChoices(list, base)
  PROVE  AddsUp(t)
<1>1. \A places \in SUBSET (DOMAIN list) : First(list, places) = NoTerm \/ First(list, places) \in PlanQuotes(base)
  <2> SUFFICES ASSUME NEW places \in SUBSET (DOMAIN list), places # {}
               PROVE  First(list, places) \in PlanQuotes(base)
    BY DEF First
  <2>1. PICK i \in places : First(list, places) = list[i]
    BY FirstIs
  <2>2. list[i] \in PlanQuotes(base)
    OBVIOUS
  <2>. QED  BY <2>1, <2>2
<1>2. PICK q : /\ t = PaymentPlanAmount(q, base) /\ q # NoTerm
               /\ \E places \in SUBSET (DOMAIN list) : q = First(list, places)
  <2> DEFINE cash == {i \in DOMAIN list : PaymentPlanKind(list[i]) = "CASH"}
             loans == DOMAIN list \ cash
             Owed(p) == Or(PaymentPlanAmount(p, base).down, Infinity)
             A == {i \in cash : \A j \in cash : list[i].total <= list[j].total}
             B == {i \in loans : \A j \in loans : list[i].months >= list[j].months}
             C == {i \in loans : \A j \in loans : list[i].months <= list[j].months}
             D == {i \in loans : \A j \in loans : Owed(list[i]) <= Owed(list[j])}
             put == {First(list, A), First(list, B), First(list, C), First(list, D)}
  <2>1. PaymentChoices(list, base) = {PaymentPlanAmount(p, base) : p \in put \ {NoTerm}}
    BY DEF PaymentChoices
  <2>2. A \in SUBSET (DOMAIN list) /\ B \in SUBSET (DOMAIN list) /\ C \in SUBSET (DOMAIN list) /\ D \in SUBSET (DOMAIN list)
    OBVIOUS
  <2> HIDE DEF A, B, C, D
  <2>3. PICK q \in put \ {NoTerm} : t = PaymentPlanAmount(q, base)
    BY <2>1
  <2>. QED  BY <2>2, <2>3
<1>3. q \in PlanQuotes(base)
  BY <1>1, <1>2
<1>. QED  BY <1>2, <1>3, AmountAddsUp

\* The inductive invariant: plans are those that were entered, and what a search told is suited.
OfferInv ==
  /\ offered \in [OfferLevels -> Terms \cup {NoTerm}]
  /\ price \in UnitPrices
  /\ asker.step = "read" =>
       asker.wish \in Wishes /\ asker.price \in UnitPrices /\ asker.direct \in Terms \cup {NoTerm}
  /\ OffersSuit

LEMMA AnswerSuits ==
  ASSUME NEW w \in Wishes, NEW base \in UnitPrices, NEW list \in Seq(PlanQuotes(base)),
         asker' = [step |-> "answered", wish |-> w, price |-> base, plans |-> list,
                   best |-> ChooseBestPaymentPlan(list, base, w), told |-> PaymentChoices(list, base)]
  PROVE  OffersSuit'
<1> DEFINE best == ChooseBestPaymentPlan(list, base, w)
<1>1. CASE list = <<>>
  <2>1. best = NoTerm
    BY <1>1 DEF ChooseBestPaymentPlan, First
  <2>2. DOMAIN list = {}
    BY <1>1
  <2>. QED  BY <2>1, <2>2, ToldAddsUp DEF OffersSuit
<1>2. CASE list # <<>>
  <2>1. PICK i \in DOMAIN list : /\ best = list[i]
                                 /\ \A j \in DOMAIN list : Score(list[j], w) <= Score(list[i], w)
    BY <1>2, BestIs
  <2>2. \A j \in DOMAIN list : list[j] \in PlanQuotes(base)
    OBVIOUS
  <2>3. \A j \in DOMAIN list : w.percent = NoTerm /\ Pays(list[j], w) =>
          Pays(best, w) \/ Term(best, w) - Term(list[j], w) >= 240
    BY <2>1, <2>2, LimitsFirst
  <2> HIDE DEF best
  <2>4. asker'.wish = w /\ asker'.plans = list /\ asker'.best = best /\ asker'.told = PaymentChoices(list, base)
    BY DEF best
  <2>. QED  BY <2>1, <2>3, <2>4, ToldAddsUp DEF OffersSuit
<1>. QED  BY <1>1, <1>2

LEMMA OffersKept == OfferInv /\ [OffersNext]_offerVars => OfferInv'
<1> SUFFICES ASSUME OfferInv, [OffersNext]_offerVars
             PROVE  OfferInv'
  OBVIOUS
<1>1. ASSUME NEW w \in Wishes, ReadUnit(w)
      PROVE  OfferInv'
  <2>1. offered["unit"] \in Terms \cup {NoTerm}
    BY LevelsIs DEF OfferInv
  <2>2. asker' = [step |-> "read", wish |-> w, price |-> price, direct |-> offered["unit"]]
        /\ offered' = offered /\ price' = price
    BY <1>1 DEF ReadUnit
  <2>3. asker'.step = "read"
    BY <2>2
  <2>4. OffersSuit'
    BY <2>3 DEF OffersSuit
  <2>. QED  BY <2>1, <2>2, <2>4 DEF OfferInv
<1>2. CASE AttachEffectivePaymentPlans
  <2> DEFINE w == asker.wish
             base == asker.price
             list == Effective(asker.direct, asker.price)
  <2>1. w \in Wishes /\ base \in UnitPrices /\ asker.direct \in Terms \cup {NoTerm}
    BY <1>2 DEF AttachEffectivePaymentPlans, OfferInv
  <2>2. list \in Seq(PlanQuotes(base))
    BY <2>1, EffectiveQuotes DEF OfferInv
  <2>3. \/ asker' = [step |-> "answered", wish |-> w, price |-> base, plans |-> list,
                     best |-> ChooseBestPaymentPlan(list, base, w), told |-> PaymentChoices(list, base)]
        \/ asker' = NotAsking
    BY <1>2 DEF AttachEffectivePaymentPlans
  <2> HIDE DEF w, base, list
  <2>4. OffersSuit' /\ asker'.step # "read"
    <3>1. CASE asker' = NotAsking
      BY <3>1 DEF NotAsking, OffersSuit
    <3>2. CASE asker' = [step |-> "answered", wish |-> w, price |-> base, plans |-> list,
                         best |-> ChooseBestPaymentPlan(list, base, w), told |-> PaymentChoices(list, base)]
      BY <2>1, <2>2, <3>2, AnswerSuits
    <3>. QED  BY <2>3, <3>1, <3>2
  <2>5. offered' = offered /\ price' = price
    BY <1>2 DEF AttachEffectivePaymentPlans
  <2>. QED  BY <2>4, <2>5 DEF OfferInv
<1>3. ASSUME asker' = asker, offered' \in [OfferLevels -> Terms \cup {NoTerm}], price' \in UnitPrices
      PROVE  OfferInv'
  BY <1>3 DEF OfferInv, OffersSuit
<1>4. ASSUME NEW level \in DOMAIN offered, NEW p \in Terms, AddPlan(level, p) \/ UpdatePlan(level, p)
      PROVE  OfferInv'
  <2>1. asker' = asker /\ price' = price /\ offered' = [offered EXCEPT ![level] = p]
    BY <1>4 DEF AddPlan, UpdatePlan, Change
  <2>. QED  BY <1>3, <2>1 DEF OfferInv
<1>5. ASSUME NEW level \in DOMAIN offered, DropPlan(level)
      PROVE  OfferInv'
  <2>1. asker' = asker /\ price' = price /\ offered' = [offered EXCEPT ![level] = NoTerm]
    BY <1>5 DEF DropPlan, Change
  <2>. QED  BY <1>3, <2>1 DEF OfferInv
<1>6. ASSUME NEW amount \in UnitPrices, SetPrice(amount)
      PROVE  OfferInv'
  <2>1. asker' = asker /\ price' = amount /\ offered' = offered
    BY <1>6 DEF SetPrice, Change
  <2>. QED  BY <1>3, <2>1 DEF OfferInv
<1>7. CASE UNCHANGED offerVars
  BY <1>3, <1>7 DEF offerVars, OfferInv
<1>. QED  BY <1>1, <1>2, <1>4, <1>5, <1>6, <1>7 DEF OffersNext

LEMMA OffersStart == OffersInit => OfferInv
<1> SUFFICES ASSUME OffersInit
             PROVE  OfferInv
  OBVIOUS
<1>1. asker.step = "idle"
  BY DEF OffersInit, NotAsking
<1>2. OffersSuit
  BY <1>1 DEF OffersSuit
<1>. QED  BY <1>1, <1>2 DEF OffersInit, OfferInv, OfferLevels

LEMMA SomePlan ==
  ASSUME NEW w \in Wishes, NEW base \in UnitPrices, NEW list \in Seq(PlanQuotes(base))
  PROVE  ChooseBestPaymentPlan(list, base, w) = NoTerm <=> list = <<>>
<1>1. CASE list = <<>>
  BY <1>1 DEF ChooseBestPaymentPlan, First
<1>2. CASE list # <<>>
  <2>1. PICK i \in DOMAIN list : ChooseBestPaymentPlan(list, base, w) = list[i]
    BY <1>2, BestIs
  <2>2. list[i] \in PlanQuotes(base)
    OBVIOUS
  <2>3. NoTerm \notin PlanQuotes(base)
    BY NoTermIsNoQuote DEF PlanQuotes
  <2>. QED  BY <1>2, <2>1, <2>2, <2>3
<1>. QED  BY <1>1, <1>2

LEMMA OffersTypedStep == OfferInv /\ OfferInv' /\ OffersTyped /\ [OffersNext]_offerVars => OffersTyped'
<1> SUFFICES ASSUME OfferInv, OfferInv', OffersTyped, [OffersNext]_offerVars
             PROVE  OffersTyped'
  OBVIOUS
<1>1. price' \in UnitPrices /\ changes \in 0..MaxChanges
  BY DEF OfferInv, OffersTyped
<1>2. ASSUME NEW w, ReadUnit(w)
      PROVE  OffersTyped'
  <2>1. asker'.step = "read" /\ changes' = changes
    BY <1>2 DEF ReadUnit
  <2>. QED  BY <1>1, <2>1 DEF OffersTyped
<1>3. CASE AttachEffectivePaymentPlans
  <2> DEFINE w == asker.wish
             base == asker.price
             list == Effective(asker.direct, asker.price)
             best == ChooseBestPaymentPlan(list, base, w)
  <2>1. w \in Wishes /\ base \in UnitPrices /\ asker.direct \in Terms \cup {NoTerm}
    BY <1>3 DEF AttachEffectivePaymentPlans, OfferInv
  <2>2. list \in Seq(PlanQuotes(base))
    BY <2>1, EffectiveQuotes DEF OfferInv
  <2>3. best = NoTerm <=> list = <<>>
    BY <2>1, <2>2, SomePlan
  <2>4. /\ changes' = changes
        /\ \/ asker'.step = "answered" /\ asker'.plans = list /\ asker'.best = best
           \/ asker' = NotAsking
    BY <1>3 DEF AttachEffectivePaymentPlans
  <2> HIDE DEF list, best
  <2>5. asker'.step = "answered" => (asker'.best = NoTerm <=> asker'.plans = <<>>)
    BY <2>3, <2>4 DEF NotAsking
  <2>. QED  BY <1>1, <2>4, <2>5 DEF OffersTyped
<1>4. ASSUME Change
      PROVE  OffersTyped'
  <2>1. changes' \in 0..MaxChanges /\ asker' = asker
    BY <1>1, <1>4, OffersAssumption DEF Change
  <2>. QED  BY <1>1, <2>1 DEF OffersTyped
<1>5. CASE UNCHANGED offerVars
  BY <1>5 DEF offerVars, OffersTyped
<1>. QED  BY <1>2, <1>3, <1>4, <1>5 DEF OffersNext, AddPlan, UpdatePlan, DropPlan, SetPrice

\* Whenever a unit has a plan, one is put forward (attachEffectivePaymentPlans): for any plans,
\* prices and wishes.
THEOREM PlansPutForward == OffersSpec => []OffersTyped
<1>1. OffersInit => OffersTyped
  BY OffersAssumption DEF OffersInit, NotAsking, OffersTyped
<1>. QED  BY <1>1, OffersStart, OffersKept, OffersTypedStep, PTL DEF OffersSpec

\* What a customer is shown of the catalogue was on sale, fits a hard budget and has the
\* bathrooms asked for, whoever filled the cache and whatever changed since
\* (searchPropertiesWithMetadata, validatePropertyAgainstActiveRequirement), and the plan put
\* forward with it fits the customer's limits and adds up (chooseBestPaymentPlan,
\* paymentChoices): for any inventory, requirements, plans and wishes.
THEOREM ShownMeetsRequirement == SearchSpec /\ OffersSpec => []AnswersMeetRequirement
<1>1. SearchSpec => []UnitsMeetRequirement
  BY SearchStart, SearchKept, SearchMeets, PTL DEF SearchSpec
<1>2. OfferInv => OffersSuit
  BY DEF OfferInv
<1>3. OffersSpec => []OffersSuit
  BY <1>2, OffersStart, OffersKept, PTL DEF OffersSpec
<1>4. UnitsMeetRequirement /\ OffersSuit => AnswersMeetRequirement
  BY DEF AnswersMeetRequirement
<1>. QED  BY <1>1, <1>3, <1>4, PTL

=============================================================================
