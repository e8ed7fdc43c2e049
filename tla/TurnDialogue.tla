---------------------------- MODULE TurnDialogue ----------------------------
(***************************************************************************)
(* What a turn that Nadim answers does to one conversation: the state the  *)
(* engine derives from what was understood, the budget in EGP, the         *)
(* requirements a customer keeps apart, the tools, and the reservation.    *)
(*                                                                         *)
(* Turns of one conversation follow each other here (NadimTurns lets them  *)
(* overlap); each is the statements the handler commits one by one, and    *)
(* may fail after any of them, which loses the state but not the rows.     *)
(* What the language model understands is an input.  A search is a place   *)
(* (a criterion stored as a list) and a budget (scalars); the value in EGP *)
(* of an amount is written as the pair that was converted.                 *)
(***************************************************************************)
EXTENDS Integers, Sequences, FiniteSets

CONSTANTS
  Units,            \* inventory
  Places,           \* values of the list criteria
  Amounts,          \* values of budgetMax
  None,
  MaxTurns,         \* bound on the turns of the conversation
  MaxRequirements   \* bound on the requirements it opens

VARIABLES
  saved,        \* NadimConversation.state
  active,       \* NadimConversation.activeRequirementId, 0 when null
  rows,         \* PropertyRequirement, in the order of creation
  contact,      \* Customer.name and normalizedPhone
  turn,         \* the turn in progress
  turns,        \* how many were started
  bookings,     \* reservation requests the automation API committed
  topic,        \* history: the requirement the customer talks about, 0 for a new one
  chosen,       \* history: the units the customer pointed at
  failed        \* history: whether some turn failed

history == <<topic, chosen, failed>>
dvars == <<saved, active, rows, contact, turn, turns, bookings, history>>

Currencies == {"EGP", "USD"}
Money == Amounts \X Currencies
Fields == {"name", "phone", "payment"}
Phones == {"own", "another customer's"}

-----------------------------------------------------------------------------
(* State *)

Constraint == [of : (Amounts \cup {None}) \X Currencies, strictness : {"HARD", "APPROXIMATE"}]
Worth == Money \cup {None}
Budget == [of : Money, egp : Worth]
Search_ == [place : Places \cup {None}, amount : Amounts \cup {None},
            currency : Currencies \cup {None}, constraint : Constraint \cup {None},
            budget : Budget \cup {None}]
Results_ == [ids : {<<>>} \cup UNION {[1..n -> Units] : n \in 1..2}, place : Places \cup {None}]
Pending == [unit : Units, name : BOOLEAN, phone : Phones \cup {None}, payment : BOOLEAN]

\* None stands for a column without a value.
ASSUME DialogueConstants ==
  /\ None \notin Places \cup Units \cup Amounts /\ None \notin Currencies \cup Phones
  /\ None \notin Money /\ None \notin Constraint /\ None \notin Budget /\ None \notin Pending
  /\ MaxTurns \in Nat /\ MaxRequirements \in Nat

NoSearch == [place |-> None, amount |-> None, currency |-> None,
             constraint |-> None, budget |-> None]
NoResults == [ids |-> <<>>, place |-> None]
InitialState == [search |-> NoSearch, selected |-> None, compared |-> {},
                 results |-> NoResults, clarify |-> None, pending |-> None,
                 contexts |-> [r \in 1..MaxRequirements |-> None]]

Currency(search) == IF search.currency = None THEN "EGP" ELSE search.currency
Asked(search) == <<search.amount, Currency(search)>>

ClearSelection(st) ==
  [st EXCEPT !.selected = None, !.compared = {}, !.results = NoResults]

\* One operation of the engine; op.field is "search", a list or a scalar.
ApplyOperation(st, op) ==
  CASE op.op = "RESET" /\ op.field = "search" ->
         ClearSelection([st EXCEPT !.search = NoSearch])
    [] op.op = "REMOVE" -> [st EXCEPT !.search = [@ EXCEPT ![op.field] = None]]
    [] op.op = "SET" /\ op.field # "strictness" -> [st EXCEPT !.search = [@ EXCEPT ![op.field] = op.value]]
    [] OTHER -> st

\* The operations of a message in their order; no message has more than two here.
ApplyOperations(st, ops) ==
  CASE ops = <<>> -> st
    [] Len(ops) = 1 -> ApplyOperation(st, ops[1])
    [] OTHER -> ApplyOperation(ApplyOperation(st, ops[1]), ops[2])

SyncBudgetConstraint(search, ops) ==
  LET touched == \E i \in DOMAIN ops : ops[i].field \in {"amount", "currency", "strictness"}
      explicit == {ops[i].value : i \in {j \in DOMAIN ops :
                                            ops[j].op = "SET" /\ ops[j].field = "strictness"}}
      prior == search.constraint
      kept == prior # None /\ prior.of = Asked(search)
  IN CASE ~touched -> search
       [] touched /\ search.amount = None ->
            [search EXCEPT !.constraint = None, !.budget = None]
       [] OTHER -> [search EXCEPT !.constraint =
            [of |-> Asked(search),
             strictness |-> IF explicit # {} THEN CHOOSE s \in explicit : TRUE
                            ELSE IF kept THEN prior.strictness ELSE "HARD"]]

\* Ordinals point into the results that survived the operations.
ResolveOrdinals(st, intent, ordinals) ==
  LET found == {n \in 1..Len(ordinals) : ordinals[n] <= Len(st.results.ids)}
      unit(n) == st.results.ids[ordinals[n]]
  IN CASE ordinals = <<>> -> st
       [] ordinals # <<>> /\ found # 1..Len(ordinals) -> [st EXCEPT !.clarify =
            IF st.results.ids = <<>> THEN "RESULT_LIST_EMPTY" ELSE "RESULT_REFERENCE_NOT_FOUND"]
       [] ordinals # <<>> /\ intent = "COMPARISON" /\ found = 1..Len(ordinals) ->
            [st EXCEPT !.compared = {unit(n) : n \in found}]
       [] OTHER -> [st EXCEPT !.selected = unit(Len(ordinals))]

Passive == {"GREETING", "CURRENT_SEARCH_QUERY"}
Searching == {"PROPERTY_SEARCH", "MODIFY_SEARCH"}

\* Mutant: the results outlive a change of criteria.
ApplyKeepingResults(st, m) ==
  LET ops == IF m.intent \in Passive THEN <<>> ELSE m.ops
      next == ApplyOperations(st, ops)
      synced == [next EXCEPT !.search = SyncBudgetConstraint(next.search, ops)]
  IN ResolveOrdinals([synced EXCEPT !.clarify = None], m.intent, m.ordinals)

\* StateEngineService.apply
Apply(st, m) ==
  LET ops == IF m.intent \in Passive THEN <<>> ELSE m.ops
      next == ApplyOperations(st, ops)
      synced == [next EXCEPT !.search = SyncBudgetConstraint(next.search, ops)]
      current == IF ops = <<>> THEN synced ELSE ClearSelection(synced)
  IN ResolveOrdinals([current EXCEPT !.clarify = None], m.intent, m.ordinals)

Converted(search, rate) ==
  LET strictness == IF search.constraint = None THEN "HARD" ELSE search.constraint.strictness
  IN [search EXCEPT
       !.currency = Currency(search),
       !.constraint = [of |-> Asked(search), strictness |-> strictness],
       !.budget = [of |-> Asked(search),
                   egp |-> IF Currency(search) = "EGP" \/ rate THEN Asked(search) ELSE None]]

\* Mutant: a budget outlives its removal.
NormalizeAnyBudget(search, rate) ==
  IF search.budget # None /\ search.budget.of = Asked(search) THEN search
  ELSE Converted(search, rate)

\* NadimV2Service.normalizeBudget; rate: whether FxRateService has one.
NormalizeBudget(search, rate) ==
  CASE search.amount = None -> [search EXCEPT !.budget = None]
    [] search.amount # None /\ search.budget # None /\ search.budget.of = Asked(search) -> search
    [] OTHER -> Converted(search, rate)

-----------------------------------------------------------------------------
(* Requirements *)

NoRow == [place |-> None, amount |-> None, currency |-> None, original |-> None,
          egp |-> None, selected |-> None, compared |-> {}, results |-> NoResults,
          status |-> "OPEN"]

HasCriteria(search) == search.place # None \/ search.amount # None

\* An undefined value leaves the column of an updated row alone.
Kept(new, old) == IF new = None THEN old ELSE new

RequirementRow(st, old) ==
  LET s == st.search IN
  [place |-> s.place, amount |-> Kept(s.amount, old.amount),
   currency |-> Kept(s.currency, old.currency),
   original |-> IF s.budget = None THEN old.original ELSE s.budget.of,
   egp |-> IF s.budget = None THEN old.egp ELSE Kept(s.budget.egp, old.egp),
   selected |-> Kept(st.selected, old.selected), compared |-> st.compared,
   results |-> st.results, status |-> "OPEN"]

StateFromRequirement(st, id) ==
  LET row == rows[id]
      money == [amount |-> row.amount, currency |-> row.currency]
      ctx == IF st.contexts[id] # None THEN st.contexts[id]
             ELSE IF row.amount = None THEN None
             ELSE [of |-> Asked(money), strictness |-> "HARD"]
  IN [st EXCEPT !.search = [place |-> row.place, amount |-> row.amount,
                            currency |-> row.currency, constraint |-> ctx,
                            budget |-> IF row.original = None THEN None
                                       ELSE [of |-> row.original, egp |-> row.egp]],
                !.selected = row.selected, !.compared = row.compared,
                !.results = [row.results EXCEPT !.place = row.place],
                !.clarify = None]

-----------------------------------------------------------------------------
(* Messages, as understood *)

Quiet == [intent |-> "CONVERSATION", ops |-> <<>>, ordinals |-> <<>>, code |-> None,
          return |-> 0, another |-> FALSE, given |-> {}, phone |-> "own",
          submit |-> FALSE, again |-> FALSE]
Set(f, v) == [op |-> "SET", field |-> f, value |-> v]
Drop(f) == [op |-> "REMOVE", field |-> f, value |-> None]
Reset == [op |-> "RESET", field |-> "search", value |-> None]

Briefs == {<<Set("place", p)>> : p \in Places}
            \cup {<<Set("amount", a), Set("currency", c)>> : a \in Amounts, c \in Currencies}
Changes == Briefs \cup {<<Drop("amount")>>, <<Drop("place")>>, <<Set("currency", "EGP")>>,
                        <<Set("strictness", "APPROXIMATE")>>}

Messages ==
  {[Quiet EXCEPT !.intent = "GREETING", !.ops = o] : o \in {<<>>, <<Reset>>}}
    \cup {[Quiet EXCEPT !.intent = "MODIFY_SEARCH", !.ops = o] : o \in Changes}
    \cup {[Quiet EXCEPT !.intent = "RESET_SEARCH", !.ops = <<Reset>>]}
    \cup {[Quiet EXCEPT !.again = TRUE]}
    \cup {[Quiet EXCEPT !.another = TRUE]}
    \cup {[Quiet EXCEPT !.another = TRUE, !.intent = "PROPERTY_SEARCH", !.ops = o] : o \in Briefs}
    \cup {[Quiet EXCEPT !.return = r] : r \in 1..MaxRequirements}
    \cup {[Quiet EXCEPT !.intent = "COMPARISON", !.ordinals = <<1, 2>>]}
    \cup {[Quiet EXCEPT !.intent = "PRICE_QUESTION", !.ordinals = <<n>>] : n \in 1..2}
    \cup {[Quiet EXCEPT !.intent = "PRICE_QUESTION", !.code = u] : u \in Units}
    \cup {[Quiet EXCEPT !.intent = "RESERVATION_REQUEST"]}
    \cup {[Quiet EXCEPT !.intent = "RESERVATION_REQUEST", !.given = Fields, !.phone = p] :
            p \in Phones}
    \cup {[Quiet EXCEPT !.given = {"phone"}, !.submit = TRUE]}

Independent(m) == m.another \/ saved.clarify = "NEW_REQUIREMENT_EXPECTED"

-----------------------------------------------------------------------------
(* The reservation journey *)

\* reservationTransition: the pending request after this message, None without one.
Reservation(st, m) ==
  LET old == st.pending
      unit == IF st.selected # None THEN st.selected ELSE IF old # None THEN old.unit ELSE None
      had == IF old = None THEN [name |-> FALSE, phone |-> None, payment |-> FALSE] ELSE old
  IN IF (m.intent # "RESERVATION_REQUEST" /\ old = None) \/ unit = None THEN None
     ELSE [unit |-> unit,
           name |-> "name" \in m.given \/ had.name \/ contact.name,
           phone |-> IF "phone" \in m.given THEN m.phone ELSE Kept(had.phone, contact.phone),
           payment |-> "payment" \in m.given \/ had.payment]

Missing(p) == {f \in Fields : \/ f = "name" /\ ~p.name
                              \/ f = "phone" /\ p.phone = None
                              \/ f = "payment" /\ ~p.payment}
ShouldSubmit(p, m) ==
  /\ p # None
  /\ Missing(p) = {}
  /\ m.intent = "RESERVATION_REQUEST" \/ m.submit \/ "payment" \in m.given

-----------------------------------------------------------------------------
(* The turn *)

NoTurn == [step |-> "idle", st |-> InitialState, req |-> 0, brief |-> 0, briefs |-> FALSE,
           fresh |-> FALSE, plan |-> {}, code |-> None, query |-> None,
           reserve |-> FALSE, verified |-> FALSE]

Init ==
  /\ saved = InitialState
  /\ active = 0 /\ rows = <<>>
  /\ contact = [name |-> FALSE, phone |-> None]
  /\ turn = NoTurn /\ turns = 0
  /\ bookings = {}
  /\ topic = 0 /\ chosen = {} /\ failed = FALSE

\* PlannerService.plan, before it looks at a pending clarification.
Tools(st, m) ==
  LET unclear == m.return > Len(rows)              \* the ambiguity is asked back
      searches == ~unclear /\ (m.intent \in Searching \/ m.again)
      questions == ~unclear /\ ~searches
  IN CASE searches -> {"PROPERTY_SEARCH"}
       [] questions /\ m.intent = "COMPARISON" /\ Cardinality(st.compared) >= 2 -> {"COMPARE_PROPERTIES"}
       [] questions /\ m.intent = "PRICE_QUESTION" /\ (m.code # None \/ st.selected # None) -> {"GET_UNIT_FACTS"}
       [] OTHER -> {}

\* The next write a turn comes to.
AfterTools(t) == [t EXCEPT !.step = IF t.plan # {} THEN "tools" ELSE
                             IF t.reserve THEN "reserve" ELSE
                             IF t.req # 0 THEN "context" ELSE "persist"]
AfterBrief(t) ==
  AfterTools([t EXCEPT !.plan =
    (IF t.st.clarify = None THEN @ ELSE {}) \cup (IF t.reserve THEN {"GET_PAYMENT_PLAN"} ELSE {})])
AfterContact(t) == IF t.briefs THEN [t EXCEPT !.step = "brief"] ELSE AfterBrief(t)
AfterEngine(t, p) ==
  IF p # None /\ (p.name \/ p.phone # None) THEN [t EXCEPT !.step = "contact"] ELSE AfterContact(t)

\* The turn that this message starts from state st, the requirement req being active.
Understood(m, rate, st, req) ==
  LET base == IF Independent(m)
              THEN ClearSelection([st EXCEPT !.search = NoSearch, !.clarify = None]) ELSE st
      applied == Apply(base, m)
      budgeted == [applied EXCEPT !.search = NormalizeBudget(@, rate)]
      pending == Reservation(budgeted, m)
      reserving == IF pending = None THEN budgeted
                   ELSE [budgeted EXCEPT !.pending = pending,
                           !.clarify = IF Missing(pending) = {} THEN @ ELSE "RESERVATION_FIELD"]
      final == IF m.another /\ ~HasCriteria(reserving.search)
               THEN [reserving EXCEPT !.clarify = "NEW_REQUIREMENT_EXPECTED"] ELSE reserving
  IN AfterEngine([NoTurn EXCEPT !.st = final, !.req = req, !.fresh = Independent(m),
                    !.briefs = m.intent \in Searching /\ HasCriteria(final.search),
                    !.plan = Tools(final, m), !.code = m.code,
                    !.reserve = ShouldSubmit(pending, m)], pending)

\* Up to the first write after the state engine; returning to a requirement commits
\* which one is active.
Understand(m, rate) ==
  LET returns == m.return \in 1..Len(rows) IN
  /\ turn = NoTurn /\ turns < MaxTurns
  /\ turns' = turns + 1
  /\ IF returns
     THEN /\ active' = m.return
          /\ turn' = Understood([m EXCEPT !.intent = "CURRENT_SEARCH_QUERY"], rate,
                                StateFromRequirement(saved, m.return), m.return)
     ELSE /\ turn' = Understood(m, rate, saved, active)
          /\ UNCHANGED active
  /\ topic' = IF returns THEN m.return ELSE IF m.another THEN 0 ELSE topic
  /\ chosen' = chosen \cup ({turn'.st.selected} \ {None})
  /\ UNCHANGED <<saved, rows, contact, bookings, failed>>

\* Mutant: the conflict clears the phone but not the request.
SaveContactUnblocked ==
  LET p == turn.st.pending IN
  /\ turn.step = "contact"
  /\ contact' = IF p.phone = "another customer's" THEN contact
                ELSE [name |-> p.name, phone |-> p.phone]
  /\ turn' = AfterContact(turn)
  /\ UNCHANGED <<saved, active, rows, turns, bookings, history>>

\* saveCustomerContact; the phone of another customer blocks the request.
SaveContact ==
  LET p == turn.st.pending
      conflict == p.phone = "another customer's"
  IN
  /\ turn.step = "contact"
  /\ contact' = IF conflict THEN contact ELSE [name |-> p.name, phone |-> p.phone]
  /\ turn' = AfterContact(IF conflict
                          THEN [turn EXCEPT !.reserve = FALSE,
                                  !.st = [@ EXCEPT !.pending = [p EXCEPT !.phone = None],
                                                   !.clarify = "RESERVATION_PHONE_CONFLICT"]]
                          ELSE turn)
  /\ UNCHANGED <<saved, active, rows, turns, bookings, history>>

\* saveRequirement, before any tool: the active requirement is updated unless the turn
\* starts an independent one.
SaveBrief ==
  LET st == turn.st
      creates == active = 0 \/ turn.fresh
      id == IF creates THEN Len(rows) + 1 ELSE active
  IN
  /\ turn.step = "brief"
  /\ id <= MaxRequirements
  /\ rows' = IF creates THEN Append(rows, RequirementRow(st, NoRow))
             ELSE [rows EXCEPT ![id] = RequirementRow(st, @)]
  /\ active' = id
  /\ turn' = AfterBrief([turn EXCEPT !.brief = id, !.req = id,
                            !.st = [@ EXCEPT !.contexts = [st.contexts EXCEPT ![id] = st.search.constraint]]])
  /\ topic' = IF creates THEN id ELSE topic
  /\ UNCHANGED <<saved, contact, turns, bookings, chosen, failed>>

-----------------------------------------------------------------------------
(* Tools *)

\* Mutant: the rate is not asked for.
ConvertibleAnyway(search) == TRUE

\* searchIntent: the budget a search compares EGP prices with.
Convertible(search) ==
  Currency(search) = "EGP" \/ (search.budget # None /\ search.budget.egp # None)
Ceiling(search) ==
  LET converted == search.budget # None /\ search.budget.egp # None IN
  CASE converted -> [unit |-> "EGP", value |-> search.budget.egp]
    [] ~converted /\ search.amount # None -> [unit |-> Currency(search), value |-> Asked(search)]
    [] OTHER -> None

\* What the inventory may answer.
Answers == {<<>>} \cup {<<u>> : u \in Units} \cup {s \in Units \X Units : s[1] # s[2]}

\* withResults and setRequirementStatus.
Search ==
  /\ turn.step = "tools" /\ "PROPERTY_SEARCH" \in turn.plan /\ Convertible(turn.st.search)
  /\ \E ids \in Answers :
       /\ turn' = AfterTools([turn EXCEPT !.plan = @ \ {"PROPERTY_SEARCH"},
                     !.query = Ceiling(turn.st.search),
                     !.st = [@ EXCEPT !.results = [ids |-> ids, place |-> turn.st.search.place]]])
       /\ rows' = IF turn.brief = 0 THEN rows
                  ELSE [rows EXCEPT ![turn.brief] =
                          [@ EXCEPT !.status = IF ids = <<>> THEN "NEEDS_MATCH" ELSE "MATCHED"]]
  /\ UNCHANGED <<saved, active, contact, turns, bookings, history>>

\* A tool that answers not ok (the FX gate, a lookup that finds nothing, an error).
ToolFails ==
  /\ turn.step = "tools"
  /\ \E tool \in turn.plan : turn' = AfterTools([turn EXCEPT !.plan = @ \ {tool}])
  /\ UNCHANGED <<saved, active, rows, contact, turns, bookings, history>>

\* A tool that changes no row; one asked by code selects the unit it found.
LookUp ==
  /\ turn.step = "tools"
  /\ \/ /\ "GET_UNIT_FACTS" \in turn.plan
        /\ turn' = AfterTools([turn EXCEPT !.plan = @ \ {"GET_UNIT_FACTS"},
                                           !.code = None,
                                           !.st = [@ EXCEPT !.selected = Kept(turn.code, turn.st.selected)]])
        /\ chosen' = chosen \cup ({turn.code} \ {None})
     \/ /\ "COMPARE_PROPERTIES" \in turn.plan
        /\ turn' = AfterTools([turn EXCEPT !.plan = @ \ {"COMPARE_PROPERTIES"}])
        /\ UNCHANGED chosen
     \/ /\ "GET_PAYMENT_PLAN" \in turn.plan
        /\ \E plans \in BOOLEAN :
             turn' = AfterTools([turn EXCEPT !.plan = @ \ {"GET_PAYMENT_PLAN"}, !.verified = plans])
        /\ UNCHANGED chosen
  /\ UNCHANGED <<saved, active, rows, contact, turns, bookings, topic, failed>>

-----------------------------------------------------------------------------
(* The action, the requirement's context, and the end *)

\* The reservation request; the client may report FAILED what the API committed.
Reserve ==
  LET p == turn.st.pending
      done == AfterTools([turn EXCEPT !.reserve = FALSE])
  IN
  /\ turn.step = "reserve"
  /\ \/ /\ turn.verified
        /\ \E committed, reported \in BOOLEAN :
             /\ reported => committed
             /\ bookings' = bookings \cup (IF committed THEN {[unit |-> p.unit, phone |-> p.phone]}
                                                        ELSE {})
             /\ turn' = [done EXCEPT !.st = [@ EXCEPT !.pending = IF reported THEN None ELSE p]]
     \/ /\ ~turn.verified
        /\ turn' = [done EXCEPT !.st = [@ EXCEPT !.clarify = "RESERVATION_PAYMENT_PLAN_UNAVAILABLE"]]
        /\ UNCHANGED bookings
  /\ UNCHANGED <<saved, active, rows, contact, turns, history>>

UpdateRequirementContext ==
  /\ turn.step = "context"
  /\ rows' = [rows EXCEPT ![turn.req] = [@ EXCEPT !.results = turn.st.results,
                                                  !.selected = turn.st.selected,
                                                  !.compared = turn.st.compared]]
  /\ turn' = [turn EXCEPT !.step = "persist"]
  /\ UNCHANGED <<saved, active, contact, turns, bookings, history>>

Persist ==
  /\ turn.step = "persist"
  /\ saved' = turn.st
  /\ turn' = NoTurn
  /\ UNCHANGED <<active, rows, contact, turns, bookings, history>>

\* The handler throws: what was committed stays, the state of the turn is lost.  One
\* failing turn is explored.
Throw ==
  /\ turn # NoTurn /\ ~failed
  /\ turn' = NoTurn
  /\ failed' = TRUE
  /\ UNCHANGED <<saved, active, rows, contact, turns, bookings, topic, chosen>>

Next ==
  \/ \E m \in Messages, rate \in BOOLEAN : Understand(m, rate)
  \/ SaveContact \/ SaveBrief
  \/ Search \/ ToolFails \/ LookUp
  \/ Reserve \/ UpdateRequirementContext \/ Persist
  \/ Throw

Spec == Init /\ [][Next]_dvars

-----------------------------------------------------------------------------
(* Properties *)

\* Every stored and running state is of the shape NadimStateSchema and the requirement rows
\* prescribe, and a turn works on an existing requirement.
TypeOK ==
  /\ \A st \in {saved, turn.st} :
       /\ st.search \in Search_ /\ st.results \in Results_
       /\ st.selected \in Units \cup {None} /\ st.compared \subseteq Units
       /\ st.pending \in Pending \cup {None}
  /\ active \in 0..Len(rows) /\ Len(rows) <= MaxRequirements
  /\ turn.step \in {"idle", "contact", "brief", "tools", "reserve", "context", "persist"}
  /\ \A r \in DOMAIN rows : rows[r].results \in Results_ /\ rows[r].egp \in Worth

\* The results that "the second one" points into were found for the place the search names
\* now: they survive no change of criteria, failing turn or new brief, and come back only
\* with the requirement they were stored with (StateEngineService.apply, withResults).
ResultsAreCurrent ==
  saved.results.ids # <<>> => saved.results.place = saved.search.place

\* While no turn has failed, a budget in the state is described three times alike: the
\* amount and currency asked for, the constraint, and what was converted to EGP
\* (syncBudgetConstraint, normalizeBudget, stateFromRequirement).
BudgetDescribed ==
  LET s == saved.search IN
  ~failed /\ s.amount # None =>
    /\ s.budget # None /\ s.budget.of = Asked(s)
    /\ s.constraint # None /\ s.constraint.of = Asked(s)

\* No search compares EGP prices with an amount in another currency, whatever the rates
\* did and whichever requirement the budget came back from (searchIntent).
EgpOnly == turn.query # None => turn.query.unit = "EGP"

\* The budget the customer means, the one Nadim speaks of and the one that is searched are the
\* same amount, in the currency of the catalogue where prices are compared.
BudgetSound == EgpOnly /\ BudgetDescribed

\* Whatever was asked, corrected, refused or answered in between, a reservation that
\* reaches the automation API is for a unit the customer pointed at, and never carries
\* the phone of another customer (reservationTransition, saveCustomerContact).
BookedAsChosen ==
  \A b \in bookings : b.unit \in chosen /\ b.phone = "own"

\* An independent brief is kept apart: while no turn has failed, the criteria of a stored
\* requirement change only in turns in which the customer talks about that requirement.
BriefsIndependent ==
  [][\A r \in DOMAIN rows :
       ~failed' /\ topic' # r =>
         <<rows'[r].place, rows'[r].amount>> = <<rows[r].place, rows[r].amount>>]_dvars
=============================================================================
