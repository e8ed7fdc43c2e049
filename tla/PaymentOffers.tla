---------------------------- MODULE PaymentOffers ----------------------------
(***************************************************************************)
(* The payment plans offered with a unit (payment-calculator.ts,           *)
(* property-search.service.ts, search/property-match-validator.ts,         *)
(* conversation/payment-presenter.service.ts).  A search reads the unit    *)
(* with its own plans, then the plans of its project and its phase, while  *)
(* administrators change them.  Every plan is quoted against the price     *)
(* that was read, the quotes are quoted again to choose the best of them,  *)
(* and the presenter computes what it tells the customer once more.        *)
(*                                                                         *)
(* Abstraction: one unit; each level has at most one plan.  Amounts are    *)
(* integers, chosen so that shares and instalments are whole.  Maintenance *)
(* and schedules of percentages, shares of the total like the down         *)
(* payment, are left out, and so are discounts of an amount, labels and    *)
(* currencies.                                                             *)
(***************************************************************************)
EXTENDS Integers, Sequences, PropertySearch

CONSTANTS Terms,       \* the plans administrators enter
          UnitPrices,      \* prices of the unit
          Wishes,      \* what customers ask of a plan
          MaxChanges,  \* bound on the changes made by administrators
          NoTerm

VARIABLES offered,  \* PaymentPlan: the active plan of each level, or NoTerm
          price,    \* Unit.price
          asker,    \* the search, and what it told the customer
          changes

offerVars == <<offered, price, asker, changes>>

Levels == <<"project", "phase", "unit">>

Or(a, b) == IF a # NoTerm THEN a ELSE b
AtLeast(low, a) == IF a < low THEN low ELSE a
Abs(a) == IF a < 0 THEN -a ELSE a

-----------------------------------------------------------------------------
(* Quotes *)

PaymentsPerYear(frequency) ==
  CASE frequency = "QUARTERLY" -> 4 [] frequency = "SEMI_ANNUAL" -> 2 [] frequency = "ANNUAL" -> 1
    [] OTHER -> 12

\* Instalments over the duration, rounded to the nearest, at least one.
Installments(p) ==
  IF p.months \in {NoTerm, 0} THEN NoTerm
  ELSE AtLeast(1, (2 * p.months * PaymentsPerYear(p.frequency) + 12) \div 24)

\* A fixed total beats a discount, an amount beats a percentage.
Total(p, base) == Or(p.total, AtLeast(0, base - (base * p.discount) \div 100))
Down(p, base) == Or(p.down, IF p.percent = NoTerm THEN NoTerm ELSE (Total(p, base) * p.percent) \div 100)

Instalment(p, base) ==
  LET n == Installments(p)
  IN  Or(p.instalment,
         IF n = NoTerm THEN NoTerm ELSE AtLeast(0, Total(p, base) - Or(Down(p, base), 0)) \div n)

ASSUME OffersAssumption ==
  /\ NoTerm \notin Int /\ UnitPrices \subseteq Nat \ {0} /\ MaxChanges \in Nat
  /\ Wishes \subseteq [down : Nat \cup {NoTerm}, monthly : Nat \cup {NoTerm}, months : Nat \cup {NoTerm},
                      percent : Nat \cup {NoTerm}]
  /\ \A p \in Terms :
       /\ DOMAIN p = {"name", "kind", "months", "frequency", "every", "percent", "down", "total", "discount",
                      "instalment", "monthly"}
       /\ {p.months, p.percent, p.down, p.total} \subseteq Nat \cup {NoTerm}
       /\ p.discount \in Nat /\ p.every \in Nat \ {0} /\ p.instalment = NoTerm

\* The abstraction of amounts: what is left after the down payment divides into the instalments.
ASSUME WholeAmounts ==
  \A p \in Terms, base \in UnitPrices :
    Installments(p) # NoTerm =>
      /\ Total(p, base) - Or(Down(p, base), 0) >= 0
      /\ (Total(p, base) - Or(Down(p, base), 0)) % Installments(p) = 0

QuotePaymentPlan(p, base) ==
  LET instalment == Instalment(p, base) IN
  [p EXCEPT !.total = Total(p, base), !.down = Down(p, base), !.instalment = instalment,
            !.discount = (AtLeast(0, base - Total(p, base)) * 100) \div base,
            !.monthly = IF instalment = NoTerm THEN NoTerm
                        ELSE (instalment * PaymentsPerYear(p.frequency)) \div 12]

\* What stands for no plan is no quote.
ASSUME NoTermIsNoQuote == \A p \in Terms, base \in UnitPrices : QuotePaymentPlan(p, base) # NoTerm

Within(limit, amount) == amount # NoTerm /\ amount <= limit
Suits(limit, amount) == IF limit = NoTerm THEN 0 ELSE IF Within(limit, amount) THEN 120 ELSE -120

\* The longer the better, or the closer to the duration asked for.
Term(q, w) == IF w.months # NoTerm THEN -Abs(Or(q.months, 0) - w.months) ELSE Or(q.months, 0)

\* The score of a quote, in twelfths.
Score(q, w) ==
  Term(q, w)
  + Suits(w.down, q.down) + Suits(w.monthly, q.monthly)
  - (IF w.percent # NoTerm THEN 12 * Abs(Or(q.percent, 999) - w.percent) ELSE 0)

\* The first of a list that stands at one of these places.
First(list, places) ==
  IF places = {} THEN NoTerm ELSE list[CHOOSE i \in places : \A j \in places : i <= j]

\* The first of the quotes with the best score.
ChooseBestPaymentPlan(list, base, w) ==
  LET quotes == [i \in DOMAIN list |-> QuotePaymentPlan(list[i], base)]
  IN  First(quotes, {i \in DOMAIN quotes : \A j \in DOMAIN quotes : Score(quotes[j], w) <= Score(quotes[i], w)})

-----------------------------------------------------------------------------
(* The plans of a unit *)

SameOffer(p, q) == p.months = q.months /\ p.name = q.name /\ p.frequency = q.frequency

\* A later level takes the place of an equivalent plan of an earlier one.
With(list, p) ==
  IF p = NoTerm THEN list
  ELSE IF \E i \in DOMAIN list : SameOffer(list[i], p)
  THEN [i \in DOMAIN list |-> IF SameOffer(list[i], p) THEN p ELSE list[i]]
  ELSE Append(list, p)

Effective(direct, base) ==
  LET list == With(With(With(<<>>, offered["project"]), offered["phase"]), direct)
  IN  [i \in DOMAIN list |-> QuotePaymentPlan(list[i], base)]

\* Each limit is met by some plan, though not all by one.
Accepted(list, w) ==
  /\ w.down # NoTerm => \E i \in DOMAIN list : Within(w.down, list[i].down)
  /\ w.monthly # NoTerm => \E i \in DOMAIN list : Within(w.monthly, list[i].monthly)
  /\ w.months # NoTerm => \E i \in DOMAIN list : list[i].months = w.months

-----------------------------------------------------------------------------
(* What the customer is told *)

PaymentPlanKind(p) ==
  IF p.kind = "CASH" \/ Or(p.months, 0) = 0 \/ Or(p.percent, 0) >= 100 THEN "CASH" ELSE "INSTALLMENT"

\* The presenter has rules of its own for what a quote left open.
PaymentPlanAmount(p, base) ==
  LET total == Or(p.total, base - (base * p.discount) \div 100)
      down == Or(p.down, IF p.percent = NoTerm THEN NoTerm ELSE (total * p.percent) \div 100)
      count == IF Or(p.months, 0) = 0 THEN NoTerm ELSE AtLeast(1, p.months \div p.every)
  IN  [total |-> total, down |-> down, frequency |-> p.frequency, months |-> p.months, every |-> p.every,
       instalment |-> Or(p.instalment, IF down = NoTerm \/ count = NoTerm THEN NoTerm
                                       ELSE AtLeast(0, total - down) \div count)]

Infinity == 1000000     \* beyond every amount

PaymentChoices(list, base) ==
  LET cash == {i \in DOMAIN list : PaymentPlanKind(list[i]) = "CASH"}
      loans == DOMAIN list \ cash
      Owed(p) == Or(PaymentPlanAmount(p, base).down, Infinity)
      chosen == {First(list, {i \in cash : \A j \in cash : list[i].total <= list[j].total}),
                 First(list, {i \in loans : \A j \in loans : list[i].months >= list[j].months}),
                 First(list, {i \in loans : \A j \in loans : list[i].months <= list[j].months}),
                 First(list, {i \in loans : \A j \in loans : Owed(list[i]) <= Owed(list[j])})}
  IN  {PaymentPlanAmount(p, base) : p \in chosen \ {NoTerm}}

-----------------------------------------------------------------------------
(* Steps *)

NotAsking == [step |-> "idle"]

\* The unit comes from the database or the cache, with its own plans.
ReadUnit(w) ==
  /\ asker.step # "read"
  /\ asker' = [step |-> "read", wish |-> w, price |-> price, direct |-> offered["unit"]]
  /\ UNCHANGED <<offered, price, changes>>

\* The plans of project and phase are read, quoted with its own, and the unit is checked.
AttachEffectivePaymentPlans ==
  LET w == asker.wish
      list == Effective(asker.direct, asker.price) IN
  /\ asker.step = "read"
  /\ asker' = IF Accepted(list, w)
              THEN [step |-> "answered", wish |-> w, price |-> asker.price, plans |-> list,
                    best |-> ChooseBestPaymentPlan(list, asker.price, w),
                    told |-> PaymentChoices(list, asker.price)]
              ELSE NotAsking
  /\ UNCHANGED <<offered, price, changes>>

Change == changes < MaxChanges /\ changes' = changes + 1 /\ UNCHANGED asker

AddPlan(level, p) ==
  /\ Change /\ offered[level] = NoTerm
  /\ offered' = [offered EXCEPT ![level] = p] /\ UNCHANGED price

UpdatePlan(level, p) ==
  /\ Change /\ offered[level] \notin {NoTerm, p}
  /\ offered' = [offered EXCEPT ![level] = p] /\ UNCHANGED price

\* Removed, or expired.
DropPlan(level) ==
  /\ Change /\ offered[level] # NoTerm
  /\ offered' = [offered EXCEPT ![level] = NoTerm] /\ UNCHANGED price

SetPrice(amount) ==
  /\ Change /\ price # amount
  /\ price' = amount /\ UNCHANGED offered

OffersInit ==
  /\ offered \in [{Levels[i] : i \in DOMAIN Levels} -> Terms \cup {NoTerm}]
  /\ price \in UnitPrices /\ asker = NotAsking /\ changes = 0

OffersNext ==
  \/ \E w \in Wishes : ReadUnit(w)
  \/ AttachEffectivePaymentPlans
  \/ \E level \in DOMAIN offered, p \in Terms : AddPlan(level, p) \/ UpdatePlan(level, p)
  \/ \E level \in DOMAIN offered : DropPlan(level)
  \/ \E amount \in UnitPrices : SetPrice(amount)

OffersSpec == OffersInit /\ [][OffersNext]_offerVars

-----------------------------------------------------------------------------
\* Some plan is put forward whenever there is one, and with amounts a customer can pay.
OffersTyped ==
  /\ price \in UnitPrices /\ changes \in 0..MaxChanges
  /\ asker.step = "answered" => (asker.best = NoTerm <=> asker.plans = <<>>)

Pays(q, w) == (w.down # NoTerm => Within(w.down, q.down)) /\ (w.monthly # NoTerm => Within(w.monthly, q.monthly))

\* As many instalments as the quote counted (the presenter may name another interval), with
\* the down payment, come to the total.
AddsUp(t) ==
  t.instalment # NoTerm => t.instalment * Installments(t) + Or(t.down, 0) = t.total

\* The plan put forward meets the customer's limits on the down payment and on the monthly
\* payment whenever one of the plans meets both (unless a share of the down payment was
\* asked for, which outweighs them, or the plan lasts so much longer, or comes so much closer
\* to the duration asked for, that twenty years do), its amounts are those of the plan in the
\* list, quoted once more, and what the presenter tells of any plan comes to the total of that
\* plan (chooseBestPaymentPlan, attachEffectivePaymentPlans, paymentChoices).
OffersSuit ==
  asker.step = "answered" =>
    /\ asker.best # NoTerm => \E i \in DOMAIN asker.plans : asker.plans[i] = asker.best
    /\ \A i \in DOMAIN asker.plans :
         asker.wish.percent = NoTerm /\ Pays(asker.plans[i], asker.wish) =>
           Pays(asker.best, asker.wish) \/ Term(asker.best, asker.wish) - Term(asker.plans[i], asker.wish) >= 240
    /\ \A t \in asker.told : AddsUp(t)

\* What is put before a customer meets what was asked: the units, and the plan to pay them.
AnswersMeetRequirement == UnitsMeetRequirement /\ OffersSuit
=============================================================================
