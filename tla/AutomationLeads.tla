-------------------------- MODULE AutomationLeads ---------------------------
(***************************************************************************)
(* The lead upsert of the automation API (apps/automation-api): a caller   *)
(* claims an idempotency key, the service resolves the customer from the   *)
(* identities of the request, finds or creates the lead, and commits both  *)
(* together with the answer to replay.  Callers overlap, repeat a call     *)
(* they gave up on, and the process may die anywhere in between.           *)
(*                                                                         *)
(* A transaction is two actions: Resolve, its reads, and Commit, its       *)
(* writes, since READ COMMITTED lets other transactions in between; the    *)
(* unique indexes are checked against what is committed by then.           *)
(*                                                                         *)
(* Abstraction: the phone stands for both unique contact fields, phone and *)
(* e-mail.  Names, lead preferences, lead events and audit records are     *)
(* left out, and so are requests that fail validation: they touch nothing. *)
(***************************************************************************)
EXTENDS Naturals, FiniteSets, SequencesExt

CONSTANTS Keys, Customers, Leads, PhoneNumbers, Channels,
          Clients,     \* callers of the API
          Empty,
          Requests     \* the requests of an instance, some of AnyRequest

VARIABLES execution,   \* the row of each idempotency key, or Empty
          customer,    \* the phone of each customer, "none" if it has none, or Empty
          identity,    \* the customer of each channel identity, or Empty
          lead,        \* the lead rows, or Empty
          call,        \* what the service does for each caller
          applied      \* what was committed under each key (history)

leadVars == <<execution, customer, identity, lead, call, applied>>

NoCall == [step |-> "idle"]
Unknown == "none"

\* A request: the identities it gives, and whether it has what a new lead needs.
AnyRequest == [customer : Customers \cup {Empty}, phone : PhoneNumbers \cup {Empty},
               channel : Channels \cup {Empty}, lead : Leads \cup {Empty}, data : BOOLEAN]

\* The rows of leads and of idempotency keys, and what is committed under a key.
Contacts == PhoneNumbers \cup {Unknown}
LeadRows == [customer : Customers \cup {Empty}, phone : Contacts, open : BOOLEAN]
Applications == [customer : Customers, lead : Leads \cup {Empty}]
Executions == [req : AnyRequest, status : {"PENDING", "SUCCEEDED", "FAILED"},
               answer : Applications \cup {Empty, "error"}]

\* Empty is no value of the tables, and no phone looks like a missing one.
ASSUME LeadsAssumption ==
  /\ Requests \subseteq AnyRequest
  /\ Unknown \notin PhoneNumbers
  /\ Empty \notin Customers \cup Leads \cup Contacts \cup Applications \cup Executions \cup LeadRows \cup {"error"}

\* A generated id, or none when the bound is reached.
FreshId(rows) == LET free == {i \in DOMAIN rows : rows[i] = Empty}
               IN IF free = {} THEN {} ELSE {CHOOSE i \in free : TRUE}

Goto(w, record) == call' = [call EXCEPT ![w] = record]

-----------------------------------------------------------------------------
(* Idempotency: idempotency.service.ts *)

\* The insert of a PENDING row is the claim.  Callers and keys are interchangeable: any that
\* are free will do.
Claim(w, k, r) ==
  /\ call[w] = NoCall /\ w = CHOOSE free \in Clients : call[free] = NoCall
  /\ k \in FreshId(execution)
  /\ execution' = [execution EXCEPT ![k] = [req |-> r, status |-> "PENDING", answer |-> Empty]]
  /\ Goto(w, [step |-> "claimed", key |-> k, req |-> r])
  /\ UNCHANGED <<customer, identity, lead, applied>>

\* A repetition, if an execution without an answer were taken for one that died.
RepeatRetryingPending(w, k, r) ==
  /\ call[w] = NoCall /\ execution[k] # Empty
  /\ Goto(w, IF execution[k].req = r /\ execution[k].answer = Empty
             THEN [step |-> "claimed", key |-> k, req |-> r] ELSE NoCall)
  /\ UNCHANGED <<execution, customer, identity, lead, applied>>

\* A key that exists is answered from its row: another request conflicts, one without an
\* answer is in progress, an answer is replayed.  Nothing changes.
Repeat(w, k, r) ==
  /\ call[w] = NoCall /\ execution[k] # Empty
  /\ UNCHANGED leadVars

\* complete and fail keep the request and record what a repetition will be told.
Decided(k, status, answer) ==
  [execution EXCEPT ![k] = [req |-> execution[k].req, status |-> status, answer |-> answer]]

-----------------------------------------------------------------------------
(* Identities: customer-identity.service.ts *)

ByPhone(r) == {c \in Customers : r.phone # Empty /\ customer[c] = r.phone}
ByChannel(r) == {c \in Customers : r.channel # Empty /\ identity[r.channel] = c}
Given(r) == {r.customer} \ {Empty}

\* The customers the identities of a request name; more than one is a conflict.
Candidates(r) == Given(r) \cup ByPhone(r) \cup ByChannel(r)

Conflicting(r) == Cardinality(Candidates(r)) > 1

Owner(r) == CHOOSE c \in Candidates(r) :
              \/ c \in Given(r)
              \/ Given(r) = {} /\ c \in ByPhone(r)
              \/ Given(r) \cup ByPhone(r) = {}

-----------------------------------------------------------------------------
(* The transaction: leads.service.ts execute *)

OpenLeads(c) == {l \in Leads : lead[l] # Empty /\ lead[l].customer = c /\ lead[l].open}

\* A lead the web chat left without a customer, found by its phone.
Legacy(r) == {l \in Leads : /\ lead[l] # Empty /\ lead[l].open
                            /\ lead[l].customer = Empty
                            /\ r.phone # Empty /\ lead[l].phone = r.phone}

\* Which lead the request means for customer c (Empty if c is new): of several the one
\* updated last, which is left open here.
Found(r, c) ==
  IF r.lead # Empty THEN {r.lead}
  ELSE LET own == IF c = Empty THEN {} ELSE OpenLeads(c) IN
       IF own # {} THEN own
       ELSE IF Legacy(r) # {} THEN Legacy(r)
       ELSE {Empty}

Refuse(w) == Goto(w, [step |-> "failing", key |-> call[w].key, req |-> call[w].req])

Resolve(w) ==
  LET r == call[w].req IN
  /\ call[w].step = "claimed"
  /\ IF r.customer # Empty /\ customer[r.customer] = Empty
     THEN Refuse(w)       \* CUSTOMER_NOT_FOUND
     ELSE IF Conflicting(r)
     THEN Refuse(w)       \* CUSTOMER_IDENTITY_CONFLICT
     ELSE \E l \in Found(r, IF Candidates(r) = {} THEN Empty ELSE Owner(r)) :
       LET c == IF Candidates(r) = {} THEN Empty ELSE Owner(r) IN
       IF l # Empty /\ (lead[l] = Empty \/ lead[l].customer \notin {Empty, c})
       THEN Refuse(w)     \* LEAD_NOT_FOUND, LEAD_CUSTOMER_CONFLICT
       ELSE Goto(w, [step |-> "writing", key |-> call[w].key, req |-> r,
                     customer |-> c, phone |-> IF c = Empty THEN Unknown ELSE customer[c],
                     linked |-> r.channel # Empty /\ identity[r.channel] # Empty,
                     lead |-> l, row |-> IF l = Empty THEN Empty ELSE lead[l]])
  /\ UNCHANGED <<execution, customer, identity, lead, applied>>

\* Columns are written only where the request differs from what was read.
Written(j, c) ==
  [customer |-> IF j.row.customer = Empty THEN c ELSE lead[j.lead].customer,
   phone |-> IF j.req.phone \notin {Empty, j.row.phone} THEN j.req.phone ELSE lead[j.lead].phone,
   open |-> lead[j.lead].open]

Created(j, c) ==
  [customer |-> c, open |-> TRUE,
   phone |-> IF j.req.phone # Empty THEN j.req.phone ELSE customer'[c]]

\* The writes, with the unique indexes of phone and channel identity; the commit may
\* succeed without the service hearing of it.
Commit(w) ==
  LET j == call[w]  r == j.req
      writesPhone == r.phone # Empty /\ (j.customer = Empty \/ r.phone # j.phone)
  IN
  /\ j.step = "writing"
  /\ \E c \in IF j.customer # Empty THEN {j.customer} ELSE FreshId(customer) :
     /\ writesPhone => \A d \in Customers \ {c} : customer[d] # r.phone
     /\ r.channel # Empty /\ ~j.linked => identity[r.channel] = Empty
     /\ customer' = [customer EXCEPT ![c] =
          IF writesPhone THEN r.phone ELSE IF j.customer = Empty THEN Unknown ELSE @]
     /\ identity' = IF r.channel = Empty \/ j.linked THEN identity
                    ELSE [identity EXCEPT ![r.channel] = c]
     /\ \/ j.lead # Empty
           /\ lead' = [lead EXCEPT ![j.lead] = Written(j, c)]
           /\ applied' = [applied EXCEPT ![j.key] = Append(@, [customer |-> c, lead |-> j.lead])]
        \/ /\ j.lead = Empty /\ r.data
           /\ \E l \in FreshId(lead) :
                /\ lead' = [lead EXCEPT ![l] = Created(j, c)]
                /\ applied' = [applied EXCEPT ![j.key] = Append(@, [customer |-> c, lead |-> l])]
        \/ /\ j.lead = Empty /\ ~r.data                        \* INSUFFICIENT_LEAD_DATA
           /\ applied' = [applied EXCEPT ![j.key] = Append(@, [customer |-> c, lead |-> Empty])]
           /\ UNCHANGED lead
  /\ execution' = Decided(j.key, "SUCCEEDED", Last(applied'[j.key]))
  /\ \E heard \in BOOLEAN :
       Goto(w, IF heard THEN NoCall ELSE [step |-> "failing", key |-> j.key, req |-> r])

\* A unique index, a deadlock or the database refuses: everything is rolled back.
Abort(w) ==
  /\ call[w].step = "writing"
  /\ Refuse(w)
  /\ UNCHANGED <<execution, customer, identity, lead, applied>>

\* fail, outside the transaction: the failure is what every repetition will be told.
FailCall(w) ==
  LET k == call[w].key IN
  /\ call[w].step = "failing"
  /\ execution' = Decided(k, "FAILED", "error")
  /\ Goto(w, NoCall)
  /\ UNCHANGED <<customer, identity, lead, applied>>

\* The process dies, or fail() does.
Crash(w) ==
  /\ call[w].step \in {"claimed", "writing", "failing"}
  /\ Goto(w, NoCall)
  /\ UNCHANGED <<execution, customer, identity, lead, applied>>

-----------------------------------------------------------------------------
(* Leads of the web chat and of the CRM *)

\* lead-handoff.service.ts creates its leads for a conversation, without a customer.
WebLead(l, p) ==
  /\ l \in FreshId(lead)
  /\ lead' = [lead EXCEPT ![l] = [customer |-> Empty, phone |-> p, open |-> TRUE]]
  /\ UNCHANGED <<execution, customer, identity, call, applied>>

\* The chat saves a contact (customer-lifecycle.service.ts); its unique index holds here too.
ChatCustomer(c, p) ==
  /\ c \in FreshId(customer) /\ \A d \in Customers : customer[d] # p
  /\ customer' = [customer EXCEPT ![c] = p]
  /\ UNCHANGED <<execution, identity, lead, call, applied>>

\* lead-crm.service.ts update: WON and LOST close a lead, any other status opens it.
UpdateStatus(l) ==
  /\ lead[l] # Empty
  /\ lead' = [lead EXCEPT ![l].open = ~@]
  /\ UNCHANGED <<execution, customer, identity, call, applied>>

LeadsInit ==
  /\ execution = [k \in Keys |-> Empty]
  /\ customer = [c \in Customers |-> Empty]
  /\ identity = [x \in Channels |-> Empty]
  /\ lead = [l \in Leads |-> Empty]
  /\ call = [w \in Clients |-> NoCall]
  /\ applied = [k \in Keys |-> <<>>]

LeadsNext ==
  \/ \E w \in Clients, k \in Keys, r \in Requests : Claim(w, k, r)
  \/ \E w \in Clients, k \in Keys :
       execution[k] # Empty /\ \E r \in {execution[k].req, [execution[k].req EXCEPT !.data = ~@]} : Repeat(w, k, r)
  \/ \E w \in Clients : Resolve(w) \/ Commit(w) \/ Abort(w) \/ FailCall(w) \/ Crash(w)
  \/ \E l \in Leads, p \in PhoneNumbers : WebLead(l, p)
  \/ \E c \in Customers, p \in PhoneNumbers : ChatCustomer(c, p)
  \/ \E l \in Leads : UpdateStatus(l)

LeadsSpec == LeadsInit /\ [][LeadsNext]_leadVars

-----------------------------------------------------------------------------
(* Properties *)

\* The unique indexes hold, and an answer is recorded exactly when the row is decided:
\* a row without one is what refuses repetitions as still in progress.
LeadsTypeOK ==
  /\ \A c, d \in Customers : customer[c] \in PhoneNumbers /\ customer[c] = customer[d] => c = d
  /\ \A x \in Channels : identity[x] # Empty => customer[identity[x]] # Empty
  /\ \A l \in Leads : lead[l] # Empty /\ lead[l].customer # Empty => customer[lead[l].customer] # Empty
  /\ \A k \in Keys : execution[k] # Empty => (execution[k].status = "PENDING" <=> execution[k].answer = Empty)

\* However often a caller repeats a key, whoever dies in between and whichever answers get
\* lost, the key is applied at most once; and what a repetition replays as a success is
\* what was committed (IdempotencyService.claim, complete, fail).
AppliedOnce ==
  \A k \in Keys :
    /\ Len(applied[k]) <= 1
    /\ execution[k] # Empty /\ execution[k].status = "SUCCEEDED" => applied[k] = <<execution[k].answer>>

\* What was applied under a key went to the customer the request itself names: the one it
\* gives and the owner of its channel identity, however many others resolved the same
\* identities meanwhile (CustomerIdentityService.resolve).
AppliedToOwner ==
  \A k \in Keys : \A i \in DOMAIN applied[k] :
    LET r == execution[k].req  c == applied[k][i].customer IN
    /\ r.customer # Empty => c = r.customer
    /\ r.channel # Empty => identity[r.channel] = c

\* A key is applied once, to the customer it names.
Applied == AppliedOnce /\ AppliedToOwner
=============================================================================
