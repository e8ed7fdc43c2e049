--------------------------- MODULE ProjectKnowledge ---------------------------
(***************************************************************************)
(* What documents say of a project, and what of it customers are told      *)
(* (knowledge/knowledge.service.ts).  A document is stored before a model  *)
(* reads it and its items are stored together afterwards; a pasted text is *)
(* read first and its items are stored by category, without a transaction. *)
(* Approving one record approves, in a second statement, whatever items of *)
(* the project are pending by then.  Customers are told approved items.    *)
(*                                                                         *)
(* One project.  Of an extracted entry only this is kept: whether it has   *)
(* content, and whether what it cites is in the text.                      *)
(***************************************************************************)
EXTENDS Integers, Sequences, FiniteSets, Functions

CONSTANTS Texts,        \* records of documents and pasted texts
          Items,        \* items
          Readings,     \* what a model may make of a text: an entry for each category, "empty",
                        \* "cited" or "found" in the text, or the model's "own"
          Editors,      \* requests in flight
          MaxEdits,     \* bound on the requests made
          Blank       \* no row, file or value

\* Readings are sequences of entries; Blank is no text and no row.
ASSUME KnowledgeAssumption ==
  /\ Readings \subseteq Seq({"empty", "cited", "found", "own"})
  /\ MaxEdits \in Nat
  /\ Blank \notin {"PENDING", "APPROVED", "REJECTED"}
  /\ LET sources == {"cited", "found", Blank}  statuses == {"PENDING", "APPROVED", "REJECTED"} IN
     /\ Blank \notin [of : Texts, status : statuses, source : sources, vetted : BOOLEAN]
     /\ Blank \notin [structured : {"pending", "stored", "unavailable"}, status : statuses, due : Nat, together : BOOLEAN]

VARIABLES knowledge,  \* ProjectKnowledge
          item,       \* ProjectKnowledgeItem
          admin,      \* where each request is
          asked

knowledgeVars == <<knowledge, item, admin, asked>>

ItemStatuses == {"PENDING", "APPROVED", "REJECTED"}

NoTask == [at |-> "free", about |-> Blank, left |-> <<>>]

Begin(p, job) == /\ admin[p].at = "free" /\ asked < MaxEdits
                 /\ asked' = asked + 1 /\ admin' = [admin EXCEPT ![p] = job]
Go(p, place, left) == admin' = [admin EXCEPT ![p].at = place, ![p].left = left]
End(p) == admin' = [admin EXCEPT ![p] = NoTask]

Unused == {i \in Items : item[i] = Blank}
Of(k) == {i \in Items : item[i] # Blank /\ item[i].of = k}

\* extracted: entries without content are dropped; the source is the passage cited, or the
\* content itself, when the text has it.
WithContent(reading) == {c \in DOMAIN reading : reading[c] # "empty"}
Source(entry) == IF entry \in {"cited", "found"} THEN entry ELSE Blank

\* The items of some categories of a reading, each in a row of its own.
CreatedItems(k, reading, rows) ==
  [i \in Items |-> IF i \in DOMAIN rows
                   THEN [of |-> k, status |-> "PENDING", source |-> Source(reading[rows[i]]), vetted |-> FALSE]
                   ELSE item[i]]
NewRows(categories) == UNION {Bijection(new, categories) : new \in SUBSET Unused}

-----------------------------------------------------------------------------
\* upload: the document and its record are stored, then the model reads.
BeginUpload(p, k) ==
  /\ knowledge[k] = Blank
  /\ Begin(p, [NoTask EXCEPT !.at = "read", !.about = k])
  /\ knowledge' = [knowledge EXCEPT ![k] =
       [structured |-> "pending", status |-> "PENDING", due |-> 0, together |-> TRUE]]
  /\ UNCHANGED item

\* An answer of the model, or <<>> for a failure.
ExtractKnowledge(p) ==
  /\ admin[p].at = "read"
  /\ \E reading \in Readings \cup {<<>>} : Go(p, "store", reading)
  /\ UNCHANGED <<knowledge, item, asked>>

StoreUpload(p) ==
  LET k == admin[p].about  reading == admin[p].left IN
  /\ admin[p].at = "store"
  /\ knowledge' = [knowledge EXCEPT ![k].structured = IF reading = <<>> THEN "unavailable" ELSE "stored",
                                    ![k].due = Cardinality(WithContent(reading))]
  /\ \E rows \in NewRows(WithContent(reading)) : item' = CreatedItems(k, reading, rows)
  /\ End(p) /\ UNCHANGED asked

\* paste: the model reads first, and when it fails nothing is stored.
BeginPaste(p) ==
  /\ \E reading \in Readings : Begin(p, [NoTask EXCEPT !.at = "paste", !.left = reading])
  /\ UNCHANGED <<knowledge, item>>

StorePaste(p) ==
  LET reading == admin[p].left IN
  /\ admin[p].at = "paste"
  /\ \E k \in Texts :
       /\ knowledge[k] = Blank
       /\ knowledge' = [knowledge EXCEPT ![k] =
            [structured |-> "stored", status |-> "PENDING", due |-> Cardinality(WithContent(reading)),
             together |-> FALSE]]
       /\ admin' = [admin EXCEPT ![p].at = "category", ![p].about = k]
  /\ UNCHANGED <<item, asked>>

\* The items of the next category.
PasteCategory(p) ==
  LET k == admin[p].about  reading == admin[p].left  next == Cardinality(Of(k)) + 1
      todo == {c \in WithContent(reading) : Cardinality({d \in WithContent(reading) : d <= c}) = next} IN
  /\ admin[p].at = "category"
  /\ IF todo = {} THEN End(p) /\ UNCHANGED item
     ELSE /\ \E rows \in NewRows(todo) : item' = CreatedItems(k, reading, rows)
          /\ UNCHANGED admin
  /\ UNCHANGED <<knowledge, asked>>

-----------------------------------------------------------------------------
\* approve: first the record, then the items of the whole project that are pending.
BeginApprove(p, k) ==
  /\ knowledge[k] # Blank
  /\ Begin(p, [NoTask EXCEPT !.at = "approve", !.about = k])
  /\ knowledge' = [knowledge EXCEPT ![k].status = "APPROVED"]
  /\ UNCHANGED item

\* Mutant: the items of the project, whatever was decided about them.
AllItems == {i \in Items : item[i] # Blank}
PendingItems == {i \in Items : item[i] # Blank /\ item[i].status = "PENDING"}

ApproveItems(p) ==
  LET taken == PendingItems IN
  /\ admin[p].at = "approve"
  /\ item' = [i \in Items |->
       IF i \in taken THEN [item[i] EXCEPT !.status = "APPROVED", !.vetted = item[i].status # "REJECTED"]
       ELSE item[i]]
  /\ End(p) /\ UNCHANGED <<knowledge, asked>>

\* An item's text is changed, and with it its status, or not.
UpdateItem(p, i, status) ==
  /\ item[i] # Blank /\ asked < MaxEdits /\ asked' = asked + 1
  /\ item' = [item EXCEPT ![i].status = IF status = Blank THEN @ ELSE status,
                          ![i].vetted = IF status = Blank THEN @ ELSE status = "APPROVED"]
  /\ UNCHANGED <<knowledge, admin>>

\* A request is lost between two of its statements.
Abandon(p) ==
  /\ admin[p].at # "free" /\ End(p)
  /\ UNCHANGED <<knowledge, item, asked>>

KnowledgeInit ==
  /\ knowledge = [k \in Texts |-> Blank] /\ item = [i \in Items |-> Blank]
  /\ admin = [p \in Editors |-> NoTask] /\ asked = 0

KnowledgeNext ==
  \E p \in Editors :
    \/ \E k \in Texts : BeginUpload(p, k) \/ BeginApprove(p, k)
    \/ BeginPaste(p) \/ ExtractKnowledge(p) \/ StoreUpload(p) \/ StorePaste(p) \/ PasteCategory(p)
    \/ ApproveItems(p) \/ Abandon(p)
    \/ \E i \in Items, status \in ItemStatuses \cup {Blank} : UpdateItem(p, i, status)

KnowledgeSpec == KnowledgeInit /\ [][KnowledgeNext]_knowledgeVars

-----------------------------------------------------------------------------
\* Rows are rows of the tables.
KnowledgeTyped ==
  /\ \A i \in Items : item[i] # Blank => item[i].status \in ItemStatuses /\ knowledge[item[i].of] # Blank
  /\ \A k \in Texts : knowledge[k] # Blank => knowledge[k].status \in ItemStatuses
  /\ asked \in 0..MaxEdits

\* However uploads, approvals and decisions about single items overlap and break off:
\* customers are told no item that was refused since it was last approved, an item stored
\* after an approval waits for the next, and the items of an uploaded document are there
\* all or not at all, those of a pasted text never more than were read (upload, paste,
\* approve, updateItem; README: knowledge must be approved before it is customer truth).
KnowledgeVetted ==
  /\ \A i \in Items : item[i] # Blank /\ item[i].status = "APPROVED" => item[i].vetted
  /\ \A k \in Texts : knowledge[k] # Blank =>
       IF knowledge[k].together THEN Cardinality(Of(k)) = knowledge[k].due
       ELSE Cardinality(Of(k)) <= knowledge[k].due
=============================================================================
