--------------------------- MODULE PropertySearch ---------------------------
(***************************************************************************)
(* Searches of the catalogue through the application cache                 *)
(* (property-search.service.ts, application-cache.ts), while admins change *)
(* units (catalog.controller.ts).  A search asks the cache for the pool of *)
(* its key, loads and stores it on a miss, checks every unit of the pool   *)
(* against the customer's criteria, ranks and cuts.  Three facts of the    *)
(* code make this interesting: the key names fewer criteria than the query *)
(* (neither bathrooms nor projects); a loader that was overtaken by an     *)
(* invalidation still stores what it read; and a handler invalidates only  *)
(* after its commit and its audit record, so it may not get there.         *)
(*                                                                         *)
(* Abstraction: a unit has a price, a state and two fixed attributes; a    *)
(* requirement has a budget, bathrooms and a project, which stand for the  *)
(* criteria that are (in the key and validated), (only validated) and      *)
(* (neither).  Time is the remaining life of cache entries.                *)
(***************************************************************************)
EXTENDS Lists, FiniteSets, Functions

CONSTANTS Listings,      \* units: identifiers, naturals in the order of their ids
          ProjectOf,     \* the project of each unit
          TwoBaths,      \* the units with two bathrooms
          Prices,        \* prices, naturals
          Ceilings,      \* the ceilings customers name
          Named,         \* the projects customers ask for
          Readers,       \* searches that may overlap
          Limit,         \* results a search returns
          CacheTtl,      \* life of an entry, in ticks
          MaxEntries,    \* capacity of the cache
          MaxWrites,     \* bound: changes of units
          Anything

ASSUME SearchAssumption ==
  /\ Listings \subseteq Nat /\ IsFiniteSet(Listings)
  /\ Prices \subseteq Nat /\ Prices # {} /\ Ceilings \subseteq Nat
  /\ Limit \in Nat /\ MaxEntries \in Nat \ {0} /\ CacheTtl \in Nat /\ MaxWrites \in Nat

VARIABLES unit,      \* the catalogue: price and availability of each unit
          entries,   \* the cache, least recently used first
          search,    \* what each reader is doing
          owed,      \* handlers between their commit and their invalidation
          writes

searchVars == <<unit, entries, search, owed, writes>>

-----------------------------------------------------------------------------
(* Requirements and pools *)

Requirements ==
  {r \in [max : Ceilings \cup {Anything}, hard : BOOLEAN, baths : BOOLEAN,
          project : Named \cup {Anything}] : r.hard => r.max # Anything}

HardCeiling(r) == IF r.hard THEN r.max ELSE Anything

WithinBudget(r, price) == HardCeiling(r) # Anything => price <= HardCeiling(r)

\* What the database is asked for.
Where(r) ==
  {u \in Listings : /\ unit[u].open
                    /\ WithinBudget(r, unit[u].price)
                    /\ r.baths => u \in TwoBaths
                    /\ r.project # Anything => ProjectOf[u] = r.project}

\* A hard budget changes the objective: the dearest that still fits.
Dearest(r) == HardCeiling(r) # Anything

Key(r) == [max |-> HardCeiling(r), hard |-> r.hard]

UnitRow(u) == [id |-> u, price |-> unit[u].price, open |-> unit[u].open]

Dearer(a, b) == a.price > b.price \/ (a.price = b.price /\ a.id < b.id)

\* The pool: cut in the database when it is the database that orders.
Fetch(r) ==
  LET rows == {UnitRow(u) : u \in Where(r)}
      cut == {x \in rows : Cardinality({y \in rows : Dearer(y, x)}) < Limit}
  IN IF Dearest(r) THEN cut ELSE rows

\* What is left of it if one trusts the query that loaded the pool, and what is checked
\* again on each unit of the pool, whoever loaded it.
ValidatedByQuery(r, x) == x.open /\ WithinBudget(r, x.price)
Validated(r, x) ==
  /\ x.open
  /\ WithinBudget(r, x.price)
  /\ r.baths => x.id \in TwoBaths

MatchScore(r, x) == (IF r.max # Anything /\ x.price <= r.max THEN 14 ELSE 0)
                    + (IF r.baths /\ x.id \in TwoBaths THEN 5 ELSE 0)

RanksHigher(r, x, y) == \/ MatchScore(r, x) > MatchScore(r, y)
                        \/ MatchScore(r, x) = MatchScore(r, y) /\ x.id < y.id

Before(r, x, y) ==
  IF Dearest(r) /\ x.price # y.price THEN x.price > y.price ELSE RanksHigher(r, x, y)

\* Sorted and cut: at place n stands the unit with n - 1 before it.
Ranked(r, pool) ==
  LET good == {x \in pool : Validated(r, x)}
      shown == IF Cardinality(good) < Limit THEN Cardinality(good) ELSE Limit
  IN [n \in 1..shown |-> CHOOSE x \in good : Cardinality({y \in good : Before(r, y, x)}) = n - 1]

-----------------------------------------------------------------------------
(* The cache *)

EntriesWithout(key) == Filtered(entries, {e \in Range(entries) : e.key # key})

LiveOrNot(key) == {i \in DOMAIN entries : entries[i].key = key}
Live(key) == {i \in DOMAIN entries : entries[i].key = key /\ entries[i].left > 0}

EntriesWith(key, pool) ==
  LET s == Append(EntriesWithout(key), [key |-> key, pool |-> pool, left |-> CacheTtl])
  IN SubSeq(s, IF Len(s) > MaxEntries THEN 2 ELSE 1, Len(s))

-----------------------------------------------------------------------------
(* Searches *)

NotSearching == [step |-> "idle"]

\* get: a live entry becomes the most recently used; a dead one is dropped.
SearchProperties(p, r) ==
  /\ search[p].step \in {"idle", "answered"}
  /\ LET key == Key(r) IN
     IF Live(key) # {}
     THEN \E i \in Live(key) :
            /\ entries' = Append(EntriesWithout(key), entries[i])
            /\ search' = [search EXCEPT ![p] =
                 [step |-> "answered", req |-> r, answer |-> Ranked(r, entries[i].pool)]]
     ELSE /\ entries' = EntriesWithout(key)
          /\ search' = [search EXCEPT ![p] = [step |-> "loading", req |-> r]]
  /\ UNCHANGED <<unit, owed, writes>>

\* The database answers.
Load(p) ==
  /\ search[p].step = "loading"
  /\ search' = [search EXCEPT ![p] =
       [step |-> "loaded", req |-> search[p].req, pool |-> Fetch(search[p].req)]]
  /\ UNCHANGED <<unit, entries, owed, writes>>

\* set, and the rest of the search on the loaded pool.
Store(p) ==
  LET r == search[p].req IN
  /\ search[p].step = "loaded"
  /\ entries' = EntriesWith(Key(r), search[p].pool)
  /\ search' = [search EXCEPT ![p] =
       [step |-> "answered", req |-> r, answer |-> Ranked(r, search[p].pool)]]
  /\ UNCHANGED <<unit, owed, writes>>

\* The query fails: nothing is stored, the search throws.
QueryFails(p) ==
  /\ search[p].step = "loading"
  /\ search' = [search EXCEPT ![p] = NotSearching]
  /\ UNCHANGED <<unit, entries, owed, writes>>

-----------------------------------------------------------------------------
(* Changes by admins: commit, audit record, invalidation *)

CommitUnit(u, row) ==
  /\ writes < MaxWrites /\ row # unit[u]
  /\ unit' = [unit EXCEPT ![u] = row]
  /\ writes' = writes + 1
  /\ owed' = owed + 1
  /\ UNCHANGED <<entries, search>>

UpdatePrice == \E u \in Listings, price \in Prices : CommitUnit(u, [unit[u] EXCEPT !.price = price])

\* MARK_SOLD, ARCHIVE and their like; MARK_AVAILABLE brings a unit back.
BulkUnits == \E u \in Listings, open \in BOOLEAN : CommitUnit(u, [unit[u] EXCEPT !.open = open])

InvalidateCustomerData ==
  /\ owed > 0
  /\ owed' = owed - 1
  /\ entries' = <<>>
  /\ UNCHANGED <<unit, search, writes>>

\* The audit record fails: the handler throws before it invalidates.
AuditFails ==
  /\ owed > 0
  /\ owed' = owed - 1
  /\ UNCHANGED <<unit, entries, search, writes>>

EntriesAge ==
  /\ \E i \in DOMAIN entries : entries[i].left > 0
  /\ entries' = [i \in DOMAIN entries |->
       [entries[i] EXCEPT !.left = IF @ > 0 THEN @ - 1 ELSE 0]]
  /\ UNCHANGED <<unit, search, owed, writes>>

\* The process is restarted: the cache and every request are gone.
Restart ==
  /\ entries # <<>>
  /\ entries' = <<>> /\ owed' = 0
  /\ search' = [p \in Readers |-> NotSearching]
  /\ UNCHANGED <<unit, writes>>

SearchInit ==
  /\ unit = [u \in Listings |-> [price |-> CHOOSE x \in Prices : \A y \in Prices : x <= y,
                                 open |-> TRUE]]
  /\ entries = <<>> /\ owed = 0 /\ writes = 0
  /\ search = [p \in Readers |-> NotSearching]

SearchNext ==
  \/ \E p \in Readers, r \in Requirements : SearchProperties(p, r)
  \/ \E p \in Readers : Load(p) \/ Store(p) \/ QueryFails(p)
  \/ UpdatePrice \/ BulkUnits
  \/ InvalidateCustomerData \/ AuditFails
  \/ EntriesAge \/ Restart

\* Time passes and a started query ends; nobody need search or invalidate.
Fairness == WF_searchVars(EntriesAge) /\ \A p \in Readers : WF_searchVars(Load(p)) /\ WF_searchVars(Store(p))

SearchSpec == SearchInit /\ [][SearchNext]_searchVars /\ Fairness

-----------------------------------------------------------------------------
(* Properties *)

PoolRows == [id : Listings, price : Prices, open : BOOLEAN]

\* Every pool and answer consists of rows of units, the cache keeps one entry a key and
\* never more than its capacity (ApplicationCache.set).
SearchTypeOK ==
  /\ unit \in [Listings -> [price : Prices, open : BOOLEAN]]
  /\ Len(entries) <= MaxEntries
  /\ \A i \in DOMAIN entries : entries[i].pool \subseteq PoolRows /\ entries[i].left \in 0..CacheTtl
  /\ \A i, j \in DOMAIN entries : entries[i].key = entries[j].key => i = j
  /\ owed \in 0..MaxWrites

\* A customer is shown only units that were on sale, fit a hard budget and have the
\* bathrooms asked for, although the pool may have been loaded by another customer's
\* search for other criteria (searchPropertiesWithMetadata,
\* validatePropertyAgainstActiveRequirement).
UnitsMeetRequirement ==
  \A p \in Readers : search[p].step = "answered" =>
    LET r == search[p].req  a == search[p].answer IN
    /\ Len(a) <= Limit
    /\ \A i \in DOMAIN a : /\ a[i].open
                           /\ r.hard => a[i].price <= r.max
                           /\ r.baths => a[i].id \in TwoBaths

\* Whatever overtook whatever, and whichever invalidation was missed: after the last
\* change the cache comes to serve only what the database would answer now
\* (ApplicationCache.get, set, invalidateCustomerData).
Current(e) == \E r \in Requirements : Key(r) = e.key /\ e.pool = Fetch(r)
CacheConverges ==
  <>[](\A r \in Requirements : \A i \in Live(Key(r)) : Current(entries[i]))
=============================================================================
