----------------------------- MODULE TurnLedger -----------------------------
(***************************************************************************)
(* What idempotent turns promise, without handlers, steps or tables.       *)
(*                                                                         *)
(* Each key has at most one run at a time.  A run is started at most once, *)
(* under a number no other run ever had, and ends at most once: answered   *)
(* or failed.  An answered run stays answered and a failed one stays       *)
(* failed; neither makes room for another run.  Only erasing the scope of  *)
(* the run (its conversation) frees the key; a run that erases its own     *)
(* scope leaves a tombstone, which never changes.                          *)
(***************************************************************************)
EXTENDS Integers

CONSTANTS Keys, Scopes, Bodies, None

VARIABLES
    slot,    \* the run that holds each key, or None
    tomb,    \* the run that erased a scope under this key, or None
    erased,  \* the scopes that were erased
    runs     \* how many runs were started

ledgerVars == <<slot, tomb, erased, runs>>

LedgerInit ==
    /\ slot = [k \in Keys |-> None]
    /\ tomb = [k \in Keys |-> None]
    /\ erased = {}
    /\ runs = 0

Running(k) == slot[k] # None /\ slot[k].status = "running"

Begin(k) ==
    /\ runs' = runs + 1
    /\ slot[k] = None
    /\ \E s \in Scopes \ erased, b \in Bodies :
          slot' = [slot EXCEPT ![k] = [run |-> runs + 1, scope |-> s, body |-> b,
                                       status |-> "running"]]
    /\ UNCHANGED <<tomb, erased>>

\* A run that nobody can repeat takes a number and no key.
BeginUnkeyed ==
    /\ runs' = runs + 1
    /\ UNCHANGED <<slot, tomb, erased>>

End(k, status) ==
    /\ Running(k)
    /\ slot' = [slot EXCEPT ![k].status = status]
    /\ UNCHANGED <<tomb, erased, runs>>

SlotsWithout(s) ==
    [k \in Keys |-> IF slot[k] # None /\ slot[k].scope = s THEN None ELSE slot[k]]

\* The run that holds k erases its scope: every run of the scope loses its key.
Erase(k) ==
    /\ Running(k)
    /\ tomb[k] = None
    /\ tomb' = [tomb EXCEPT ![k] = [run |-> slot[k].run, scope |-> slot[k].scope,
                                    body |-> slot[k].body]]
    /\ erased' = erased \cup {slot[k].scope}
    /\ slot' = SlotsWithout(slot[k].scope)
    /\ UNCHANGED runs

\* Somebody else erases a scope: the keys are free again and no tombstone tells why.
EraseUnasked(s) ==
    /\ s \notin erased
    /\ erased' = erased \cup {s}
    /\ slot' = SlotsWithout(s)
    /\ UNCHANGED <<tomb, runs>>

LedgerNext ==
    \/ BeginUnkeyed
    \/ \E s \in Scopes : EraseUnasked(s)
    \/ \E k \in Keys : Begin(k) \/ End(k, "answered") \/ End(k, "failed") \/ Erase(k)

LedgerSpec == LedgerInit /\ [][LedgerNext]_ledgerVars
=============================================================================
