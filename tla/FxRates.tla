------------------------------- MODULE FxRates -------------------------------
(***************************************************************************)
(* The exchange rates of one currency (nadim-v2/product/fx-rate.service    *)
(* .ts): a quote is kept for Ttl, is fetched again after that, and stands  *)
(* in for a failed fetch until it is Stale old.  Calls overlap: each takes *)
(* the time and reads the cache before it waits for the provider.          *)
(* A quote is modelled by the moment the provider gave it.                 *)
(***************************************************************************)
EXTENDS Integers

CONSTANTS Callers,
          Ttl, Stale,     \* how long a quote is served, and served in an outage
          Timeout,        \* how long a fetch may take
          MaxTime,        \* bound on the time
          NoQuote

ASSUME FxAssumption ==
  /\ Timeout \in Nat /\ Ttl \in Nat /\ Stale \in Nat /\ MaxTime \in Nat
  /\ Timeout <= Ttl /\ Ttl <= Stale

VARIABLES time,       \* Date.now()
          quoted,     \* the cached quote: when the provider gave it, and when it was asked for
          asks        \* the call of each caller

fxVars == <<time, quoted, asks>>

Idle == [at |-> "idle", now |-> 0, read |-> NoQuote, quote |-> NoQuote]

\* A cached quote is fresh for Ttl after the call that fetched it began.
Fresh(q, now) == q # NoQuote /\ now - q.fetchedAt <= Ttl
Usable(q, now) == q # NoQuote /\ now - q.fetchedAt <= Stale

\* A call: a fresh quote is the answer, else the provider is asked.
GetRate(c) ==
  /\ asks[c].at \in {"idle", "answered", "unavailable"}
  /\ asks' = [asks EXCEPT ![c] =
       IF Fresh(quoted, time) THEN [at |-> "answered", now |-> time, read |-> quoted, quote |-> quoted.made]
       ELSE [at |-> "fetching", now |-> time, read |-> quoted, quote |-> NoQuote]]
  /\ UNCHANGED <<time, quoted>>

\* The provider gives a quote, which is under way for a while.
Quote(c) ==
  /\ asks[c].at = "fetching" /\ asks[c].quote = NoQuote
  /\ asks' = [asks EXCEPT ![c].quote = time]
  /\ UNCHANGED <<time, quoted>>

\* Mutant: a quote counts from its arrival.
StoredOnArrival(c) == [made |-> asks[c].quote, fetchedAt |-> time]

\* What a fetch stores: its age counts from the start of the call.
Stored(c) == [made |-> asks[c].quote, fetchedAt |-> asks[c].now]

\* The quote arrives, and replaces whatever other calls have stored since.
Arrive(c) ==
  /\ asks[c].at = "fetching" /\ asks[c].quote # NoQuote
  /\ quoted' = Stored(c)
  /\ asks' = [asks EXCEPT ![c].at = "answered"]
  /\ UNCHANGED time

\* No provider, no answer in time, or one without a rate and a date: the quote this call read
\* before it waited is the answer, if it is not too old.
Fail(c) ==
  /\ asks[c].at = "fetching"
  /\ LET call == asks[c] IN
     asks' = [asks EXCEPT ![c] =
       IF Usable(call.read, call.now) THEN [call EXCEPT !.at = "answered", !.quote = call.read.made]
       ELSE [call EXCEPT !.at = "unavailable", !.quote = NoQuote]]
  /\ UNCHANGED <<time, quoted>>

\* A fetch is aborted after its timeout.
Tick ==
  /\ time < MaxTime
  /\ \A c \in Callers : asks[c].at = "fetching" => time - asks[c].now < Timeout
  /\ time' = time + 1
  /\ UNCHANGED <<quoted, asks>>

FxInit == time = 0 /\ quoted = NoQuote /\ asks = [c \in Callers |-> Idle]

FxNext ==
  \/ \E c \in Callers : GetRate(c) \/ Quote(c) \/ Arrive(c) \/ Fail(c)
  \/ Tick

FxSpec == FxInit /\ [][FxNext]_fxVars

-----------------------------------------------------------------------------
FxTyped ==
  /\ time \in 0..MaxTime
  /\ quoted # NoQuote => quoted.made \in 0..MaxTime /\ quoted.fetchedAt \in 0..MaxTime
  /\ \A c \in Callers : asks[c].at \in {"idle", "fetching", "answered", "unavailable"} /\ asks[c].now <= time

\* No answer is a quote the provider gave more than Stale before the question, whichever fetches
\* overlapped, arrived late, failed or overwrote a newer quote (getRate: the age of a quote counts
\* from before its fetch, never from its arrival).
RatesAreCurrent ==
  \A c \in Callers : asks[c].at = "answered" => asks[c].now - Stale <= asks[c].quote
=============================================================================
