----------------------------- MODULE RateLimit -----------------------------
(***************************************************************************)
(* One bucket of consumeRateLimit (security/rate-limit.ts): a row in the   *)
(* database that is bumped atomically, and an entry of the process's cache *)
(* that answers for a bucket that is used up.  A request looks at the      *)
(* cache and at the clock, awaits its statement, and then writes the       *)
(* entry; a reset clears the entry, and then awaits the row's removal.     *)
(* Requests, resets and the pruning of old rows interleave at each await.  *)
(***************************************************************************)
EXTENDS Integers

CONSTANTS
  Points,       \* rule.points
  WindowLife,   \* rule.windowMs
  Consumers,    \* requests in flight
  Resetters,    \* requests that clear the bucket
  LastInstant,  \* bound on time
  MaxConsumed   \* bound on requests

ASSUME RateLimitAssumption ==
  {Points, WindowLife} \subseteq Nat \ {0} /\ {LastInstant, MaxConsumed} \subseteq Nat

VARIABLES
  instant,
  counter,   \* the row: count and expiry, expires 0 when there is none
  cached,    \* the entry of the cache, likewise
  consumer,  \* request -> the window it asks for, count 0, then what its statement returned
  clearing,  \* requests that have cleared the cache's entry and not yet the row
  consumed,  \* number of requests begun
  passed,    \* requests allowed in the row's present window (records what happened)
  overtaken  \* ends of the windows whose row a reset removed while an answer about them
             \* was cached or on its way (records what happened)

rateLimitVars == <<instant, counter, cached, consumer, clearing, consumed, passed, overtaken>>

NoEntry == [count |-> 0, expires |-> 0]

\* Mutated: the last point is given out twice.
AllowsMut(count) == count <= Points + 1
Allows(count) == count <= Points

\* The cache may refuse at once, and forgets entries when it is full.
CacheDenies == cached.expires > instant /\ cached.count >= Points

Forget ==
  /\ cached # NoEntry /\ cached' = NoEntry
  /\ UNCHANGED <<instant, counter, consumer, clearing, consumed, passed, overtaken>>

\* A request the cache does not refuse works out when a window of its own would end.
Ask(r) ==
  /\ consumer[r] = NoEntry /\ consumed < MaxConsumed
  /\ ~ CacheDenies
  /\ consumed' = consumed + 1
  /\ consumer' = [consumer EXCEPT ![r] = [count |-> 0, expires |-> instant + WindowLife]]
  /\ UNCHANGED <<instant, counter, cached, clearing, passed, overtaken>>

\* The statement inserts the row, bumps it, or opens the new window.
Upsert(r) ==
  LET fresh == counter.expires <= instant
      new == IF fresh THEN [consumer[r] EXCEPT !.count = 1] ELSE [counter EXCEPT !.count = @ + 1]
  IN  /\ consumer[r] # NoEntry /\ consumer[r].count = 0
      /\ counter' = new
      /\ consumer' = [consumer EXCEPT ![r] = new]
      /\ passed' = (IF fresh THEN 0 ELSE passed) + (IF Allows(new.count) THEN 1 ELSE 0)
      /\ UNCHANGED <<instant, cached, clearing, consumed, overtaken>>

\* The answer is cached, whatever happened to the row since.
Cache(r) ==
  /\ consumer[r].count > 0
  /\ cached' = consumer[r]
  /\ consumer' = [consumer EXCEPT ![r] = NoEntry]
  /\ UNCHANGED <<instant, counter, clearing, consumed, passed, overtaken>>

\* The statement fails, before it did anything or after: nothing is cached.
StatementFails(r) ==
  /\ consumer[r] # NoEntry
  /\ consumer' = [consumer EXCEPT ![r] = NoEntry]
  /\ UNCHANGED <<instant, counter, cached, clearing, consumed, passed, overtaken>>

\* resetRateLimit, after a successful sign-in: first the entry of the cache.
ResetEntry(s) ==
  /\ s \notin clearing /\ clearing' = clearing \cup {s}
  /\ cached' = NoEntry
  /\ UNCHANGED <<instant, counter, consumer, consumed, passed, overtaken>>

\* Answers about the row that are cached, or will be.
AnswersOut == {a \in {cached} \cup {consumer[r] : r \in Consumers} : a.count > 0 /\ a.expires = counter.expires}

\* Then the row; a failure is swallowed.
ResetRow(s) ==
  /\ s \in clearing /\ clearing' = clearing \ {s}
  /\ \/ /\ counter' = NoEntry /\ passed' = 0
        /\ overtaken' = overtaken \cup {a.expires : a \in AnswersOut}
     \/ UNCHANGED <<counter, passed, overtaken>>
  /\ UNCHANGED <<instant, cached, consumer, consumed>>

\* pruneExpiredRateCounters.
PruneRateCounters ==
  /\ counter.expires > 0 /\ counter.expires < instant
  /\ counter' = NoEntry /\ passed' = 0
  /\ UNCHANGED <<instant, cached, consumer, clearing, consumed, overtaken>>

InstantPasses ==
  /\ instant < LastInstant /\ instant' = instant + 1
  /\ UNCHANGED <<counter, cached, consumer, clearing, consumed, passed, overtaken>>

RateLimitInit ==
  /\ instant = 1 /\ counter = NoEntry /\ cached = NoEntry
  /\ consumer = [r \in Consumers |-> NoEntry]
  /\ clearing = {} /\ consumed = 0 /\ passed = 0 /\ overtaken = {}

RateLimitNext ==
  \/ Forget \/ PruneRateCounters \/ InstantPasses
  \/ \E r \in Consumers : Ask(r) \/ Upsert(r) \/ Cache(r) \/ StatementFails(r)
  \/ \E s \in Resetters : ResetEntry(s) \/ ResetRow(s)

RateLimitSpec == RateLimitInit /\ [][RateLimitNext]_rateLimitVars

(***************************************************************************)
(* Properties                                                              *)
(***************************************************************************)

\* No window lets more requests through than it has points, however their
\* statements and their cached answers interleave; and the cache refuses nobody
\* whom the row would let through, unless a reset removed the row of that window
\* while an answer about it was cached or still to be cached.
WindowBounded ==
  /\ passed <= Points
  /\ CacheDenies /\ cached.expires \notin overtaken =>
       counter.expires > instant /\ ~ Allows(counter.count + 1)
=============================================================================
