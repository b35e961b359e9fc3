---- MODULE RateLimiter ----
(***************************************************************************)
(* core/rate_limiter.py for one key, that is one client and one category of*)
(* endpoints.  The counter is in Redis; the client library blocks, so the  *)
(* requests of one server process are one after the other, and those of    *)
(* different processes meet between the calls.  check_rate_limit, for the  *)
(* dependency, and RateLimitMiddleware make the same calls.                *)
(***************************************************************************)
EXTENDS Integers, FiniteSets

CONSTANTS
    Workers,           \* server processes
    Limit,             \* requests admitted per window
    Window,            \* life of a new counter
    MaxCount           \* bound: admitted requests are counted up to here


NoKey == [count |-> 0, ttl |-> 0]
Forever == -1          \* what ttl says of a key that never expires

VARIABLES
    key,               \* the counter: [count, ttl], or NoKey
    checking,          \* the call each worker makes next: "get", "setex", "incr"
    verdict,           \* what the last request of a worker was told
    admitted           \* history: requests counted and admitted since there was no counter

rvars == <<key, checking, verdict, admitted>>

RateInit ==
    /\ key = NoKey
    /\ checking = [w \in Workers |-> "get"]
    /\ verdict = [w \in Workers |-> "none"]
    /\ admitted = 0

Calls(w, call) == checking' = [checking EXCEPT ![w] = call]
Tells(w, word) == verdict' = [verdict EXCEPT ![w] = word]
Admits(w) ==
    /\ Calls(w, "get") /\ Tells(w, "admitted")
    /\ admitted' = IF admitted < MaxCount THEN admitted + 1 ELSE admitted

\* Mutant: the counter is read and never compared.
NeverExceeded(count) == FALSE
Exceeded(count) == count >= Limit

CheckRateLimit(w) ==
    /\ checking[w] = "get"
    /\ \/ key = NoKey /\ Calls(w, "setex") /\ UNCHANGED verdict
       \/ key # NoKey /\ Exceeded(key.count) /\ Tells(w, "refused") /\ UNCHANGED checking
       \/ key # NoKey /\ ~Exceeded(key.count) /\ Calls(w, "incr") /\ UNCHANGED verdict
    /\ UNCHANGED <<key, admitted>>

\* Whatever the counter has become since it was found missing.
SetCounter(w) ==
    /\ checking[w] = "setex"
    /\ key' = [count |-> 1, ttl |-> Window]
    /\ Admits(w)

\* Redis counts up a key that has expired from nothing, and gives it no expiry.
Increment(w) ==
    /\ checking[w] = "incr"
    /\ key' = IF key = NoKey THEN [count |-> 1, ttl |-> Forever] ELSE [key EXCEPT !.count = @ + 1]
    /\ Admits(w)

\* Any exception of Redis admits the request, at whichever call it comes.
RedisFails(w) ==
    /\ Calls(w, "get") /\ Tells(w, "admitted")
    /\ UNCHANGED <<key, admitted>>

Elapse ==
    /\ key.ttl > 0
    /\ key' = IF key.ttl = 1 THEN NoKey ELSE [key EXCEPT !.ttl = @ - 1]
    /\ admitted' = IF key.ttl = 1 THEN 0 ELSE admitted
    /\ UNCHANGED <<checking, verdict>>

Serve(w) == CheckRateLimit(w) \/ SetCounter(w) \/ Increment(w)

RateStep == Elapse \/ \E w \in Workers : Serve(w) \/ RedisFails(w)

RateSpec == RateInit /\ [][RateStep]_rvars

\* The client tries again, Redis never fails, and time passes.
RateFairSpec ==
    /\ RateInit /\ [][Elapse \/ \E w \in Workers : Serve(w)]_rvars
    /\ WF_rvars(Elapse) /\ \A w \in Workers : WF_rvars(Serve(w))

----
(* Properties. *)

\* As long as a counter lives, the requests it counts are no more than if each worker
\* counted on its own, and one for each pair of workers: requests that meet between the
\* calls reset or overrun the counter, and new keys are counted from nothing, but not
\* more often than that.
AdmittedBounded ==
    LET n == Cardinality(Workers)
    IN  admitted <= n * Limit + (n * (n - 1)) \div 2

\* "Rate limit exceeded. Try again later." (core/rate_limiter.py:87): a client that does
\* is admitted in the end.
LaterAdmitted ==
    \A w \in Workers : verdict[w] = "refused" ~> verdict[w] = "admitted"
====
