---- MODULE CircuitBreaker ----
(***************************************************************************)
(* CircuitBreaker of backend/core/circuit_breaker.py: concurrent coroutines*)
(* call a broker function through one breaker.  call() admits or rejects   *)
(* under the breaker's lock, releases it, awaits the function, and takes   *)
(* the lock again to record the outcome.  No lock body awaits, so each is  *)
(* one step; what interleaves is the calls in flight, whose outcomes may   *)
(* arrive when the breaker has long changed state.                         *)
(***************************************************************************)
EXTENDS Naturals, FiniteSets

CONSTANTS
    Calls,             \* the coroutines that may be inside call()
    Cancellable,       \* those whose caller may cancel them while they await
    FailureThreshold,  \* config.failure_threshold
    SuccessThreshold,  \* config.success_threshold
    HalfOpenMax,       \* config.half_open_max_calls
    Timeout            \* config.timeout, in ticks of the clock

\* The defaults are 5, 2, 3 and 30.  The last conjunct is what the defaults
\* respect and nothing enforces: enough probes to reach the success threshold.
ASSUME ConfigOK ==
    /\ IsFiniteSet(Calls)
    /\ Cancellable \subseteq Calls
    /\ FailureThreshold \in Nat \ {0}
    /\ SuccessThreshold \in Nat \ {0}
    /\ HalfOpenMax \in Nat
    /\ Timeout \in Nat
    /\ SuccessThreshold <= HalfOpenMax

VARIABLES
    state,          \* self.state
    failureCount,   \* self.failure_count
    successCount,   \* self.success_count
    halfOpenCalls,  \* self.half_open_calls
    sinceFailure,   \* time.time() - self.last_failure_time, up to Timeout; Never
    inFlight,       \* what each call was admitted as and is still awaiting
    leaked          \* history: probes of this half-open period that were cancelled

vars == <<state, failureCount, successCount, halfOpenCalls, sinceFailure, inFlight,
          leaked>>

Never == Timeout + 1      \* last_failure_time is None

\* A call in flight is "normal" if admitted by a closed breaker, a "probe" if
\* admitted by the half-open breaker, "late" once a later half-open period
\* has begun: the breaker itself does not tell them apart.
Kinds == {"none", "normal", "probe", "late"}

Init ==
    /\ state = "closed"
    /\ failureCount = 0
    /\ successCount = 0
    /\ halfOpenCalls = 0
    /\ sinceFailure = Never
    /\ inFlight = [c \in Calls |-> "none"]
    /\ leaked = 0

-----------------------------------------------------------------------------
InFlight == {c \in Calls : inFlight[c] # "none"}
Probes == {c \in Calls : inFlight[c] = "probe"}

\* _check_state: an open breaker whose timeout has passed turns half-open.
TurnsHalfOpen == state = "open" /\ sinceFailure >= Timeout

\* Mutant: the count of the previous half-open period is kept.
SlotsKept == halfOpenCalls

\* state and half_open_calls after _check_state, and the calls still in flight.
StateChecked == IF TurnsHalfOpen THEN "half_open" ELSE state
SlotsChecked == IF TurnsHalfOpen THEN 0 ELSE halfOpenCalls
FlightsChecked ==
    IF TurnsHalfOpen
    THEN [c \in Calls |-> IF inFlight[c] = "none" THEN "none" ELSE "late"]
    ELSE inFlight

\* Mutant: one call too many, "> max" for ">= max".
OneTooMany ==
    \/ StateChecked = "open"
    \/ StateChecked = "half_open" /\ SlotsChecked > HalfOpenMax

\* CircuitBreakerOpenError is raised.
Rejects ==
    \/ StateChecked = "open"
    \/ StateChecked = "half_open" /\ SlotsChecked >= HalfOpenMax

\* The admission half of call(), under the lock.
Admit(c) ==
    /\ inFlight[c] = "none"
    /\ state' = StateChecked
    /\ IF Rejects
       THEN halfOpenCalls' = SlotsChecked /\ inFlight' = FlightsChecked
       ELSE IF StateChecked = "half_open"
       THEN /\ halfOpenCalls' = SlotsChecked + 1
            /\ inFlight' = [FlightsChecked EXCEPT ![c] = "probe"]
       ELSE /\ halfOpenCalls' = SlotsChecked
            /\ inFlight' = [FlightsChecked EXCEPT ![c] = "normal"]
    /\ leaked' = IF TurnsHalfOpen THEN 0 ELSE leaked
    /\ UNCHANGED <<failureCount, successCount, sinceFailure>>

Ends(c) ==
    /\ inFlight[c] # "none"
    /\ inFlight' = [inFlight EXCEPT ![c] = "none"]

\* Mutant: closing forgets to clear success_count.
SuccessesKept(c) ==
    /\ Ends(c)
    /\ IF state # "half_open"
       THEN failureCount' = 0 /\ UNCHANGED <<state, successCount>>
       ELSE /\ successCount' = successCount + 1
            /\ IF successCount + 1 >= SuccessThreshold
               THEN state' = "closed" /\ failureCount' = 0
               ELSE UNCHANGED <<state, failureCount>>
    /\ UNCHANGED <<halfOpenCalls, sinceFailure, leaked>>

\* The function returned: _on_success, in whatever state the breaker is now.
OnSuccess(c) ==
    /\ Ends(c)
    /\ IF state # "half_open"
       THEN failureCount' = 0 /\ UNCHANGED <<state, successCount>>
       ELSE IF successCount + 1 >= SuccessThreshold
       THEN state' = "closed" /\ failureCount' = 0 /\ successCount' = 0
       ELSE successCount' = successCount + 1 /\ UNCHANGED <<state, failureCount>>
    /\ UNCHANGED <<halfOpenCalls, sinceFailure, leaked>>

\* Past the threshold the count is only compared with it: it saturates there.
CountFailure == IF failureCount < FailureThreshold THEN failureCount + 1 ELSE failureCount

\* Mutant: only metrics.last_failure_time is set.
FailureNotTimed(c) ==
    /\ Ends(c)
    /\ IF state = "half_open"
       THEN state' = "open" /\ UNCHANGED failureCount
       ELSE /\ failureCount' = CountFailure
            /\ state' = IF CountFailure >= FailureThreshold THEN "open" ELSE state
    /\ UNCHANGED <<successCount, halfOpenCalls, sinceFailure, leaked>>

\* Mutant: the failure of a probe does not open the breaker again.
ProbeFailureIgnored(c) ==
    /\ Ends(c)
    /\ sinceFailure' = 0
    /\ IF state = "half_open"
       THEN UNCHANGED <<state, failureCount>>
       ELSE /\ failureCount' = CountFailure
            /\ state' = IF CountFailure >= FailureThreshold THEN "open" ELSE state
    /\ UNCHANGED <<successCount, halfOpenCalls, leaked>>

\* The function raised: _on_failure.  success_count is kept when the half-open
\* breaker opens again, and a late failure restarts an open one's timeout.
OnFailure(c) ==
    /\ Ends(c)
    /\ sinceFailure' = 0
    /\ IF state = "half_open"
       THEN state' = "open" /\ UNCHANGED failureCount
       ELSE /\ failureCount' = CountFailure
            /\ state' = IF CountFailure >= FailureThreshold THEN "open" ELSE state
    /\ UNCHANGED <<successCount, halfOpenCalls, leaked>>

\* asyncio.CancelledError is no Exception: neither handler runs, and a probe's
\* place in half_open_calls stays taken.
Cancelled(c) ==
    /\ c \in Cancellable
    /\ Ends(c)
    /\ leaked' = IF inFlight[c] = "probe" THEN leaked + 1 ELSE leaked
    /\ UNCHANGED <<state, failureCount, successCount, halfOpenCalls, sinceFailure>>

\* Manual reset(); calls in flight are not touched.
Reset ==
    /\ state' = "closed"
    /\ failureCount' = 0
    /\ successCount' = 0
    /\ halfOpenCalls' = 0
    /\ leaked' = 0
    /\ UNCHANGED <<sinceFailure, inFlight>>

\* The clock (external).
Tick ==
    /\ sinceFailure < Timeout
    /\ sinceFailure' = sinceFailure + 1
    /\ UNCHANGED <<state, failureCount, successCount, halfOpenCalls, inFlight, leaked>>

Next ==
    \/ \E c \in Calls : Admit(c) \/ OnSuccess(c) \/ OnFailure(c) \/ Cancelled(c)
    \/ Reset
    \/ Tick

Spec == Init /\ [][Next]_vars

\* Time passes, the traffic goes on, and every call ends by itself (the broker
\* clients set HTTP time-outs).
Fairness ==
    /\ WF_vars(Tick)
    /\ WF_vars(\E c \in Calls : Admit(c))
    /\ \A c \in Calls : WF_vars(OnSuccess(c) \/ OnFailure(c))

FairSpec == Spec /\ Fairness

-----------------------------------------------------------------------------
\* The variables keep their types; an open breaker has a last_failure_time, so
\* that _check_state never subtracts None.
TypeOK ==
    /\ state \in {"closed", "open", "half_open"}
    /\ failureCount \in 0 .. FailureThreshold
    /\ successCount \in Nat
    /\ halfOpenCalls \in Nat
    /\ sinceFailure \in 0 .. Never
    /\ inFlight \in [Calls -> Kinds]
    /\ leaked \in Nat
    /\ state = "open" => sinceFailure # Never

\* A closed breaker is below the failure threshold and has no success left over
\* from a half-open period; no breaker sits at its success threshold.
\* Outcomes arrive in any order, in any state.
CountsBelowThresholds ==
    /\ state = "closed" => failureCount < FailureThreshold /\ successCount = 0
    /\ successCount < SuccessThreshold

\* While half-open, at most half_open_max_calls of the calls admitted in this
\* half-open period are at the broker at once, whatever is still in flight from before.
ProbesWithinLimit ==
    /\ halfOpenCalls <= HalfOpenMax
    /\ state = "half_open" => Cardinality(Probes) <= halfOpenCalls

\* How many cancelled probes a half-open period can bear.
SpareProbes == HalfOpenMax - SuccessThreshold

\* half_open_calls is never decremented, yet a half-open breaker that rejects
\* every call has a probe in flight whose outcome can decide: it is stuck half-open
\* only if more than SpareProbes of the period's probes were cancelled.
NeverWedged ==
    state = "half_open" /\ halfOpenCalls >= HalfOpenMax /\ leaked <= SpareProbes =>
        Probes # {}

\* Under continuing traffic a half-open period ends, in success or in failure,
\* or has lost more probes to cancellation than it can bear.
HalfOpenEnds ==
    state = "half_open" ~> state # "half_open" \/ leaked > SpareProbes
====
