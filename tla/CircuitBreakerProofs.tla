---- MODULE CircuitBreakerProofs ----
(***************************************************************************)
(* Proofs about CircuitBreaker, for every number of calls and every        *)
(* configuration that respects ConfigOK.                                   *)
(***************************************************************************)
EXTENDS CircuitBreaker, FiniteSetTheorems, TLAPS

-----------------------------------------------------------------------------
(* Types.                                                                   *)

\* The types hold at first.
LEMMA TypeInit == Init => TypeOK
BY ConfigOK DEF Init, TypeOK, Never, Kinds

\* Every step keeps the types.
LEMMA TypeStep == TypeOK /\ [Next]_vars => TypeOK'
<1> SUFFICES ASSUME TypeOK, [Next]_vars
             PROVE  TypeOK'
  OBVIOUS
<1> USE ConfigOK
<1>1. ASSUME NEW c \in Calls, Admit(c)
      PROVE  TypeOK'
  <2>1. FlightsChecked \in [Calls -> Kinds]
    BY DEF TypeOK, FlightsChecked, Kinds
  <2>2. SlotsChecked \in Nat /\ StateChecked \in {"closed", "open", "half_open"}
    BY DEF TypeOK, SlotsChecked, StateChecked
  <2>3. inFlight' \in [Calls -> Kinds] /\ halfOpenCalls' \in Nat
    BY <1>1, <2>1, <2>2 DEF Admit, Kinds
  <2>4. state' = "open" => state = "open"
    BY <1>1 DEF Admit, StateChecked
  <2> QED
    BY <1>1, <2>2, <2>3, <2>4 DEF Admit, TypeOK
<1>2. ASSUME NEW c \in Calls, OnSuccess(c)
      PROVE  TypeOK'
  BY <1>2 DEF OnSuccess, Ends, TypeOK, Kinds
<1>3. ASSUME NEW c \in Calls, OnFailure(c)
      PROVE  TypeOK'
  BY <1>3 DEF OnFailure, Ends, TypeOK, Kinds, CountFailure, Never
<1>4. ASSUME NEW c \in Calls, Cancelled(c)
      PROVE  TypeOK'
  BY <1>4 DEF Cancelled, Ends, TypeOK, Kinds
<1>5. CASE Reset
  BY <1>5 DEF Reset, TypeOK
<1>6. CASE Tick
  BY <1>6 DEF Tick, TypeOK, Never
<1>7. CASE UNCHANGED vars
  BY <1>7 DEF vars, TypeOK
<1>8. QED
  BY <1>1, <1>2, <1>3, <1>4, <1>5, <1>6, <1>7 DEF Next

\* The variables keep their types, and an open breaker always has the time of a
\* failure to count its timeout from (_check_state, _on_failure).
THEOREM TypeCorrect == Spec => []TypeOK
BY TypeInit, TypeStep, PTL DEF Spec

-----------------------------------------------------------------------------
(* The counters.                                                            *)

\* Below its thresholds the breaker is closed and clean; a breaker at a
\* threshold has changed state (call, _on_success, _on_failure, reset).
THEOREM CountsCorrect == Spec => []CountsBelowThresholds
<1>1. Init => CountsBelowThresholds
  BY ConfigOK DEF Init, CountsBelowThresholds
<1>2. TypeOK /\ CountsBelowThresholds /\ [Next]_vars => CountsBelowThresholds'
  <2> SUFFICES ASSUME TypeOK, CountsBelowThresholds, [Next]_vars
               PROVE  CountsBelowThresholds'
    OBVIOUS
  <2> USE ConfigOK DEF CountsBelowThresholds
  <2>1. ASSUME NEW c \in Calls, Admit(c)
        PROVE  CountsBelowThresholds'
    BY <2>1 DEF Admit, StateChecked, TurnsHalfOpen
  <2>2. ASSUME NEW c \in Calls, OnSuccess(c)
        PROVE  CountsBelowThresholds'
    BY <2>2 DEF OnSuccess, TypeOK
  <2>3. ASSUME NEW c \in Calls, OnFailure(c)
        PROVE  CountsBelowThresholds'
    BY <2>3 DEF OnFailure, TypeOK, CountFailure
  <2>4. ASSUME NEW c \in Calls, Cancelled(c)
        PROVE  CountsBelowThresholds'
    BY <2>4 DEF Cancelled
  <2>5. CASE Reset
    BY <2>5 DEF Reset
  <2>6. CASE Tick \/ UNCHANGED vars
    BY <2>6 DEF Tick, vars
  <2>7. QED
    BY <2>1, <2>2, <2>3, <2>4, <2>5, <2>6 DEF Next
<1>3. QED
  BY <1>1, <1>2, TypeCorrect, PTL DEF Spec

-----------------------------------------------------------------------------
(* The probes in flight.                                                    *)

\* The probes are some of the calls, so they can be counted.
LEMMA ProbesFinite ==
    IsFiniteSet(Probes) /\ Cardinality(Probes) \in Nat
BY ConfigOK, FS_Subset, FS_CardinalityType DEF Probes

\* A call that ends leaves the set of probes, if it was one.
LEMMA EndsProbes ==
    ASSUME TypeOK, NEW c \in Calls, Ends(c)
    PROVE  /\ Probes' = Probes \ {c}
           /\ Cardinality(Probes') = IF inFlight[c] = "probe"
                                     THEN Cardinality(Probes) - 1
                                     ELSE Cardinality(Probes)
           /\ Cardinality(Probes') \in Nat
<1>1. Probes' = Probes \ {c}
  BY DEF Ends, Probes, TypeOK
<1>2. c \in Probes <=> inFlight[c] = "probe"
  BY DEF Probes
<1>3. Cardinality(Probes \ {c}) = IF c \in Probes THEN Cardinality(Probes) - 1
                                  ELSE Cardinality(Probes)
  BY ProbesFinite, FS_RemoveElement
<1>4. IsFiniteSet(Probes \ {c}) /\ Cardinality(Probes \ {c}) \in Nat
  BY ProbesFinite, FS_RemoveElement, FS_CardinalityType
<1>5. QED
  BY <1>1, <1>2, <1>3, <1>4

\* A call admitted as a probe joins the set, which a new half-open period empties.
LEMMA AdmitProbes ==
    ASSUME TypeOK, NEW c \in Calls, Admit(c), state' = "half_open"
    PROVE  \/ /\ state = "half_open"
              /\ halfOpenCalls < HalfOpenMax
              /\ halfOpenCalls' = halfOpenCalls + 1
              /\ Cardinality(Probes') = Cardinality(Probes) + 1
           \/ /\ state = "half_open"
              /\ halfOpenCalls' = halfOpenCalls
              /\ Cardinality(Probes') = Cardinality(Probes)
           \/ /\ state = "open"
              /\ halfOpenCalls' = 1
              /\ Cardinality(Probes') = 1
<1> USE ConfigOK
<1>1. CASE TurnsHalfOpen
  <2>1. SlotsChecked = 0 /\ StateChecked = "half_open" /\ ~Rejects
    BY <1>1 DEF SlotsChecked, StateChecked, Rejects
  <2>2. inFlight' = [[d \in Calls |-> IF inFlight[d] = "none" THEN "none" ELSE "late"]
                       EXCEPT ![c] = "probe"]
    BY <1>1, <2>1 DEF Admit, FlightsChecked
  <2>3. Probes' = {c}
    BY <2>2 DEF Probes
  <2>4. Cardinality(Probes') = 1
    BY <2>3, FS_Singleton
  <2>5. halfOpenCalls' = 1
    BY <2>1 DEF Admit
  <2>6. QED
    BY <1>1, <2>4, <2>5 DEF TurnsHalfOpen
<1>2. CASE ~TurnsHalfOpen
  <2>1. /\ SlotsChecked = halfOpenCalls /\ StateChecked = state
        /\ FlightsChecked = inFlight /\ state = "half_open"
    BY <1>2 DEF SlotsChecked, StateChecked, FlightsChecked, Admit
  <2>2. CASE Rejects
    <3>1. halfOpenCalls' = halfOpenCalls /\ Probes' = Probes
      BY <2>1, <2>2 DEF Admit, Probes
    <3>2. QED
      BY <2>1, <3>1
  <2>3. CASE ~Rejects
    <3>1. /\ halfOpenCalls < HalfOpenMax
          /\ halfOpenCalls' = halfOpenCalls + 1
          /\ inFlight' = [inFlight EXCEPT ![c] = "probe"]
          /\ inFlight[c] = "none"
      BY <2>1, <2>3 DEF Admit, Rejects, TypeOK
    <3>2. Probes' = Probes \cup {c} /\ c \notin Probes
      BY <3>1 DEF Probes, TypeOK
    <3>3. Cardinality(Probes') = Cardinality(Probes) + 1
      BY <3>2, ProbesFinite, FS_AddElement
    <3>4. QED
      BY <2>1, <3>1, <3>3
  <2>4. QED
    BY <2>2, <2>3
<1>3. QED
  BY <1>1, <1>2

\* At most half_open_max_calls probes of a half-open period are at the broker
\* at once, however many older calls are still in flight (call, _check_state).
THEOREM ProbesLimited == Spec => []ProbesWithinLimit
<1>1. Init => ProbesWithinLimit
  BY ConfigOK DEF Init, ProbesWithinLimit
<1>2. TypeOK /\ ProbesWithinLimit /\ [Next]_vars => ProbesWithinLimit'
  <2> SUFFICES ASSUME TypeOK, ProbesWithinLimit, [Next]_vars
               PROVE  ProbesWithinLimit'
    OBVIOUS
  <2> USE ConfigOK, ProbesFinite
  <2>1. ASSUME NEW c \in Calls, Admit(c)
        PROVE  ProbesWithinLimit'
    <3>1. CASE state' = "half_open"
      BY <2>1, <3>1, AdmitProbes DEF ProbesWithinLimit, TypeOK
    <3>2. CASE state' # "half_open"
      BY <2>1, <3>2 DEF Admit, ProbesWithinLimit, StateChecked, SlotsChecked, TypeOK
    <3>3. QED
      BY <3>1, <3>2
  <2>2. ASSUME NEW c \in Calls, OnSuccess(c) \/ OnFailure(c) \/ Cancelled(c)
        PROVE  ProbesWithinLimit'
    <3>1. Ends(c) /\ halfOpenCalls' = halfOpenCalls
      BY <2>2 DEF OnSuccess, OnFailure, Cancelled
    <3>2. state' = "half_open" => state = "half_open"
      BY <2>2 DEF OnSuccess, OnFailure, Cancelled, TypeOK
    <3>3. Cardinality(Probes') <= Cardinality(Probes) /\ Cardinality(Probes') \in Nat
      BY <3>1, EndsProbes
    <3>4. QED
      BY <3>1, <3>2, <3>3 DEF ProbesWithinLimit, TypeOK
  <2>3. CASE Reset
    BY <2>3 DEF Reset, ProbesWithinLimit
  <2>4. CASE Tick \/ UNCHANGED vars
    BY <2>4 DEF Tick, vars, ProbesWithinLimit, Probes
  <2>5. QED
    BY <2>1, <2>2, <2>3, <2>4 DEF Next
<1>3. QED
  BY <1>1, <1>2, TypeCorrect, PTL DEF Spec

\* Why a half-open breaker is not stuck: every place taken in half_open_calls
\* is a probe in flight, a success counted since, or a cancelled probe.
SlotsAccounted ==
    state = "half_open" => halfOpenCalls <= successCount + Cardinality(Probes) + leaked

\* Every step keeps the account of the half-open slots.
LEMMA SlotsAccountedStep ==
    TypeOK /\ SlotsAccounted /\ [Next]_vars => SlotsAccounted'
<1> SUFFICES ASSUME TypeOK, SlotsAccounted, [Next]_vars
             PROVE  SlotsAccounted'
  OBVIOUS
<1> USE ConfigOK, ProbesFinite DEF SlotsAccounted
<1>1. ASSUME NEW c \in Calls, Admit(c)
      PROVE  SlotsAccounted'
  <2>1. SUFFICES ASSUME state' = "half_open"
                 PROVE  SlotsAccounted'
    OBVIOUS
  <2>2. successCount' = successCount
    BY <1>1 DEF Admit
  <2>3. leaked' = IF state = "open" THEN 0 ELSE leaked
    BY <1>1, <2>1 DEF Admit, StateChecked, TurnsHalfOpen
  <2>4. QED
    BY <1>1, <2>1, <2>2, <2>3, AdmitProbes DEF TypeOK
<1>2. ASSUME NEW c \in Calls, OnSuccess(c)
      PROVE  SlotsAccounted'
  <2>1. SUFFICES ASSUME state' = "half_open"
                 PROVE  SlotsAccounted'
    OBVIOUS
  <2>2. /\ state = "half_open" /\ successCount' = successCount + 1
        /\ halfOpenCalls' = halfOpenCalls /\ leaked' = leaked /\ Ends(c)
    BY <1>2, <2>1 DEF OnSuccess, TypeOK
  <2>3. Cardinality(Probes') >= Cardinality(Probes) - 1 /\ Cardinality(Probes') \in Nat
    BY <2>2, EndsProbes
  <2>4. QED
    BY <2>2, <2>3 DEF TypeOK
<1>3. ASSUME NEW c \in Calls, OnFailure(c)
      PROVE  SlotsAccounted'
  BY <1>3 DEF OnFailure, TypeOK
<1>4. ASSUME NEW c \in Calls, Cancelled(c)
      PROVE  SlotsAccounted'
  <2>1. Cardinality(Probes') + leaked' = Cardinality(Probes) + leaked
    BY <1>4, EndsProbes DEF Cancelled, TypeOK
  <2>2. Cardinality(Probes') \in Nat
    BY <1>4, EndsProbes DEF Cancelled
  <2>3. QED
    BY <1>4, <2>1, <2>2 DEF Cancelled, TypeOK
<1>5. CASE Reset
  BY <1>5 DEF Reset
<1>6. CASE Tick \/ UNCHANGED vars
  BY <1>6 DEF Tick, vars, Probes
<1>7. QED
  BY <1>1, <1>2, <1>3, <1>4, <1>5, <1>6 DEF Next

\* A half-open breaker that rejects every call still awaits a probe that will decide,
\* unless more than half_open_max_calls - success_threshold of its probes
\* were cancelled: half_open_calls is never given back (call).
THEOREM WedgeFree == Spec => []NeverWedged
<1>1. Init => SlotsAccounted
  BY DEF Init, SlotsAccounted
<1>2. Spec => []SlotsAccounted
  BY <1>1, SlotsAccountedStep, TypeCorrect, PTL DEF Spec
<1>3. TypeOK /\ CountsBelowThresholds /\ SlotsAccounted => NeverWedged
  <2> SUFFICES ASSUME TypeOK, CountsBelowThresholds, SlotsAccounted,
                      state = "half_open", halfOpenCalls >= HalfOpenMax,
                      leaked <= SpareProbes
               PROVE  Probes # {}
    BY DEF NeverWedged
  <2>1. Cardinality(Probes) # 0
    BY ConfigOK, ProbesFinite
       DEF TypeOK, CountsBelowThresholds, SlotsAccounted, SpareProbes
  <2>2. QED
    BY <2>1, FS_EmptySet
<1>4. QED
  BY <1>2, <1>3, TypeCorrect, CountsCorrect, PTL
====
