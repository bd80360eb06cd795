------------------------ MODULE CircuitBreakerProofs ------------------------
(***************************************************************************)
(* Theorems about CircuitBreaker for every set of units and every schedule *)
(* that starts with free failures and never shrinks.                       *)
(***************************************************************************)
EXTENDS CircuitBreaker, TLAPS

LEMMA ScheduleFacts ==
  /\ FirstOpen \in 1 .. Len(backoffSchedule)
  /\ Len(backoffSchedule) \in Nat \ {0}
  /\ \A n \in Nat \ {0} : Backoff(n) \in Nat
  /\ \A n \in Nat \ {0} : Backoff(n) > 0 <=> n >= FirstOpen
<1> DEFINE Opens(i) == /\ backoffSchedule[i] > 0
                       /\ \A j \in 1 .. i - 1 : backoffSchedule[j] = 0
<1>1. FirstOpen \in DOMAIN backoffSchedule /\ Opens(FirstOpen)
  BY ScheduleAssumption DEF FirstOpen
<1>2. DOMAIN backoffSchedule = 1 .. Len(backoffSchedule) /\ Len(backoffSchedule) \in Nat
  BY ScheduleAssumption
<1>3. \A i \in 1 .. Len(backoffSchedule) : backoffSchedule[i] \in Nat
  BY ScheduleAssumption, <1>2
<1>4. \A i \in 1 .. Len(backoffSchedule) : backoffSchedule[i] > 0 <=> i >= FirstOpen
  <2>1. \A i, j \in 1 .. Len(backoffSchedule) :
          i <= j => backoffSchedule[i] <= backoffSchedule[j]
    BY <1>2, ScheduleAssumption
  <2>2. ASSUME NEW i \in 1 .. Len(backoffSchedule), i >= FirstOpen
        PROVE  backoffSchedule[i] > 0
    BY <1>1, <1>2, <1>3, <2>1, <2>2
  <2>3. ASSUME NEW i \in 1 .. Len(backoffSchedule), i < FirstOpen
        PROVE  backoffSchedule[i] = 0
    BY <1>1, <1>2, <2>3
  <2> QED
    BY <1>1, <1>2, <2>2, <2>3
<1>5. FirstOpen \in 1 .. Len(backoffSchedule) /\ Len(backoffSchedule) \in Nat \ {0}
  BY <1>1, <1>2
<1>6. ASSUME NEW n \in Nat \ {0}
      PROVE  Backoff(n) \in Nat /\ (Backoff(n) > 0 <=> n >= FirstOpen)
  <2> DEFINE i == IF n <= Len(backoffSchedule) THEN n ELSE Len(backoffSchedule)
  <2>1. i \in 1 .. Len(backoffSchedule) /\ (i >= FirstOpen <=> n >= FirstOpen)
    BY <1>5
  <2>2. Backoff(n) = backoffSchedule[i]
    BY DEF Backoff
  <2> HIDE DEF i
  <2> QED
    BY <1>3, <1>4, <2>1, <2>2
<1> QED
  BY <1>5, <1>6

Inv ==
  /\ TypeOK
  /\ WindowMatchesFailures
  /\ \A u \in Unit : failedAt[u] <= now

LEMMA InitInv == Init => Inv
BY ScheduleFacts DEF Init, Inv, TypeOK, WindowMatchesFailures

LEMMA StepInv == Inv /\ [Next]_vars => Inv'
<1> SUFFICES ASSUME Inv, [Next]_vars PROVE Inv'
  OBVIOUS
<1> USE ScheduleFacts DEF Inv, TypeOK, WindowMatchesFailures
<1>1. ASSUME NEW u \in Unit, Attempt(u) \/ AttemptDeferred(u) PROVE Inv'
  BY <1>1 DEF Attempt, AttemptDeferred
<1>2. ASSUME NEW u \in Unit, AttemptFails(u) PROVE Inv'
  <2>1. consecutive[u] + 1 \in Nat \ {0} /\ Backoff(consecutive[u] + 1) \in Nat
    BY <1>2
  <2>0. now + Backoff(consecutive[u] + 1) \in Nat
    BY <2>1
  <2>2. TypeOK'
    <3>1. backoffUntil' \in [Unit -> Nat]
      BY <1>2, <2>0 DEF AttemptFails, RecordFailure
    <3>2. /\ consecutive' \in [Unit -> Nat] /\ failedAt' \in [Unit -> Nat]
          /\ now' \in Nat /\ attempting' \subseteq Unit
      BY <1>2, <2>1 DEF AttemptFails, RecordFailure
    <3> QED
      BY <3>1, <3>2
  <2>3. ASSUME NEW v \in Unit
        PROVE  backoffUntil'[v] = IF consecutive'[v] < FirstOpen THEN 0
                                  ELSE failedAt'[v] + Backoff(consecutive'[v])
    <3>1. CASE v # u
      BY <1>2, <3>1 DEF AttemptFails, RecordFailure
    <3>2. CASE v = u
      <4> DEFINE n == consecutive[u] + 1
      <4>1. consecutive'[u] = n /\ failedAt'[u] = now
        BY <1>2 DEF AttemptFails, RecordFailure
      <4>2. backoffUntil'[u] = IF Backoff(n) > 0 THEN now + Backoff(n) ELSE backoffUntil[u]
        BY <1>2 DEF AttemptFails, RecordFailure
      <4>3. n < FirstOpen => consecutive[u] < FirstOpen /\ ~(Backoff(n) > 0)
        BY <2>1
      <4>4. n >= FirstOpen => Backoff(n) > 0
        BY <2>1
      <4> HIDE DEF n
      <4> QED
        BY <2>1, <3>2, <4>1, <4>2, <4>3, <4>4 DEF n
    <3> QED
      BY <3>1, <3>2
  <2>4. \A v \in Unit : failedAt'[v] <= now'
    BY <1>2 DEF AttemptFails
  <2> QED
    BY <2>2, <2>3, <2>4
<1>3. ASSUME NEW u \in Unit, AttemptSettles(u) \/ Cleared(u) PROVE Inv'
  <2>1. TypeOK'
    BY <1>3 DEF AttemptSettles, Cleared, Reset
  <2>2. ASSUME NEW v \in Unit
        PROVE  backoffUntil'[v] = IF consecutive'[v] < FirstOpen THEN 0
                                  ELSE failedAt'[v] + Backoff(consecutive'[v])
    <3>1. CASE v # u
      BY <1>3, <3>1 DEF AttemptSettles, Cleared, Reset
    <3>2. CASE v = u
      <4>1. consecutive'[u] = 0 /\ backoffUntil'[u] = 0
        BY <1>3 DEF AttemptSettles, Cleared, Reset
      <4>2. 0 < FirstOpen
        <5> HIDE DEF Inv, TypeOK, WindowMatchesFailures
        <5> QED
          BY ScheduleFacts
      <4> QED
        BY <3>2, <4>1, <4>2
    <3> QED
      BY <3>1, <3>2
  <2>3. \A v \in Unit : failedAt'[v] <= now'
    BY <1>3 DEF AttemptSettles, Cleared
  <2> QED
    BY <2>1, <2>2, <2>3
<1>4. CASE Tick
  BY <1>4 DEF Tick
<1>5. CASE UNCHANGED vars
  BY <1>5 DEF vars
<1> QED
  BY <1>1, <1>2, <1>3, <1>4, <1>5 DEF Next

(* Counters, windows and clocks keep their types: no counter leaves the    *)
(* naturals, whatever the schedule and however the units fail.             *)
THEOREM TypeCorrect == Spec => []TypeOK
<1>1. Inv => TypeOK
  BY DEF Inv
<1> QED
  BY <1>1, InitInv, StepInv, PTL DEF Spec

(* The window always is the one its unit's failures call for.              *)
THEOREM WindowCorrect == Spec => []WindowMatchesFailures
<1>1. Init => Inv
  BY InitInv
<1>2. Inv /\ [Next]_vars => Inv'
  BY StepInv
<1>3. Inv => WindowMatchesFailures
  BY DEF Inv
<1> QED
  BY <1>1, <1>2, <1>3, PTL DEF Spec

(* Attempts are never closer together than the schedule allows.            *)
THEOREM Spacing == Spec => AttemptsAreSpaced
<1>1. Inv /\ [Next]_vars =>
        [\A u \in Unit :
           u \in attempting' \ attempting /\ consecutive[u] > 0
           => now >= failedAt[u] + Backoff(consecutive[u])]_vars
  <2> SUFFICES ASSUME Inv, Next, NEW u \in Unit, u \in attempting' \ attempting,
                      consecutive[u] > 0
               PROVE  now >= failedAt[u] + Backoff(consecutive[u])
    OBVIOUS
  <2>1. Attempt(u)
    BY DEF Next, Attempt, AttemptFails, AttemptSettles, AttemptDeferred, Cleared, Tick
  <2>2. failedAt[u] + Backoff(consecutive[u]) <= now
    <3>1. consecutive[u] < FirstOpen => Backoff(consecutive[u]) = 0
      BY ScheduleFacts DEF Inv, TypeOK
    <3>2. failedAt[u] <= now
      BY DEF Inv, TypeOK
    <3>3. backoffUntil[u] <= now
      BY <2>1 DEF Attempt, IsOpen, Inv, TypeOK
    <3> QED
      BY <3>1, <3>2, <3>3, ScheduleFacts DEF Inv, TypeOK, WindowMatchesFailures
  <2> QED
    BY <2>2, ScheduleFacts DEF Inv, TypeOK
<1> QED
  BY <1>1, InitInv, StepInv, PTL DEF Spec, AttemptsAreSpaced

-----------------------------------------------------------------------------
(* The refinement: counts beyond the schedule are one, the open window is  *)
(* what the clock makes of backoffUntil.                                   *)

Saturate(n) == IF n <= Len(backoffSchedule) THEN n ELSE Len(backoffSchedule)

LEMMA FailureRefines ==
  ASSUME Inv, NEW u \in Unit, AttemptFails(u)
  PROVE  Abstract!RecordFailure(u)
<1> DEFINE n == consecutive[u] + 1
           fails == [v \in Unit |-> Saturate(consecutive[v])]
           opened == {v \in Unit : now < backoffUntil[v]}
<1> USE ScheduleFacts DEF Inv, TypeOK
<1>0. n \in Nat \ {0} /\ now' = now /\ consecutive' = [consecutive EXCEPT ![u] = n]
  BY DEF AttemptFails, RecordFailure
<1>1. fails' = [fails EXCEPT ![u] = Abstract!Saturated(@)]
  <2>1. Saturate(n) = Abstract!Saturated(Saturate(consecutive[u]))
    BY <1>0 DEF Abstract!Saturated, Saturate
  <2>2. \A v \in Unit : fails'[v] = IF v = u THEN Saturate(n) ELSE fails[v]
    BY <1>0 DEF Saturate
  <2> QED
    BY <2>1, <2>2
<1>2. Abstract!Saturated(fails[u]) >= FirstOpen <=> n >= FirstOpen
  BY <1>0 DEF Abstract!Saturated, Saturate
<1>3. CASE n >= FirstOpen
  <2>1. Backoff(n) > 0 /\ Backoff(n) \in Nat
    BY <1>0, <1>3
  <2>2. backoffUntil' = [backoffUntil EXCEPT ![u] = now + Backoff(n)]
    BY <2>1 DEF AttemptFails, RecordFailure
  <2>3. opened' = opened \cup {u}
    BY <1>0, <2>1, <2>2
  <2> QED
    BY <1>1, <1>2, <1>3, <2>3 DEF Abstract!RecordFailure, IsOpen, Saturate
<1>4. CASE ~(n >= FirstOpen)
  <2>1. ~(Backoff(n) > 0)
    BY <1>0, <1>4
  <2>2. backoffUntil' = backoffUntil
    BY <2>1 DEF AttemptFails, RecordFailure
  <2>3. opened' = opened
    BY <1>0, <2>2
  <2> QED
    BY <1>1, <1>2, <1>4, <2>3 DEF Abstract!RecordFailure, IsOpen, Saturate
<1> QED
  BY <1>3, <1>4

LEMMA ResetRefines ==
  ASSUME Inv, NEW u \in Unit, AttemptSettles(u) \/ Cleared(u)
  PROVE  Abstract!Reset(u)
<1> USE ScheduleFacts DEF Inv, TypeOK
<1>1. /\ consecutive' = [consecutive EXCEPT ![u] = 0]
      /\ backoffUntil' = [backoffUntil EXCEPT ![u] = 0]
      /\ now' = now
  BY DEF AttemptSettles, Cleared, Reset
<1> DEFINE fails == [v \in Unit |-> Saturate(consecutive[v])]
           opened == {v \in Unit : now < backoffUntil[v]}
<1>2. fails' = [fails EXCEPT ![u] = 0]
  <2>1. \A v \in Unit : fails'[v] = IF v = u THEN 0 ELSE fails[v]
    BY <1>1 DEF Saturate
  <2> QED
    BY <2>1
<1>3. opened' = opened \ {u}
  BY <1>1
<1> QED
  BY <1>2, <1>3 DEF Abstract!Reset, IsOpen, Saturate

LEMMA TickRefines ==
  ASSUME Inv, Tick
  PROVE  \/ \E S \in SUBSET Unit : Abstract!WindowsEnd(S)
         \/ UNCHANGED Abstract!breakerVars
<1> DEFINE opened == {v \in Unit : now < backoffUntil[v]}
           S == opened \ opened'
<1> USE DEF Inv, TypeOK
<1>1. opened' \subseteq opened /\ opened' = opened \ S /\ S \in SUBSET Unit
  BY DEF Tick
<1>2. CASE S = {}
  BY <1>1, <1>2 DEF Tick, Abstract!breakerVars, IsOpen
<1>3. CASE S # {}
  <2>1. Abstract!WindowsEnd(S)
    BY <1>1, <1>3 DEF Tick, Abstract!WindowsEnd, IsOpen
  <2> QED
    BY <1>1, <2>1
<1> QED
  BY <1>2, <1>3

(* The clocked breaker implements the abstract one of the supervisor.      *)
THEOREM Implements == Spec => ImplementsBreaker
<1>1. Init => Abstract!BreakerInit
  BY ScheduleFacts DEF Init, Abstract!BreakerInit, IsOpen
<1>2. Inv /\ [Next]_vars => [Abstract!BreakerNext]_(Abstract!breakerVars)
  <2> SUFFICES ASSUME Inv, [Next]_vars
               PROVE  Abstract!BreakerNext \/ UNCHANGED Abstract!breakerVars
    OBVIOUS
  <2>1. ASSUME NEW u \in Unit, Attempt(u) \/ AttemptDeferred(u)
        PROVE  UNCHANGED Abstract!breakerVars
    BY <2>1 DEF Attempt, AttemptDeferred, Abstract!breakerVars, IsOpen
  <2>2. ASSUME NEW u \in Unit, AttemptFails(u) PROVE Abstract!BreakerNext
    BY <2>2, FailureRefines DEF Abstract!BreakerNext
  <2>3. ASSUME NEW u \in Unit, AttemptSettles(u) \/ Cleared(u) PROVE Abstract!BreakerNext
    BY <2>3, ResetRefines DEF Abstract!BreakerNext
  <2>4. CASE Tick
    BY <2>4, TickRefines DEF Abstract!BreakerNext
  <2>5. CASE UNCHANGED vars
    BY <2>5 DEF vars, Abstract!breakerVars, IsOpen
  <2> QED
    BY <2>1, <2>2, <2>3, <2>4, <2>5 DEF Next
<1> QED
  BY <1>1, <1>2, InitInv, StepInv, PTL DEF Spec, ImplementsBreaker, Abstract!BreakerSpec
=============================================================================
