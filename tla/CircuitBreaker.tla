--------------------------- MODULE CircuitBreaker ---------------------------
(***************************************************************************)
(* The circuit breaker of the monitor with its clock and its schedule, and *)
(* the restart attempts it spaces out.  Durations are in ticks of the      *)
(* model's clock.                                                          *)
(***************************************************************************)
EXTENDS Naturals, Sequences

CONSTANTS
  Unit,             \* systemd units under supervision
  backoffSchedule,  \* wait after the first, second, ... failure in a row
  MaxTime           \* bound of the model's clock

(* The schedule starts with failures that cost nothing and grows.          *)
FirstOpen == CHOOSE i \in DOMAIN backoffSchedule :
               /\ backoffSchedule[i] > 0
               /\ \A j \in 1 .. i - 1 : backoffSchedule[j] = 0

ASSUME ScheduleAssumption ==
  /\ backoffSchedule \in Seq(Nat)
  /\ \E i \in DOMAIN backoffSchedule :
       /\ backoffSchedule[i] > 0
       /\ \A j \in 1 .. i - 1 : backoffSchedule[j] = 0
  /\ \A i, j \in DOMAIN backoffSchedule :
       i <= j => backoffSchedule[i] <= backoffSchedule[j]
  /\ MaxTime \in Nat

VARIABLES
  now,           \* time.Now()
  consecutive,   \* failures since the last successful start
  backoffUntil,  \* no attempt before this time (0: the zero time)
  attempting,    \* units with a restart under way
  failedAt       \* when the last failure was recorded (history)

vars == <<now, consecutive, backoffUntil, attempting, failedAt>>

TypeOK ==
  /\ now \in Nat
  /\ consecutive \in [Unit -> Nat]
  /\ backoffUntil \in [Unit -> Nat]
  /\ attempting \subseteq Unit
  /\ failedAt \in [Unit -> Nat]

Init ==
  /\ now = 1
  /\ consecutive = [u \in Unit |-> 0]
  /\ backoffUntil = [u \in Unit |-> 0]
  /\ attempting = {}
  /\ failedAt = [u \in Unit |-> 0]

(* The duration for the n-th failure in a row.                             *)
Backoff(n) ==
  backoffSchedule[IF n <= Len(backoffSchedule) THEN n ELSE Len(backoffSchedule)]

\* Mutant: the window ends one tick early.
IsOpenShort(u) == now + 1 < backoffUntil[u]

IsOpen(u) == now < backoffUntil[u]

\* Mutant: the counter wraps around at the end of the schedule.
RecordFailureWraps(u) ==
  LET n == IF consecutive[u] = Len(backoffSchedule) THEN 1 ELSE consecutive[u] + 1
  IN /\ consecutive' = [consecutive EXCEPT ![u] = n]
     /\ backoffUntil' = [backoffUntil EXCEPT ![u] = now + Backoff(n)]

RecordFailure(u) ==
  LET n == consecutive[u] + 1
  IN /\ consecutive' = [consecutive EXCEPT ![u] = n]
     /\ backoffUntil' = IF Backoff(n) > 0
                        THEN [backoffUntil EXCEPT ![u] = now + Backoff(n)]
                        ELSE backoffUntil

\* Mutant: only the counter is cleared.
ResetCounter(u) ==
  /\ consecutive' = [consecutive EXCEPT ![u] = 0]
  /\ UNCHANGED backoffUntil

(* The entry is deleted; the next access creates a zero one.               *)
Reset(u) ==
  /\ consecutive' = [consecutive EXCEPT ![u] = 0]
  /\ backoffUntil' = [backoffUntil EXCEPT ![u] = 0]

-----------------------------------------------------------------------------
(* The monitor starts an attempt only outside the window, one per unit.    *)
Attempt(u) ==
  /\ ~IsOpen(u) /\ u \notin attempting
  /\ attempting' = attempting \cup {u}
  /\ UNCHANGED <<now, consecutive, backoffUntil, failedAt>>

AttemptFails(u) ==
  /\ u \in attempting
  /\ RecordFailure(u)
  /\ attempting' = attempting \ {u}
  /\ failedAt' = [failedAt EXCEPT ![u] = now]
  /\ UNCHANGED now

AttemptSettles(u) ==
  /\ u \in attempting
  /\ Reset(u)
  /\ attempting' = attempting \ {u}
  /\ UNCHANGED <<now, failedAt>>

(* A dependency is down: the attempt ends without a verdict.               *)
AttemptDeferred(u) ==
  /\ u \in attempting
  /\ attempting' = attempting \ {u}
  /\ UNCHANGED <<now, consecutive, backoffUntil, failedAt>>

(* The monitor sees the unit active, or it is enabled again, at any time.  *)
Cleared(u) ==
  /\ Reset(u)
  /\ UNCHANGED <<now, attempting, failedAt>>

Tick ==
  /\ now < MaxTime
  /\ now' = now + 1
  /\ UNCHANGED <<consecutive, backoffUntil, attempting, failedAt>>

Next ==
  \/ \E u \in Unit : \/ Attempt(u) \/ AttemptFails(u) \/ AttemptSettles(u)
                     \/ AttemptDeferred(u) \/ Cleared(u)
  \/ Tick

Spec == Init /\ [][Next]_vars

-----------------------------------------------------------------------------
(* The window belongs to the failures it is for: none below the first      *)
(* failure that costs a wait, and otherwise the scheduled wait after the   *)
(* latest failure.  A window that outlives a reset, or is computed for     *)
(* another count, would hold back a unit that was enabled again.           *)
WindowMatchesFailures ==
  \A u \in Unit :
    backoffUntil[u] = IF consecutive[u] < FirstOpen THEN 0
                      ELSE failedAt[u] + Backoff(consecutive[u])

(* After n failures in a row the next attempt comes no sooner than the     *)
(* schedule says, whatever was recorded, reset and deferred in between.    *)
AttemptsAreSpaced ==
  [][\A u \in Unit :
       u \in attempting' \ attempting /\ consecutive[u] > 0
       => now >= failedAt[u] + Backoff(consecutive[u])]_vars

(* The breaker the supervisor relies on.                                   *)
Abstract == INSTANCE Breaker WITH
  MaxFails <- Len(backoffSchedule),
  FirstOpen <- FirstOpen,
  fails <- [u \in Unit |-> IF consecutive[u] <= Len(backoffSchedule)
                           THEN consecutive[u] ELSE Len(backoffSchedule)],
  open <- {u \in Unit : IsOpen(u)}

(* The clocked breaker implements the one without a clock.                 *)
ImplementsBreaker == Abstract!BreakerSpec
=============================================================================
