------------------------------ MODULE Breaker ------------------------------
(***************************************************************************)
(* What the restart circuit breaker promises the monitor: per unit, how    *)
(* many restarts have failed in a row and whether the unit is inside its   *)
(* backoff window.  Time is abstracted to the moment the window ends.      *)
(* CircuitBreaker is the detailed module, with the clock and the schedule. *)
(***************************************************************************)
EXTENDS Naturals

\* Whoever instantiates the module has FirstOpen \in 1 .. MaxFails.
CONSTANTS
  Unit,       \* systemd units under supervision
  MaxFails,   \* the failure counter saturates here (length of the schedule)
  FirstOpen   \* the first failure count that opens a backoff window

VARIABLES
  fails,      \* consecutive failures since the last successful start
  open        \* units inside their backoff window

breakerVars == <<fails, open>>

\* Mutant: the index into the schedule is not clamped.
SaturatedUnclamped(n) == n + 1

Saturated(n) == IF n < MaxFails THEN n + 1 ELSE MaxFails

BreakerTypeOK ==
  /\ fails \in [Unit -> 0 .. MaxFails]
  /\ open \subseteq Unit

BreakerInit ==
  /\ fails = [u \in Unit |-> 0]
  /\ open = {}

\* A zero entry of the schedule leaves the window as it is.
RecordFailure(u) ==
  /\ fails' = [fails EXCEPT ![u] = Saturated(@)]
  /\ open' = IF Saturated(fails[u]) >= FirstOpen THEN open \cup {u} ELSE open

Reset(u) ==
  /\ fails' = [fails EXCEPT ![u] = 0]
  /\ open' = open \ {u}

(* The clock runs past the end of some windows.                            *)
WindowsEnd(S) ==
  /\ S # {} /\ S \subseteq open
  /\ open' = open \ S
  /\ UNCHANGED fails

BreakerNext ==
  \/ \E u \in Unit : RecordFailure(u) \/ Reset(u)
  \/ \E S \in SUBSET Unit : WindowsEnd(S)

BreakerSpec == BreakerInit /\ [][BreakerNext]_breakerVars
=============================================================================
