-------------------------- MODULE MCCircuitBreaker --------------------------
(***************************************************************************)
(* Two units; the schedule keeps the shape of the code's: a free first     *)
(* failure, growing waits, a longest one that repeats.                     *)
(***************************************************************************)
EXTENDS CircuitBreaker, TLC

CONSTANTS u1, u2

ShortSchedule == <<0, 1, 2>>
=============================================================================
