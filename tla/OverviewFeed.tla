---------------------------- MODULE OverviewFeed ----------------------------
(***************************************************************************)
(* What useOverview promises to one component: the overview it shows is    *)
(* one the daemon has answered, and is never replaced by an older one as   *)
(* long as the component stays on the page.  Overviews are represented by  *)
(* the version of the daemon's state they were made from.                  *)
(***************************************************************************)
EXTENDS Integers

VARIABLES
  at,     \* version of the daemon's state
  data,   \* version shown, -1: null
  error,  \* the last delivery was an error
  isStale \* the overview shown is marked as stale

vars == <<at, data, error, isStale>>

Mounted == data = -1 /\ ~error /\ isStale

Init == at = 0 /\ Mounted

(* The state of the daemon changes.                                        *)
DaemonChanges == at' = at + 1 /\ UNCHANGED <<data, error, isStale>>

(* onData: a new overview, or the one of the last answer again.            *)
OnData ==
  /\ data' \in 0 .. at /\ data' >= data
  /\ ~error' /\ ~isStale'
  /\ UNCHANGED at

(* onError: the overview of the last answer stays, marked as stale; there  *)
(* may be none yet.                                                        *)
OnError ==
  /\ error'
  /\ \/ UNCHANGED <<data, isStale>> /\ data = -1
     \/ data' \in 0 .. at /\ data' >= data /\ isStale'
  /\ UNCHANGED at

(* The component leaves the page.                                          *)
Unmount ==
  /\ data' = -1 /\ ~error' /\ isStale'
  /\ UNCHANGED at

Next == DaemonChanges \/ OnData \/ OnError \/ Unmount

Spec == Init /\ [][Next]_vars
=============================================================================
