--------------------------- MODULE MCDaemonState ---------------------------
(***************************************************************************)
(* Two units, a few kernel sessions.                                       *)
(***************************************************************************)
EXTENDS DaemonState, TLC

CONSTANTS u1, u2, b1

\* u1 is "foo.service" and b1 is "foo".
Short == b1 :> u1
=============================================================================
