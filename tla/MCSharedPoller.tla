--------------------------- MODULE MCSharedPoller ---------------------------
(* Two components, a service that fails and starts, intervals within and   *)
(* outside what the selector offers.                                       *)
EXTENDS SharedPoller, TLC

CONSTANTS l1, l2, u1

(* 500 is below what the selector offers, 90000 above.                     *)
MCSaved == {500, 90000}
=============================================================================
