---------------------------- MODULE MCSupervisor ----------------------------
(***************************************************************************)
(* Small instances of Supervisor: one or two units, a few goroutines.      *)
(***************************************************************************)
EXTENDS Supervisor, TLC

CONSTANTS u1, u2, m1, r1, r2, h1, h2, main

\* One unit.
Solo == {u1}
SoloNoDeps == [u \in Solo |-> {}]
SoloMounts == [u \in Solo |-> {m1}]
SoloRank == [u \in Solo |-> 1]
SoloUnlessStopped == [u \in Solo |-> "unless-stopped"]

\* A unit and its dependent, which also needs the mount.
Pair == {u1, u2}
PairMixed == (u1 :> "on-failure") @@ (u2 :> "unless-stopped")
PairDeps == (u1 :> {}) @@ (u2 :> {u1})
PairMounts == (u1 :> {}) @@ (u2 :> {m1})
PairRank == (u1 :> 1) @@ (u2 :> 2)

ThreadSymmetry == Permutations(Handler) \cup Permutations(Restarter)
=============================================================================
