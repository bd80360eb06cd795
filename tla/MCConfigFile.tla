---------------------------- MODULE MCConfigFile ----------------------------
(***************************************************************************)
(* Two services, of which one generation declares one and the next both.   *)
(***************************************************************************)
EXTENDS ConfigFile, TLC

CONSTANTS u1, u2, w1, w2

TwoGenerations == <<{u1}, {u1, u2}>>

WriterSymmetry == Permutations(Writer)
=============================================================================
