------------------------- MODULE MCBackupScheduler -------------------------
(***************************************************************************)
(* Small instances of BackupScheduler.                                     *)
(***************************************************************************)
EXTENDS BackupScheduler, TLC

CONSTANTS b1, b2, s1, s2, g1, g2

RunnerSymmetry == Permutations(Runner)
=============================================================================
