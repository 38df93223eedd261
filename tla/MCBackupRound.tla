--------------------------- MODULE MCBackupRound ---------------------------
(* BackupRound and Verify on a small instance: interchangeable databases.   *)
EXTENDS Verify, TLC

Symmetry == Permutations(Databases)
=============================================================================
