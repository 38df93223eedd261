---------------------------- MODULE MCRunLock ----------------------------
(* RunLock on a small instance: model values for the processes, which are  *)
(* interchangeable in the safety runs.                                     *)
EXTENDS RunLock, TLC

Symmetry == Permutations(Procs)
=============================================================================
