---------------------------- MODULE MCTaskPool ----------------------------
(* TaskPool on a small instance; the numbers of tasks, workers and retries   *)
(* are in the cfg file.                                                      *)
EXTENDS TaskPool
=============================================================================
