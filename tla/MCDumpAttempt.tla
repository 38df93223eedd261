--------------------------- MODULE MCDumpAttempt ---------------------------
(* DumpAttempt on small instances; the cfg files choose the settings, and   *)
(* Init every format.                                                       *)
EXTENDS DumpAttempt
=============================================================================
