----------------------------- MODULE MCDateDirs -----------------------------
(* DateDirs with days of two units, in which three days overflow a Duration. *)
EXTENDS DateDirs
NoShift == {0}
West == {-1}
=============================================================================
