----------------------------- MODULE AtomicDump -----------------------------
(***************************************************************************)
(* What the rest of the program expects of writeBackup (src/backup.go): an *)
(* attempt that reports success has replaced the file at the final path in *)
(* one step, by a whole dump where a cut can be told, and an attempt that  *)
(* fails or is killed has not touched it.                                  *)
(***************************************************************************)
EXTENDS Naturals

VARIABLES
    final,   \* the dump at the final path: the attempt that wrote it, and how much
    result,  \* what the last attempt returned; "none" while it runs or is lost
    telling  \* the format and the settings tell a dump that is cut

NoDump == [att |-> 0, content |-> "absent"]

Init == final.content \in {"absent", "whole"} /\ final.att = 0 /\ result = "none"

Begin == result' = "none" /\ UNCHANGED final

Succeed ==
    /\ result = "none" /\ result' = "ok"
    /\ final'.att \in Nat /\ final'.att > final.att
    /\ telling => final'.content = "whole"

Fail == result = "none" /\ result' \in {"retryable", "permanent"} /\ UNCHANGED final

Next == (Begin \/ Succeed \/ Fail) /\ UNCHANGED telling

Spec == Init /\ [][Next]_<<final, result, telling>>
=============================================================================
