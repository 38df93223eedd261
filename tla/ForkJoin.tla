------------------------------ MODULE ForkJoin ------------------------------
(***************************************************************************)
(* What backup() expects of runTasks (src/backup.go): every task is        *)
(* reported exactly once, as a file or as a failure, and the call returns  *)
(* only when all are.  How the tasks are scheduled and retried is hidden.  *)
(***************************************************************************)
EXTENDS Naturals

CONSTANT Tasks

VARIABLES
    files,     \* how many file entries a task has in the results
    failures,  \* how many failure messages a task has
    returned   \* the call has returned

Init ==
    /\ files = [t \in Tasks |-> 0]
    /\ failures = [t \in Tasks |-> 0]
    /\ returned = FALSE

Reported(t) == files[t] + failures[t] = 1

Report(t) ==
    /\ ~returned
    /\ files[t] + failures[t] = 0
    /\ \/ files' = [files EXCEPT ![t] = 1] /\ UNCHANGED failures
       \/ failures' = [failures EXCEPT ![t] = 1] /\ UNCHANGED files
    /\ UNCHANGED returned

Return ==
    /\ ~returned
    /\ \A t \in Tasks : Reported(t)
    /\ returned' = TRUE
    /\ UNCHANGED <<files, failures>>

Next == Return \/ \E t \in Tasks : Report(t)

Spec == Init /\ [][Next]_<<files, failures, returned>>
=============================================================================
