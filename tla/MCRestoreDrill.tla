--------------------------- MODULE MCRestoreDrill --------------------------
(* RestoreDrill on small instances.                                         *)
EXTENDS RestoreDrill

CONSTANTS db, my, odd

\* A Postgres container and a MySQL container that can be drilled, and one that can
\* not, with a user that its server knows.
MCPlans == {db, my, odd}
MCProvider == [p \in MCPlans |-> IF p = my THEN "mysql" ELSE "postgres"]
MCEquipped == {my, db}
=============================================================================
