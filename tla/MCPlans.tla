------------------------------- MODULE MCPlans -------------------------------
(* Plans on small instances.                                                *)
EXTENDS Plans, TLC

\* A container like any other: an application, and changes to it.
App == [excluded |-> FALSE, included |-> TRUE, labelled |-> TRUE,
        image |-> {"other"}, ref |-> "other", note |-> NoName, label |-> NoName,
        provider |-> "postgres", env |-> "plain", password |-> "none"]

ByTag    == [App EXCEPT !.image = {"db", "other"}, !.ref = NoName,
                        !.provider = "mysql", !.password = "env"]
ByRef    == [App EXCEPT !.image = {}, !.ref = "db"]
Noted    == [App EXCEPT !.image = {}, !.ref = NoName, !.note = "like"]
Labelled == [App EXCEPT !.label = "sqlite", !.ref = NoName]
Declared == [App EXCEPT !.env = "declared"]
Likely   == [App EXCEPT !.env = "likely"]
NoLogin  == [ByTag EXCEPT !.password = "none"]
Cache    == [App EXCEPT !.image = {"db"}, !.provider = "redis"]
Excluded == [ByTag EXCEPT !.excluded = TRUE]
Unlisted == [ByTag EXCEPT !.labelled = FALSE]

SomeKinds ==
    {App, ByTag, ByRef, Noted, Labelled, Declared, Likely, NoLogin, Cache, Excluded, Unlisted}

\* A user's database, the entry for roles, a user's database of the same name, and
\* one whose name has a separator.
SomeDbs == {[name |-> <<"app">>, system |-> FALSE],
            [name |-> <<"globals">>, system |-> TRUE],
            [name |-> <<"globals">>, system |-> FALSE],
            [name |-> <<"system", "globals">>, system |-> FALSE]}

Symmetry == Permutations(Containers)
=============================================================================
