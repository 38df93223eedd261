---------------------------- MODULE RestoreDrill ----------------------------
(***************************************************************************)
(* The restore drill of a round (src/restore.go): for each planned         *)
(* Postgres or MySQL container a container is created from the same image, *)
(* the dump is imported into it and a query is made, and the container is  *)
(* removed.  Its name ends in the pid of the process, which is 1 whenever  *)
(* the program is a container's entrypoint: here there is one name.        *)
(*                                                                         *)
(* The drill has one deadline (drillTimeout): a call that begins after it  *)
(* fails, but it does not end the read of an exec's output (execCollect in *)
(* src/docker.go).  Every call to the daemon may fail; the process may be  *)
(* killed.                                                                 *)
(***************************************************************************)
EXTENDS Naturals, FiniteSets

CONSTANTS
    Plans,      \* the containers that were dumped
    Provider,   \* provider.name of each
    Secret,     \* those whose environment has the password of the server's root
    LetIn,      \* whose fresh server knows the user of the drill's commands, with
                \* MYSQL_BACKUP_PASSWORD for MySQL
    MayImport,  \* where that user may do what a dump does (MySQL)
    HasDatabase,  \* where there is a database of the user's name (Postgres)
    HasTarget,  \* those whose image has the directory drillRemotePath
    MaxPings    \* drillReadyTimeout / drillReadyInterval

ASSUME RestoreDrillAssumption ==
    /\ IsFiniteSet(Plans)
    /\ Provider \in [Plans -> {"postgres", "mysql", "other"}]
    /\ {Secret, LetIn, MayImport, HasDatabase, HasTarget} \subseteq SUBSET Plans
    /\ MaxPings \in Nat \ {0}

VARIABLES
    pc,       \* where the drill is; "idle" outside of it, "next" between containers
    todo,     \* plans not yet looked at
    plan,     \* the one that is drilled
    envRead,  \* containerEnv answered
    made,     \* the program knows the id of a container to remove
    pings,    \* turns of waitForReady
    exec,     \* the exec being read: "none", "running", or how it ended
    ended,    \* drillCtx has ended
    verdict,  \* of each plan in this drill
    dump,     \* the file pickDrillFile picks for each plan
    box,      \* the daemon's container of that name
    \* History.
    leaked,   \* a container of that name was left behind
    trouble,  \* plans that met something that is not their dump's fault
    cut       \* plans of which an exec's stream was cut

loop == <<todo, plan, ended, dump>>
locals == <<envRead, made, pings, exec>>
daemon == <<box, leaked, cut>>
vars == <<pc, loop, locals, verdict, daemon, trouble>>

Drilled == {"image", "env", "create", "start", "ready", "copy", "import", "verify", "remove"}
Dumps == {"none", "good", "bad"}  \* a bad one has a statement that fails, or is compressed

TypeOK ==
    /\ pc \in {"idle", "next"} \cup Drilled
    /\ todo \subseteq Plans /\ (pc \in Drilled => plan \in Plans)
    /\ pings \in 0..MaxPings /\ exec \in {"none", "running", "zero", "nonzero"}
    /\ envRead \in BOOLEAN /\ made \in BOOLEAN /\ ended \in BOOLEAN /\ leaked \in BOOLEAN
    /\ verdict \in [Plans -> {"none", "passed", "warned"}]
    /\ dump \in [Plans -> Dumps]
    /\ box \in {"none", "created", "started", "up"}
    /\ trouble \subseteq Plans /\ cut \subseteq Plans

Init ==
    /\ pc = "idle" /\ todo = {} /\ plan \in Plans
    /\ envRead = FALSE /\ made = FALSE /\ pings = 0 /\ exec = "none" /\ ended = FALSE
    /\ verdict = [p \in Plans |-> "none"] /\ dump = [p \in Plans |-> "none"]
    /\ box = "none" /\ leaked = FALSE /\ trouble = {} /\ cut = {}

-----------------------------------------------------------------------------
(* The loop over the plans                                                 *)

Begin ==
    /\ pc = "idle" /\ pc' = "next" /\ todo' = Plans /\ ended' = FALSE
    /\ verdict' = [p \in Plans |-> "none"] /\ dump' = [p \in Plans |-> "none"]
    /\ trouble' = {} /\ cut' = {}
    /\ UNCHANGED <<plan, locals, box, leaked>>

\* A plan is passed over, or drilled with the file that pickDrillFile picks from what
\* the manifest lists for it.
Pick(p) ==
    /\ pc = "next" /\ p \in todo /\ todo' = todo \ {p}
    /\ \/ UNCHANGED <<pc, plan, dump, envRead, pings>>
       \/ /\ Provider[p] \in {"postgres", "mysql"}
          /\ \E d \in Dumps \ {"none"} : dump' = [dump EXCEPT ![p] = d]
          /\ pc' = "image" /\ plan' = p /\ envRead' = FALSE /\ pings' = 0
    /\ UNCHANGED <<made, exec, ended, verdict, daemon, trouble>>

Finish ==
    /\ pc = "next" /\ todo = {} /\ pc' = "idle"
    /\ UNCHANGED <<loop, locals, verdict, daemon, trouble>>

-----------------------------------------------------------------------------
(* drillRestore                                                            *)

Verdict(v) == verdict' = [verdict EXCEPT ![plan] = v]
GoesOn(to) == pc' = to /\ UNCHANGED <<verdict, trouble>>

\* Mutant of Fails: the container is removed only after a drill that passed.
FailsAndLeaves(excuse) ==
    Verdict("warned") /\ pc' = "next" /\ trouble' = trouble \cup excuse

\* drillRestore returns an error: the deferred call removes what was created.  The
\* excuse is {plan} when it was not the dump's fault.
Fails(excuse) ==
    /\ Verdict("warned") /\ trouble' = trouble \cup excuse
    /\ pc' = IF made THEN "remove" ELSE "next"

ImageRef ==
    /\ pc = "image"
    /\ (~ended /\ GoesOn("env")) \/ Fails({plan})
    /\ UNCHANGED <<loop, locals, daemon>>

\* A failure leaves the environment empty and is not reported.
ContainerEnv ==
    /\ pc = "env" /\ pc' = "create"
    /\ \/ envRead' = TRUE /\ UNCHANGED trouble
       \/ trouble' = trouble \cup {plan} /\ UNCHANGED envRead
    /\ UNCHANGED <<loop, made, pings, exec, verdict, daemon>>

\* The name may be taken; a call may fail without an effect, or with one (the reply
\* is lost, or the deadline ends the call).
Create ==
    /\ pc = "create"
    /\ \/ /\ ~ended /\ box = "none" /\ box' = "created" /\ made' = TRUE
          /\ GoesOn("start") /\ UNCHANGED leaked
       \/ box = "none" /\ box' = "created" /\ leaked' = TRUE /\ Fails({plan}) /\ UNCHANGED made
       \/ box # "none" /\ Fails({}) /\ UNCHANGED <<box, made, leaked>>
       \/ Fails({plan}) /\ UNCHANGED <<box, made, leaked>>
    /\ UNCHANGED <<loop, envRead, pings, exec, cut>>

Start ==
    /\ pc = "start"
    /\ \/ ~ended /\ box' = "started" /\ GoesOn("ready")
       \/ Fails({plan}) /\ UNCHANGED box
    /\ UNCHANGED <<loop, locals, leaked, cut>>

\* startExec
StartExec ==
    /\ pc \in {"ready", "import", "verify"} /\ exec = "none" /\ ~ended
    /\ pc = "ready" => pings < MaxPings
    /\ exec' = "running"
    /\ UNCHANGED <<pc, loop, envRead, made, pings, verdict, daemon, trouble>>

\* waitForReady without an answer: once more after the interval.
PingAgain ==
    /\ pc = "ready" /\ exec # "running" /\ ~ended
    /\ pings < MaxPings /\ pings' = pings + 1 /\ exec' = "none"
    /\ UNCHANGED <<pc, loop, envRead, made, verdict, daemon, trouble>>

\* Mutant of NotReady: waitForReady has no deadline of its own.
NotReadyAtEnd ==
    /\ pc = "ready" /\ exec # "running" /\ ended /\ exec' = "none" /\ Fails({plan})
    /\ UNCHANGED <<loop, envRead, made, pings, daemon>>

\* drillReadyTimeout has passed, which is looked at before each turn, or drillCtx has
\* ended, which is looked at after each.
NotReady ==
    /\ pc = "ready" /\ exec # "running" /\ exec' = "none" /\ Fails({plan})
    /\ ended \/ (pings > 0 /\ exec = "none")
    /\ UNCHANGED <<loop, envRead, made, pings, daemon>>

Ready ==
    /\ pc = "ready" /\ exec = "zero" /\ ~ended /\ exec' = "none" /\ GoesOn("copy")
    /\ UNCHANGED <<loop, envRead, made, pings, daemon>>

\* os.ReadFile and CopyToContainer: the daemon wants an existing directory.
Copy ==
    /\ pc = "copy"
    /\ \/ ~ended /\ plan \in HasTarget /\ GoesOn("import")
       \/ plan \notin HasTarget /\ Fails({})
       \/ Fails({plan})
    /\ UNCHANGED <<loop, locals, daemon>>

Passes ==
    \/ pc = "import" /\ GoesOn("verify")
    \/ pc = "verify" /\ pc' = "remove" /\ Verdict("passed") /\ UNCHANGED trouble

\* Mutant of Collect: the exit code is not asked for.
CollectOutput ==
    /\ pc \in {"import", "verify"} /\ exec \in {"zero", "nonzero"} /\ exec' = "none" /\ Passes
    /\ UNCHANGED <<loop, envRead, made, pings, daemon>>

\* execCollect returns, from the import or from the query, or could not start; the
\* query's output is empty only when it failed.
Collect ==
    /\ pc \in {"import", "verify"} /\ exec # "running" /\ exec' = "none"
    /\ \/ exec = "zero" /\ ~ended /\ Passes
       \/ exec = "nonzero" /\ Fails({})
       \/ Fails({plan})
    /\ UNCHANGED <<loop, envRead, made, pings, daemon>>

\* The deferred call has no deadline; that it failed is only logged.
Remove ==
    /\ pc = "remove" /\ pc' = "next" /\ made' = FALSE
    /\ \/ box' = "none" /\ UNCHANGED leaked
       \/ leaked' = TRUE /\ UNCHANGED box
    /\ UNCHANGED <<loop, envRead, pings, exec, verdict, trouble, cut>>

-----------------------------------------------------------------------------
(* The container                                                           *)

\* The environment drillEnvironment gives the server: without a password of its root
\* the image of MySQL refuses to start; that of Postgres is told to trust.
Starts(p) == Provider[p] = "postgres" \/ (envRead /\ p \in Secret)

\* What a command comes to where the settings of the server matter to it, which the
\* server has not got if they could not be read.
Answers(fits) == IF envRead THEN {fits} ELSE BOOLEAN

\* The images initialise the data with a temporary server, then start the real one.
Server ==
    /\ made
    /\ \/ box = "started" /\ Starts(plan) /\ box' = "up"
       \/ box = "up" /\ box' = "started"
    /\ UNCHANGED <<pc, loop, locals, verdict, leaked, trouble, cut>>

\* mysql stops at the first error, psql -f goes on and exits 0.
Imports(p) == Provider[p] = "mysql" => p \in MayImport /\ dump[p] = "good"

\* The query of psql names no database, so that it is the one with the user's name.
Queries(p) == p \in LetIn /\ (Provider[p] = "postgres" => p \in HasDatabase)

Exits(ok) == exec' = IF ok THEN "zero" ELSE "nonzero"

\* The program ends; mysqladmin ping and pg_isready ask for no password.
ProgramEnds ==
    /\ exec = "running"
    /\ \/ pc = "ready" /\ Exits(box = "up") /\ UNCHANGED trouble
       \/ /\ pc = "import" /\ box = "up" /\ UNCHANGED trouble
          /\ \E known \in Answers(plan \in LetIn) : Exits(known /\ Imports(plan))
       \/ /\ pc = "verify" /\ box = "up" /\ UNCHANGED trouble
          /\ \E ok \in Answers(Queries(plan)) : Exits(ok)
       \/ pc # "ready" /\ box # "up" /\ Exits(FALSE) /\ trouble' = trouble \cup {plan}
    /\ UNCHANGED <<pc, loop, envRead, made, pings, verdict, daemon>>

\* The stream ends early: the exit code of a program that runs reads as zero.
StreamIsCut ==
    /\ exec = "running" /\ exec' = "zero" /\ cut' = cut \cup {plan}
    /\ UNCHANGED <<pc, loop, envRead, made, pings, verdict, box, leaked, trouble>>

-----------------------------------------------------------------------------
(* The rest of the world                                                   *)

ContextEnds ==
    /\ pc # "idle" /\ ended' = TRUE
    /\ UNCHANGED <<pc, todo, plan, dump, locals, verdict, daemon, trouble>>

Kill ==
    /\ pc # "idle" /\ pc' = "idle" /\ todo' = {} /\ made' = FALSE /\ exec' = "none"
    /\ leaked' = (box # "none")
    /\ UNCHANGED <<plan, ended, dump, envRead, pings, verdict, box, trouble, cut>>

\* Somebody runs docker rm on what is left.
TidyUp ==
    /\ pc = "idle" /\ leaked /\ leaked' = FALSE /\ box' = "none"
    /\ UNCHANGED <<pc, loop, locals, verdict, trouble, cut>>

Step ==
    \/ \E p \in Plans : Pick(p)
    \/ Finish \/ ImageRef \/ ContainerEnv \/ Create \/ Start \/ StartExec
    \/ PingAgain \/ NotReady \/ Ready \/ Copy \/ Collect \/ Remove

Next ==
    \/ Begin \/ Step \/ Server \/ ProgramEnds \/ StreamIsCut
    \/ ContextEnds \/ Kill \/ TidyUp

Spec == Init /\ [][Next]_vars

\* The daemon answers, and programs end in the container: the drill has no means
\* of its own against one that does not.
FairSpec == Spec /\ WF_vars(Step) /\ WF_vars(ProgramEnds)

-----------------------------------------------------------------------------
(* Properties                                                              *)

\* A container, with its volume, outlives its drill only after a kill, a lost reply
\* or a failed removal (src/README.md:218); until somebody removes it, every drill
\* fails, for the name is taken.
BoxIsCleanedUp == pc \in {"idle", "next"} /\ box # "none" => leaked

\* What a MySQL drill passes is a dump that can be imported, unless a stream was cut.
\* (A Postgres drill passes whatever the dump is.)
PassMeansImportable ==
    \A p \in Plans :
        verdict[p] = "passed" /\ p \notin cut /\ Provider[p] = "mysql" => dump[p] = "good"

\* A dump that can be imported is not blamed for another plan's failure: there is a
\* warning only if a call failed, time ran out, the server came and went, the name
\* was taken by what an earlier process or removal had left, or the container is not
\* one that can be drilled: its image has no directory for the dump, or its fresh
\* server does not know the user, lets it do too little, or (Postgres, of which
\* POSTGRES_DB differs from POSTGRES_USER) has no database of the user's name.
Equipped(p) ==
    /\ p \in HasTarget \cap LetIn
    /\ Provider[p] = "mysql" => p \in MayImport
    /\ Provider[p] = "postgres" => p \in HasDatabase

NoFalseAlarm ==
    pc # "idle" =>
        \A p \in Plans :
            verdict[p] = "warned" /\ dump[p] = "good" /\ Equipped(p) => p \in trouble \/ leaked

\* A drill ends, if the programs it starts do.
DrillEnds == pc # "idle" ~> pc = "idle"
=============================================================================
