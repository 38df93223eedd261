-------------------------------- MODULE Plans --------------------------------
(***************************************************************************)
(* Which containers a round dumps, and into which files: selectContainers, *)
(* buildPlans and collectTasks in src/backup.go, with the caches of        *)
(* dockerClient (src/docker.go), which live as long as the process and are *)
(* keyed by container id.                                                  *)
(*                                                                         *)
(* What there is to know of a container is a record of Kinds.  An image    *)
(* name is "db" (getBackupProvider finds a provider for it, built in or    *)
(* from BACKUP_IMAGE_PATTERNS_FILE), "like" (isLikelyDatabase only) or     *)
(* "other".  Every call to Docker may fail, and the stream of an exec may be *)
(* cut: the exit code then reads as zero (src/docker.go:213-231).          *)
(***************************************************************************)
EXTENDS Naturals, Sequences, FiniteSets

CONSTANTS
    Containers,    \* names of containers; a name is used again on recreation
    Kinds,         \* what a container can be
    DbKinds,       \* what a database server can list
    MaxRounds,     \* bound: number of rounds
    SingleDbMode,  \* cfg.singleDBMode
    IncludeList,   \* cfg.includeContainers is not empty
    LabelList      \* cfg.includeLabels is not empty

ImageNames == {"db", "like", "other"}
NoName == "none"
Providers == {"postgres", "mysql", "redis", "sqlite"}

ASSUME PlansAssumption ==
    /\ MaxRounds \in Nat
    /\ {SingleDbMode, IncludeList, LabelList} \subseteq BOOLEAN
    /\ Kinds \subseteq
         [excluded : BOOLEAN, included : BOOLEAN, labelled : BOOLEAN,
          image : SUBSET ImageNames,              \* names from RepoTags or RepoDigests
          ref   : ImageNames \cup {NoName},       \* from Config.Image, no bare digest
          note  : ImageNames \cup {NoName},       \* from the image labels
          label : Providers \cup {NoName},         \* backup.provider
          provider : Providers,                   \* what "db" stands for
          env   : {"declared", "likely", "plain"},  \* BACKUP_SQLITE_CMD, a clue, neither
          password : {"settings", "env", "none"}]   \* where mysqlCredentials finds one
    /\ DbKinds \subseteq [name : Seq(STRING), system : BOOLEAN]

Unread == {"unread"}     \* no entry in nameCache
Planned == {"full", "fallback", "single"}
NoDb == [name |-> <<>>, system |-> FALSE]

VARIABLES
    world,      \* what each container is
    \* The caches of dockerClient.
    names,      \* nameCache
    env,        \* envCache; "cut": of a cut stream, and lost what there was to know
    \* The round.
    pc, round,
    todo,       \* selected containers buildPlans has not come to
    verdict,    \* what became of each: a mode, "skipped" or "none"
    dbs,        \* plan.dbs
    reported,   \* containers a warning of this round names
    tasks,
    troubled    \* history: containers for which a call of this round failed

caches == <<names, env>>
vars == <<world, caches, pc, round, todo, verdict, dbs, reported, tasks, troubled>>

\* Where a dump goes, as path components under the date directory: one file for
\* all databases, or one for each in the container's directory.
File(c, d) ==
    IF d = NoDb THEN <<c>>
    ELSE IF d.system THEN <<c, "system">> \o d.name ELSE <<c>> \o d.name

Task(c, d) == [container |-> c, db |-> d, file |-> File(c, d)]

TypeOK ==
    /\ world \in [Containers -> Kinds]
    /\ names \in [Containers -> SUBSET (ImageNames \cup Unread)]
    /\ env \in [Containers -> {"unread", "cut", "declared", "likely", "plain"}]
    /\ pc \in {"idle", "planning"} /\ round \in 0..MaxRounds
    /\ {todo, reported, troubled} \subseteq SUBSET Containers
    /\ verdict \in [Containers -> Planned \cup {"skipped", "none"}]
    /\ dbs \in [Containers -> SUBSET DbKinds]
    /\ tasks \subseteq {Task(c, d) : c \in Containers, d \in DbKinds \cup {NoDb}}

Init ==
    /\ world \in [Containers -> Kinds]
    /\ names = [c \in Containers |-> Unread] /\ env = [c \in Containers |-> "unread"]
    /\ pc = "idle" /\ round = 0
    /\ todo = {} /\ reported = {} /\ troubled = {} /\ tasks = {}
    /\ verdict = [c \in Containers |-> "none"] /\ dbs = [c \in Containers |-> {}]

-----------------------------------------------------------------------------
(* Selection                                                               *)

\* selectContainers: a match of the exclude list is final.
Selected(k) ==
    /\ ~k.excluded
    /\ IncludeList => k.included
    /\ LabelList => k.labelled

\* listContainers returns what is up.
StartRound ==
    /\ pc = "idle" /\ round < MaxRounds
    /\ pc' = "planning" /\ round' = round + 1
    /\ \E up \in SUBSET Containers : todo' = {c \in up : Selected(world[c])}
    /\ verdict' = [c \in Containers |-> "none"] /\ dbs' = [c \in Containers |-> {}]
    /\ reported' = {} /\ tasks' = {} /\ troubled' = {}
    /\ UNCHANGED <<world, caches>>

-----------------------------------------------------------------------------
(* Recognition of one container; fails: the calls to Docker that fail, and *)
(* "cut" if the environment is read from a stream that was cut             *)

Calls == {"container", "image", "label", "env", "cut", "databases"}

\* containerImageNames: tags or digests of the image, then Config.Image, then labels.
Resolve(k, imageFails) ==
    IF ~imageFails /\ k.image # {} THEN k.image
    ELSE {n \in {IF k.ref # NoName THEN k.ref ELSE k.note} : n # NoName}

NamesNow(c, fails) ==
    IF names[c] = Unread THEN Resolve(world[c], "image" \in fails) ELSE names[c]

\* Mutant of EnvNow: a failure is cached as an empty environment.
EnvEmptied(c, fails) ==
    CASE env[c] # "unread" -> env[c]
      [] env[c] = "unread" /\ "env" \in fails -> "plain"
      [] env[c] = "unread" /\ "env" \notin fails /\ "cut" \in fails -> "cut"
      [] OTHER -> world[c].env

\* containerEnv: only an answer is cached, but that of a cut stream is one, too.
EnvNow(c, fails) ==
    CASE env[c] # "unread" -> env[c]
      [] env[c] = "unread" /\ "env" \in fails -> "unread"
      [] env[c] = "unread" /\ "env" \notin fails /\ "cut" \in fails -> "cut"
      [] OTHER -> world[c].env

\* backup.provider, if it could be read, then the image names.
ByLabel(c, fails) == world[c].label # NoName /\ "label" \notin fails
ByLabelOrImage(c, fails) == ByLabel(c, fails) \/ "db" \in NamesNow(c, fails)

Provider(c, fails) ==
    IF ByLabel(c, fails) THEN world[c].label
    ELSE IF "db" \in NamesNow(c, fails) THEN world[c].provider
    ELSE "sqlite"

Settle(c, outcome) == verdict' = [verdict EXCEPT ![c] = outcome]

\* ContainerInspect fails while the names are not cached.
Unreadable(c, fails) ==
    /\ names[c] = Unread /\ "container" \in fails
    /\ Settle(c, "skipped") /\ reported' = reported \cup {c}
    /\ UNCHANGED <<caches, dbs>>

\* The names are cached even when there are none, for the life of the process.
NamesRead(c, fails) ==
    /\ names[c] = Unread => "container" \notin fails
    /\ names' = [names EXCEPT ![c] = NamesNow(c, fails)]

\* The warnings of containerImageNames: only while nothing is cached.
NamesDoubtful(c, fails) ==
    names[c] = Unread /\ ("image" \in fails \/ NamesNow(c, fails) = {})

\* Mutant of Unrecognised: a clue in the environment is not reported.
UnrecognisedQuietly(c, fails) ==
    /\ NamesRead(c, fails)
    /\ ~ByLabelOrImage(c, fails) /\ EnvNow(c, fails) # "declared"
    /\ env' = [env EXCEPT ![c] = EnvNow(c, fails)]
    /\ Settle(c, "skipped")
    /\ reported' = IF NamesDoubtful(c, fails) \/ "like" \in NamesNow(c, fails)
                   THEN reported \cup {c} ELSE reported
    /\ UNCHANGED dbs

\* Neither label, image nor probeSQLiteContainer knows a provider: a warning if
\* something hints at a database, otherwise a line at debug level.
Unrecognised(c, fails) ==
    /\ NamesRead(c, fails)
    /\ ~ByLabelOrImage(c, fails) /\ EnvNow(c, fails) # "declared"
    /\ env' = [env EXCEPT ![c] = EnvNow(c, fails)]
    /\ Settle(c, "skipped")
    /\ reported' = IF \/ NamesDoubtful(c, fails) \/ "like" \in NamesNow(c, fails)
                      \/ EnvNow(c, fails) = "likely"
                   THEN reported \cup {c} ELSE reported
    /\ UNCHANGED dbs

\* A provider is found.  All but Redis's read the environment, too.
Recognised(c, fails) ==
    /\ NamesRead(c, fails)
    /\ ByLabelOrImage(c, fails) \/ EnvNow(c, fails) = "declared"
    /\ env' = IF Provider(c, fails) = "redis" THEN env
              ELSE [env EXCEPT ![c] = EnvNow(c, fails)]

\* backupMethod has what it needs: an environment that could be read, with a
\* password; for SQLite the declared command, or any image name in the cache.
CanBuild(c, fails) ==
    LET p == Provider(c, fails)
        e == EnvNow(c, fails)
    IN  /\ p \in {"postgres", "mysql"} => e # "unread"
        /\ p = "mysql" => \/ world[c].password = "settings"
                          \/ world[c].password = "env" /\ e # "cut"
        /\ p = "sqlite" => e = "declared" \/ NamesNow(c, fails) # {}

\* singleDB is there, and what it needs is what backupMethod does.
CanList(c, fails) == SingleDbMode /\ Provider(c, fails) \in {"postgres", "mysql"}

Lists(c, fails) == CanList(c, fails) /\ CanBuild(c, fails) /\ "databases" \notin fails

PlanSingle(c, fails) ==
    /\ Recognised(c, fails) /\ Lists(c, fails)
    /\ Settle(c, "single") /\ \E listed \in SUBSET DbKinds : dbs' = [dbs EXCEPT ![c] = listed]
    /\ reported' = IF NamesDoubtful(c, fails) THEN reported \cup {c} ELSE reported

\* One dump of everything, by choice or because the list could not be read; a
\* container whose command cannot be built is skipped.
PlanFull(c, fails) ==
    /\ Recognised(c, fails) /\ ~Lists(c, fails)
    /\ Settle(c, IF ~CanBuild(c, fails) THEN "skipped"
                 ELSE IF CanList(c, fails) THEN "fallback" ELSE "full")
    /\ reported' = IF ~CanBuild(c, fails) \/ CanList(c, fails) \/ NamesDoubtful(c, fails)
                   THEN reported \cup {c} ELSE reported
    /\ UNCHANGED dbs

\* One turn of the loop of buildPlans.  Turns do not depend on each other: their
\* order is a choice.
Plan(c) ==
    /\ pc = "planning" /\ c \in todo
    /\ todo' = todo \ {c}
    /\ \E fails \in SUBSET Calls :
          /\ troubled' = IF fails = {} THEN troubled ELSE troubled \cup {c}
          /\ \/ Unreadable(c, fails) \/ Unrecognised(c, fails)
             \/ PlanSingle(c, fails) \/ PlanFull(c, fails)
    /\ UNCHANGED <<world, pc, round, tasks>>

-----------------------------------------------------------------------------
(* Tasks                                                                   *)

\* validateDBName: the name is one path component.
Valid(d) == Len(d.name) = 1

\* Mutant of TasksOf: names are not validated.
TasksOfAll(c) ==
    CASE verdict[c] = "single" -> {Task(c, d) : d \in dbs[c]}
      [] verdict[c] \in {"full", "fallback"} -> {Task(c, NoDb)}
      [] OTHER -> {}

TasksOf(c) ==
    CASE verdict[c] = "single" -> {Task(c, d) : d \in {e \in dbs[c] : Valid(e)}}
      [] verdict[c] \in {"full", "fallback"} -> {Task(c, NoDb)}
      [] OTHER -> {}

\* collectTasks; a database with an unsafe name is skipped with a warning.
CollectTasks ==
    /\ pc = "planning" /\ todo = {}
    /\ pc' = "idle"
    /\ tasks' = UNION {TasksOf(c) : c \in Containers}
    /\ reported' = reported \cup {c \in Containers : \E d \in dbs[c] : ~Valid(d)}
    /\ UNCHANGED <<world, caches, round, todo, verdict, dbs, troubled>>

-----------------------------------------------------------------------------

\* A container is created anew under its name: a new id, so nothing is cached.
Recreate(c) ==
    /\ pc = "idle" /\ round < MaxRounds
    /\ world' \in {[world EXCEPT ![c] = k] : k \in Kinds}
    /\ names' = [names EXCEPT ![c] = Unread]
    /\ env' = [env EXCEPT ![c] = "unread"]
    /\ verdict' = [verdict EXCEPT ![c] = "none"]
    /\ UNCHANGED <<pc, round, todo, dbs, reported, tasks, troubled>>

Next == StartRound \/ CollectTasks \/ \E c \in Containers : Plan(c) \/ Recreate(c)

Spec == Init /\ [][Next]_vars

-----------------------------------------------------------------------------
(* Properties                                                              *)

\* What identifies a database whatever has failed in earlier rounds: its provider
\* label, its declared export command, the reference it was started with (unless
\* the image has other names), or names that are cached already.
Identified(c) ==
    \/ world[c].label # NoName \/ world[c].env = "declared" \/ "db" \in names[c]
    \/ world[c].ref = "db" /\ (world[c].image = {} \/ "db" \in world[c].image)

\* There is what its provider's command is built from, likewise: for SQLite a name
\* outside the image, unless one is cached.
Equipped(c) ==
    LET p == IF world[c].label # NoName THEN world[c].label
             ELSE IF "db" \in names[c] THEN world[c].provider ELSE "sqlite"
    IN  /\ p = "mysql" => world[c].password # "none"
        /\ p = "sqlite" => \/ world[c].env = "declared"
                           \/ {world[c].ref, world[c].note} # {NoName} \/ names[c] # {}

\* Failures of earlier rounds leave nothing behind that hides such a database: it
\* is planned in every round in which its own calls succeed, unless what is cached
\* of its environment comes from a stream that was cut.
HealthyRoundPlans ==
    \A c \in Containers \ troubled :
        verdict[c] # "none" /\ env[c] # "cut" /\ Identified(c) /\ Equipped(c)
            => verdict[c] \in Planned

\* A container that is skipped without a warning, no call having failed, has
\* neither label nor environment (as far as it is cached) nor known image name
\* that hints at a database.
SilentSkipHasNoClue ==
    \A c \in Containers \ (troubled \cup reported) :
        verdict[c] = "skipped" =>
            /\ world[c].label = NoName /\ env[c] \in {"plain", "cut"}
            /\ env[c] = "plain" => world[c].env = "plain"
            /\ names[c] \cap {"db", "like"} = {}

\* No two tasks of a round write the same file: the pool runs them side by side.
FilesDistinct == \A t, u \in tasks : t.file = u.file => t = u

\* "... so that what is not recognised is not skipped silently" (the comment at
\* src/docker.go:51), about containers whose image says that they are databases.
NoDatabaseSkippedSilently ==
    \A c \in Containers \ (troubled \cup reported) :
        verdict[c] = "skipped" => "db" \notin world[c].image
=============================================================================
