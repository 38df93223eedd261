---------------------------- MODULE Plans_proofs ----------------------------
(* Proofs about Plans for every set of containers, whatever they are.      *)
EXTENDS Plans, SequenceTheorems, TLAPS

-----------------------------------------------------------------------------
(* Names and files                                                         *)

LEMMA Constants ==
    /\ MaxRounds \in Nat /\ 0 \in 0..MaxRounds
    /\ \A k \in Kinds :
          /\ k.image \subseteq ImageNames
          /\ k.ref \in ImageNames \cup {NoName} /\ k.note \in ImageNames \cup {NoName}
          /\ k.label \in Providers \cup {NoName} /\ k.provider \in Providers
          /\ k.env \in {"declared", "likely", "plain"}
          /\ k.password \in {"settings", "env", "none"}
    /\ \A d \in DbKinds :
          /\ d.name \in Seq(STRING) /\ d.system \in BOOLEAN
          /\ d = [name |-> d.name, system |-> d.system]
  BY PlansAssumption

LEMMA ResolveType ==
    ASSUME NEW k \in Kinds, NEW imageFails \in BOOLEAN
    PROVE  Resolve(k, imageFails) \subseteq ImageNames
  BY Constants DEF Resolve

\* Concatenations that occur in the names of files.
LEMMA OnePart ==
    ASSUME NEW c, NEW x
    PROVE  <<c>> \o <<x>> = <<c, x>>
<1> DEFINE S == {c, x}
<1>1. <<c>> \in Seq(S) /\ <<x>> \in Seq(S) /\ <<c, x>> \in Seq(S)
  OBVIOUS
<1> DEFINE t == <<c>> \o <<x>>
<1>2. /\ t \in Seq(S) /\ Len(t) = 2
      /\ t[1] = c /\ t[2] = x
  BY <1>1, ConcatProperties
<1>3. \A i \in 1..Len(t) : t[i] = <<c, x>>[i]
  BY <1>2
<1> HIDE DEF t
<1>4. t = <<c, x>>
  BY <1>1, <1>2, <1>3, SeqEqual
<1> QED BY <1>4 DEF t

LEMMA TwoParts ==
    ASSUME NEW c, NEW y, NEW x
    PROVE  <<c, y>> \o <<x>> = <<c, y, x>>
<1> DEFINE S == {c, y, x}
<1>1. <<c, y>> \in Seq(S) /\ <<x>> \in Seq(S) /\ <<c, y, x>> \in Seq(S)
  OBVIOUS
<1> DEFINE t == <<c, y>> \o <<x>>
<1>2. /\ t \in Seq(S) /\ Len(t) = 3
      /\ t[1] = c /\ t[2] = y /\ t[3] = x
  BY <1>1, ConcatProperties
<1>3. \A i \in 1..Len(t) : t[i] = <<c, y, x>>[i]
  BY <1>2
<1> HIDE DEF t
<1>4. t = <<c, y, x>>
  BY <1>1, <1>2, <1>3, SeqEqual
<1> QED BY <1>4 DEF t

\* The file of a valid database has one or two components after the container.
LEMMA FileOfValid ==
    ASSUME NEW c, NEW d \in DbKinds, Valid(d)
    PROVE  /\ d # NoDb
           /\ d.name = <<d.name[1]>>
           /\ d.system => File(c, d) = <<c, "system", d.name[1]>>
           /\ ~d.system => File(c, d) = <<c, d.name[1]>>
<1>1. d.name \in Seq(STRING) /\ Len(d.name) = 1 /\ d.system \in BOOLEAN
  BY Constants DEF Valid
<1>2. d.name = <<d.name[1]>>
  BY <1>1
<1>3. d # NoDb
  <2>1. NoDb.name = <<>>
    BY DEF NoDb
  <2>2. Len(NoDb.name) = 0
    BY <2>1
  <2> QED BY <1>1, <2>2
<1>4. d.system => File(c, d) = <<c, "system">> \o <<d.name[1]>>
  BY <1>2, <1>3 DEF File
<1>5. ~d.system => File(c, d) = <<c>> \o <<d.name[1]>>
  BY <1>2, <1>3 DEF File
<1> QED BY <1>2, <1>3, <1>4, <1>5, OnePart, TwoParts

\* Two dumps that share a file are dumps of the same database of one container.
LEMMA FilesApart ==
    ASSUME NEW c, NEW d \in DbKinds \cup {NoDb}, d = NoDb \/ Valid(d),
           NEW e, NEW f \in DbKinds \cup {NoDb}, f = NoDb \/ Valid(f),
           File(c, d) = File(e, f)
    PROVE  c = e /\ d = f
<1>1. CASE d = NoDb /\ f = NoDb
  BY <1>1 DEF File
<1>2. CASE d = NoDb /\ f # NoDb
  <2>1. File(c, d) = <<c>>
    BY <1>2 DEF File
  <2>2. File(e, f) = <<e, "system", f.name[1]>> \/ File(e, f) = <<e, f.name[1]>>
    BY <1>2, FileOfValid, Constants
  <2> QED BY <2>1, <2>2
<1>3. CASE d # NoDb /\ f = NoDb
  <2>1. File(e, f) = <<e>>
    BY <1>3 DEF File
  <2>2. File(c, d) = <<c, "system", d.name[1]>> \/ File(c, d) = <<c, d.name[1]>>
    BY <1>3, FileOfValid, Constants
  <2> QED BY <2>1, <2>2
<1>4. CASE d # NoDb /\ f # NoDb
  <2>1. /\ d \in DbKinds /\ Valid(d) /\ f \in DbKinds /\ Valid(f)
        /\ d.system \in BOOLEAN /\ f.system \in BOOLEAN
    BY <1>4, Constants
  <2>2. c = e /\ d.name[1] = f.name[1] /\ d.system = f.system
    <3>1. CASE d.system /\ f.system
      BY <2>1, <3>1, FileOfValid
    <3>2. CASE ~d.system /\ ~f.system
      BY <2>1, <3>2, FileOfValid
    <3>3. CASE d.system # f.system
      <4>1. \/ File(c, d) = <<c, "system", d.name[1]>> /\ File(e, f) = <<e, f.name[1]>>
            \/ File(c, d) = <<c, d.name[1]>> /\ File(e, f) = <<e, "system", f.name[1]>>
        BY <2>1, <3>3, FileOfValid
      <4> QED BY <4>1
    <3> QED BY <2>1, <3>1, <3>2, <3>3
  <2>3. d.name = f.name
    BY <2>1, <2>2, FileOfValid
  <2> QED BY <2>1, <2>2, <2>3, Constants
<1> QED BY <1>1, <1>2, <1>3, <1>4

-----------------------------------------------------------------------------
(* Type correctness                                                        *)

LEMMA NamesNowType ==
    ASSUME TypeOK, NEW c \in Containers, NEW fails
    PROVE  NamesNow(c, fails) \subseteq ImageNames \cup Unread
<1>1. world[c] \in Kinds /\ ("image" \in fails) \in BOOLEAN
  BY DEF TypeOK
<1>2. Resolve(world[c], "image" \in fails) \subseteq ImageNames
  BY <1>1, ResolveType
<1>3. names[c] \subseteq ImageNames \cup Unread
  BY DEF TypeOK
<1> QED BY <1>2, <1>3 DEF NamesNow

\* What one turn of the loop does to the caches and the verdict of its container.
LEMMA PlanType ==
    ASSUME TypeOK, NEW c \in Containers, Plan(c)
    PROVE  /\ names' \in [Containers -> SUBSET (ImageNames \cup Unread)]
           /\ env' \in [Containers -> {"unread", "cut", "declared", "likely", "plain"}]
           /\ verdict' \in [Containers -> Planned \cup {"skipped", "none"}]
           /\ dbs' \in [Containers -> SUBSET DbKinds]
           /\ {todo', reported', troubled'} \subseteq SUBSET Containers
<1> USE DEF TypeOK
<1>1. PICK fails \in SUBSET Calls :
        /\ troubled' = IF fails = {} THEN troubled ELSE troubled \cup {c}
        /\ \/ Unreadable(c, fails) \/ Unrecognised(c, fails)
           \/ PlanSingle(c, fails) \/ PlanFull(c, fails)
  BY DEF Plan
<1>2. world[c].env \in {"declared", "likely", "plain"}
  BY Constants
<1>3. EnvNow(c, fails) \in {"unread", "cut", "declared", "likely", "plain"}
  BY <1>2 DEF EnvNow
<1>4. /\ todo' \subseteq Containers /\ troubled' \subseteq Containers
      /\ reported' \subseteq Containers
  BY <1>1 DEF Plan, Unreadable, Unrecognised, PlanSingle, PlanFull
<1>5. \/ names' = names
      \/ names' = [names EXCEPT ![c] = NamesNow(c, fails)]
  BY <1>1 DEF Unreadable, Unrecognised, PlanSingle, PlanFull, Recognised, NamesRead, caches
<1>6. \/ env' = env
      \/ env' = [env EXCEPT ![c] = EnvNow(c, fails)]
  BY <1>1 DEF Unreadable, Unrecognised, PlanSingle, PlanFull, Recognised, caches
<1>7. \E outcome \in Planned \cup {"skipped"} : verdict' = [verdict EXCEPT ![c] = outcome]
  <2>1. CASE PlanFull(c, fails)
    BY <2>1 DEF PlanFull, Settle, Planned
  <2>2. CASE ~PlanFull(c, fails)
    BY <1>1, <2>2 DEF Unreadable, Unrecognised, PlanSingle, Settle, Planned
  <2> QED BY <2>1, <2>2
<1>8. dbs' = dbs \/ \E listed \in SUBSET DbKinds : dbs' = [dbs EXCEPT ![c] = listed]
  BY <1>1 DEF Unreadable, Unrecognised, PlanSingle, PlanFull
<1>9. names' \in [Containers -> SUBSET (ImageNames \cup Unread)]
  BY <1>5, NamesNowType
<1>10. env' \in [Containers -> {"unread", "cut", "declared", "likely", "plain"}]
  BY <1>3, <1>6
<1>11. verdict' \in [Containers -> Planned \cup {"skipped", "none"}]
  BY <1>7
<1>12. dbs' \in [Containers -> SUBSET DbKinds]
  BY <1>8
<1> QED BY <1>4, <1>9, <1>10, <1>11, <1>12

LEMMA TasksOfType ==
    ASSUME TypeOK, NEW c \in Containers, NEW t \in TasksOf(c)
    PROVE  \E d \in DbKinds \cup {NoDb} : (d = NoDb \/ Valid(d)) /\ t = Task(c, d)
  BY DEF TypeOK, TasksOf

LEMMA TypeStep == TypeOK /\ [Next]_vars => TypeOK'
<1> SUFFICES ASSUME TypeOK, [Next]_vars PROVE TypeOK'
  OBVIOUS
<1>1. CASE StartRound
  BY <1>1, Constants DEF StartRound, TypeOK, caches
<1>2. CASE CollectTasks
  <2>1. tasks' \subseteq {Task(c, d) : c \in Containers, d \in DbKinds \cup {NoDb}}
    BY <1>2, TasksOfType DEF CollectTasks
  <2> QED BY <1>2, <2>1 DEF CollectTasks, TypeOK, caches
<1>3. ASSUME NEW c \in Containers, Plan(c) PROVE TypeOK'
  <2>1. UNCHANGED <<world, pc, round, tasks>>
    BY <1>3 DEF Plan
  <2> QED BY <1>3, <2>1, PlanType DEF TypeOK
<1>4. ASSUME NEW c \in Containers, Recreate(c) PROVE TypeOK'
  BY <1>4 DEF Recreate, TypeOK, Unread
<1>5. CASE UNCHANGED vars
  BY <1>5 DEF vars, caches, TypeOK
<1> QED BY <1>1, <1>2, <1>3, <1>4, <1>5 DEF Next

\* Every reachable state has the declared shape.
THEOREM TypeCorrect == Spec => []TypeOK
<1>1. Init => TypeOK
  BY Constants DEF Init, TypeOK, Unread
<1> QED BY <1>1, TypeStep, PTL DEF Spec

-----------------------------------------------------------------------------
(* Files                                                                   *)

\* The tasks of a round, which the pool runs side by side, write different files.
THEOREM TasksDoNotCollide == Spec => []FilesDistinct
<1>1. Init => FilesDistinct
  BY DEF Init, FilesDistinct
<1>2. TypeOK /\ FilesDistinct /\ [Next]_vars => FilesDistinct'
  <2> SUFFICES ASSUME TypeOK, FilesDistinct, [Next]_vars PROVE FilesDistinct'
    OBVIOUS
  <2>1. CASE CollectTasks
    <3> SUFFICES ASSUME NEW t \in tasks', NEW u \in tasks', t.file = u.file PROVE t = u
      BY DEF FilesDistinct
    <3>1. PICK c \in Containers, d \in DbKinds \cup {NoDb} :
            (d = NoDb \/ Valid(d)) /\ t = Task(c, d)
      BY <2>1, TasksOfType DEF CollectTasks
    <3>2. PICK e \in Containers, f \in DbKinds \cup {NoDb} :
            (f = NoDb \/ Valid(f)) /\ u = Task(e, f)
      BY <2>1, TasksOfType DEF CollectTasks
    <3>3. File(c, d) = File(e, f)
      BY <3>1, <3>2 DEF Task
    <3> QED BY <3>1, <3>2, <3>3, FilesApart
  <2>2. CASE tasks' \in {tasks, {}}
    BY <2>2 DEF FilesDistinct
  <2> QED BY <2>1, <2>2 DEF Next, StartRound, Plan, Recreate, vars
<1> QED BY <1>1, <1>2, TypeCorrect, PTL DEF Spec

-----------------------------------------------------------------------------
(* Caches                                                                  *)

RefIdentifies(k) == k.ref = "db" /\ (k.image = {} \/ "db" \in k.image)
NamedOutside(k) == {k.ref, k.note} # {NoName}

\* A cached environment is the container's, or of a cut stream; cached names may be
\* incomplete after a failure, but the reference is not among what they can lack,
\* and with a name outside the image they are not empty.
CachesSound ==
    \A c \in Containers :
        /\ env[c] \in {"unread", "cut", world[c].env}
        /\ names[c] # Unread /\ RefIdentifies(world[c]) => "db" \in names[c]
        /\ NamedOutside(world[c]) => names[c] # {}

IInv == TypeOK /\ CachesSound /\ HealthyRoundPlans /\ SilentSkipHasNoClue

LEMMA NamesNowSound ==
    ASSUME TypeOK, CachesSound, NEW c \in Containers, NEW fails
    PROVE  /\ RefIdentifies(world[c]) => "db" \in NamesNow(c, fails)
           /\ NamedOutside(world[c]) => NamesNow(c, fails) # {}
<1>1. RefIdentifies(world[c]) => "db" \in NamesNow(c, fails)
  BY DEF CachesSound, NamesNow, Resolve, RefIdentifies, NoName
<1>2. NamedOutside(world[c]) => NamesNow(c, fails) # {}
  <2>1. NamedOutside(world[c]) => Resolve(world[c], "image" \in fails) # {}
    BY DEF Resolve, NamedOutside
  <2> QED BY <2>1 DEF CachesSound, NamesNow
<1> QED BY <1>1, <1>2

\* What a turn leaves in the caches, and that it touches no other container.
LEMMA PlanCaches ==
    ASSUME IInv, NEW c \in Containers, Plan(c), NEW d \in Containers
    PROVE  /\ env'[d] \in {"unread", "cut", world[d].env}
           /\ names'[d] # Unread /\ RefIdentifies(world[d]) => "db" \in names'[d]
           /\ NamedOutside(world[d]) => names'[d] # {}
           /\ d # c => UNCHANGED <<names[d], env[d], verdict[d]>>
<1> TypeOK /\ CachesSound
  BY DEF IInv
<1>1. PICK fails \in SUBSET Calls :
        \/ Unreadable(c, fails) \/ Unrecognised(c, fails)
        \/ PlanSingle(c, fails) \/ PlanFull(c, fails)
  BY DEF Plan
<1>2. names' = names \/ names' = [names EXCEPT ![c] = NamesNow(c, fails)]
  BY <1>1 DEF Unreadable, Unrecognised, PlanSingle, PlanFull, Recognised, NamesRead, caches
<1>3. EnvNow(c, fails) \in {"unread", "cut", world[c].env}
  BY DEF EnvNow, CachesSound
<1>4. \/ env' = env
      \/ env' = [env EXCEPT ![c] = EnvNow(c, fails)]
  BY <1>1 DEF Unreadable, Unrecognised, PlanSingle, PlanFull, Recognised, caches
<1>5. \E outcome : verdict' = [verdict EXCEPT ![c] = outcome]
  BY <1>1 DEF Unreadable, Unrecognised, PlanSingle, PlanFull, Settle
<1>6. env'[d] \in {"unread", "cut", world[d].env}
  BY <1>3, <1>4 DEF TypeOK, CachesSound
<1>7. /\ names'[d] # Unread /\ RefIdentifies(world[d]) => "db" \in names'[d]
      /\ NamedOutside(world[d]) => names'[d] # {}
  BY <1>2, NamesNowSound DEF TypeOK, CachesSound
<1> QED BY <1>2, <1>4, <1>5, <1>6, <1>7 DEF TypeOK

\* A turn in which no call fails plans what is identified and equipped, and skips in
\* silence only where there is no clue.
LEMMA HealthyTurn ==
    ASSUME IInv, NEW c \in Containers, Plan(c), c \notin troubled'
    PROVE  /\ env'[c] # "cut" /\ Identified(c)' /\ Equipped(c)' => verdict'[c] \in Planned
           /\ verdict'[c] = "skipped" /\ c \notin reported' =>
                 /\ world[c].label = NoName /\ env'[c] \in {"plain", "cut"}
                 /\ env'[c] = "plain" => world[c].env = "plain"
                 /\ names'[c] \cap {"db", "like"} = {}
<1> TypeOK /\ CachesSound
  BY DEF IInv
<1>1. /\ UNCHANGED world
      /\ \/ Unreadable(c, {}) \/ Unrecognised(c, {})
         \/ PlanSingle(c, {}) \/ PlanFull(c, {})
  BY DEF Plan
<1>2. /\ world[c].env \in {"declared", "likely", "plain"}
      /\ EnvNow(c, {}) \in {"cut", world[c].env}
      /\ EnvNow(c, {}) = "cut" => env[c] = "cut"
      /\ world[c].label \in Providers \cup {NoName} /\ world[c].provider \in Providers
      /\ world[c].password \in {"settings", "env", "none"}
  BY Constants DEF EnvNow, CachesSound, TypeOK
<1>3. names'[c] = NamesNow(c, {})
  BY <1>1 DEF Unreadable, Unrecognised, PlanSingle, PlanFull, Recognised, NamesRead, TypeOK
<1>4. Identified(c)' <=> \/ world[c].label # NoName \/ world[c].env = "declared"
                         \/ "db" \in NamesNow(c, {}) \/ RefIdentifies(world[c])
  BY <1>1, <1>3 DEF Identified, RefIdentifies
<1>5. /\ ByLabel(c, {}) <=> world[c].label # NoName
      /\ Provider(c, {}) = IF world[c].label # NoName THEN world[c].label
                           ELSE IF "db" \in names'[c] THEN world[c].provider ELSE "sqlite"
  BY <1>3 DEF ByLabel, Provider
<1>6. EnvNow(c, {}) # "cut" /\ Equipped(c)' => CanBuild(c, {})
  <2> SUFFICES ASSUME EnvNow(c, {}) = world[c].env, Equipped(c)' PROVE CanBuild(c, {})
    BY <1>2
  <2>1. /\ Provider(c, {}) = "mysql" => world[c].password # "none"
        /\ Provider(c, {}) = "sqlite" => \/ world[c].env = "declared"
                                         \/ NamedOutside(world[c]) \/ names'[c] # {}
    BY <1>1, <1>5 DEF Equipped, NamedOutside
  <2>2. Provider(c, {}) = "sqlite" => EnvNow(c, {}) = "declared" \/ NamesNow(c, {}) # {}
    BY <1>3, <2>1, NamesNowSound
  <2> QED BY <1>2, <2>1, <2>2 DEF CanBuild
<1>7. CASE Unrecognised(c, {})
  <2>1. env'[c] = EnvNow(c, {}) /\ EnvNow(c, {}) # "declared"
    BY <1>7 DEF Unrecognised, TypeOK
  <2>2. world[c].label = NoName /\ "db" \notin NamesNow(c, {})
    BY <1>5, <1>7 DEF Unrecognised, ByLabelOrImage
  <2>3. Identified(c)' => env'[c] = "cut"
    BY <1>2, <1>4, <2>1, <2>2, NamesNowSound
  <2>4. c \notin reported' => "like" \notin NamesNow(c, {}) /\ EnvNow(c, {}) # "likely"
    BY <1>7 DEF Unrecognised
  <2> QED BY <1>2, <1>3, <2>1, <2>2, <2>3, <2>4
<1>8. CASE PlanSingle(c, {})
  <2>1. verdict'[c] = "single"
    BY <1>8 DEF PlanSingle, Settle, TypeOK
  <2> QED BY <2>1 DEF Planned
<1>9. CASE PlanFull(c, {})
  <2>1. /\ CanBuild(c, {}) => verdict'[c] \in Planned
        /\ ~CanBuild(c, {}) => c \in reported'
    BY <1>9 DEF PlanFull, Settle, TypeOK, Planned
  <2>2. CanBuild(c, {}) => verdict'[c] # "skipped"
    BY <2>1 DEF Planned
  <2>3. env'[c] # "cut" => EnvNow(c, {}) # "cut"
    <3>1. env' = env \/ env' = [env EXCEPT ![c] = EnvNow(c, {})]
      BY <1>9 DEF PlanFull, Recognised
    <3> QED BY <1>2, <3>1 DEF TypeOK
  <2> QED BY <1>6, <2>1, <2>2, <2>3
<1> QED BY <1>1, <1>7, <1>8, <1>9 DEF Unreadable

LEMMA PlanStep ==
    ASSUME IInv, NEW c \in Containers, Plan(c)
    PROVE  CachesSound' /\ HealthyRoundPlans' /\ SilentSkipHasNoClue'
<1> TypeOK /\ HealthyRoundPlans /\ SilentSkipHasNoClue
  BY DEF IInv
<1>1. UNCHANGED world /\ troubled \subseteq troubled' /\ reported \subseteq reported'
  BY DEF Plan, Unreadable, Unrecognised, PlanSingle, PlanFull
<1>2. CachesSound'
  BY <1>1, PlanCaches DEF CachesSound
<1>3. HealthyRoundPlans'
  <2> SUFFICES ASSUME NEW d \in Containers, d \notin troubled', verdict'[d] # "none",
                      env'[d] # "cut", Identified(d)', Equipped(d)'
               PROVE  verdict'[d] \in Planned
    BY DEF HealthyRoundPlans
  <2>1. CASE d = c
    BY <2>1, HealthyTurn
  <2>2. CASE d # c
    <3>1. UNCHANGED <<names[d], env[d], verdict[d], world[d]>>
      BY <1>1, <2>2, PlanCaches
    <3> QED BY <1>1, <3>1 DEF HealthyRoundPlans, Identified, Equipped
  <2> QED BY <2>1, <2>2
<1>4. SilentSkipHasNoClue'
  <2> SUFFICES ASSUME NEW d \in Containers, d \notin troubled', d \notin reported',
                      verdict'[d] = "skipped"
               PROVE  /\ world[d].label = NoName /\ env'[d] \in {"plain", "cut"}
                      /\ env'[d] = "plain" => world[d].env = "plain"
                      /\ names'[d] \cap {"db", "like"} = {}
    BY <1>1 DEF SilentSkipHasNoClue
  <2>1. CASE d = c
    BY <2>1, HealthyTurn
  <2>2. CASE d # c
    BY <1>1, <2>2, PlanCaches DEF SilentSkipHasNoClue
  <2> QED BY <2>1, <2>2
<1> QED BY <1>2, <1>3, <1>4

LEMMA IInvStep == IInv /\ [Next]_vars => IInv'
<1> SUFFICES ASSUME IInv, [Next]_vars PROVE IInv'
  OBVIOUS
<1> USE DEF IInv
<1>1. TypeOK'
  BY TypeStep
<1>2. CASE StartRound
  BY <1>1, <1>2 DEF StartRound, CachesSound, HealthyRoundPlans, SilentSkipHasNoClue, caches
<1>3. CASE CollectTasks
  BY <1>1, <1>3 DEF CollectTasks, CachesSound, HealthyRoundPlans, SilentSkipHasNoClue,
                    Identified, Equipped, caches
<1>4. ASSUME NEW c \in Containers, Plan(c) PROVE IInv'
  BY <1>1, <1>4, PlanStep
<1>5. ASSUME NEW c \in Containers, Recreate(c) PROVE IInv'
  <2>1. /\ names'[c] = Unread /\ env'[c] = "unread" /\ verdict'[c] = "none"
        /\ UNCHANGED <<reported, troubled>>
        /\ \A d \in Containers \ {c} :
              UNCHANGED <<names[d], env[d], verdict[d], world[d]>>
    BY <1>5 DEF Recreate, TypeOK
  <2>2. CachesSound'
    <3>1. \A d \in Containers \ {c} : RefIdentifies(world'[d]) = RefIdentifies(world[d])
                                     /\ NamedOutside(world'[d]) = NamedOutside(world[d])
      BY <2>1
    <3>2. Unread # {}
      BY DEF Unread
    <3> HIDE DEF IInv
    <3>3. CachesSound
      BY DEF IInv
    <3> QED BY <2>1, <3>1, <3>2, <3>3 DEF CachesSound
  <2>3. HealthyRoundPlans'
    BY <2>1 DEF HealthyRoundPlans, Identified, Equipped
  <2>4. SilentSkipHasNoClue'
    BY <2>1 DEF SilentSkipHasNoClue
  <2> QED BY <1>1, <2>2, <2>3, <2>4
<1>6. CASE UNCHANGED vars
  <2>1. CachesSound' /\ SilentSkipHasNoClue'
    BY <1>6 DEF vars, caches, CachesSound, SilentSkipHasNoClue
  <2>2. HealthyRoundPlans'
    BY <1>6 DEF vars, caches, HealthyRoundPlans, Identified, Equipped
  <2> QED BY <1>1, <2>1, <2>2
<1> QED BY <1>2, <1>3, <1>4, <1>5, <1>6 DEF Next

LEMMA IInvCorrect == Spec => []IInv
<1>1. Init => TypeOK
  BY Constants DEF Init, TypeOK, Unread
<1>2. Init => IInv
  BY <1>1 DEF Init, IInv, CachesSound, HealthyRoundPlans, SilentSkipHasNoClue, Unread
<1> QED BY <1>2, IInvStep, PTL DEF Spec

\* Failures of earlier rounds hide no database that its label, its environment, its
\* reference or its cached names identify, if its command can be built from its
\* environment or from a name outside the image; a cut read of the environment can.
THEOREM HealthyRoundsPlan == Spec => []HealthyRoundPlans
<1>1. IInv => HealthyRoundPlans
  BY DEF IInv
<1> QED BY <1>1, IInvCorrect, PTL

\* Where there is a clue to a database, skipping it is reported.
THEOREM CluesAreReported == Spec => []SilentSkipHasNoClue
<1>1. IInv => SilentSkipHasNoClue
  BY DEF IInv
<1> QED BY <1>1, IInvCorrect, PTL
=============================================================================
