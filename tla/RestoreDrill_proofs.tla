------------------------ MODULE RestoreDrill_proofs ------------------------
(* Proofs about RestoreDrill for any plans, passwords, users, images and limits.   *)
EXTENDS RestoreDrill, FiniteSetTheorems, TLAPS

\* The program knows the container from its creation to its removal, and what it
\* does not know was left behind.
Owned ==
    /\ made <=> pc \in {"start", "ready", "copy", "import", "verify", "remove"}
    /\ made => box # "none" /\ ~leaked
    /\ leaked => box # "none"
    /\ box # "none" => leaked \/ made

\* An exec is read in the three places only, and a plan has one turn.
Turns ==
    /\ exec # "none" => pc \in {"ready", "import", "verify"}
    /\ pc \in Drilled => plan \notin todo
    /\ pc # "idle" => \A p \in todo : verdict[p] = "none"

\* What the exit codes and the stages say about the dump.
Told ==
    /\ pc \in Drilled \ {"image", "env"} => envRead \/ plan \in trouble
    /\ (pc = "import" /\ exec = "zero") \/ pc = "verify" =>
           plan \in cut \/ Provider[plan] # "mysql" \/ dump[plan] = "good"
    /\ pc \in {"import", "verify"} /\ exec = "nonzero" =>
           plan \in trouble \/ ~Equipped(plan) \/ dump[plan] # "good"

IInv == TypeOK /\ Owned /\ Turns /\ Told /\ PassMeansImportable /\ NoFalseAlarm

LEMMA Constants ==
    /\ Provider \in [Plans -> {"postgres", "mysql", "other"}]
    /\ MaxPings \in Nat /\ MaxPings > 0
  BY RestoreDrillAssumption

LEMMA InitIInv == Init => IInv
<1> SUFFICES ASSUME Init PROVE IInv
  OBVIOUS
<1>0. verdict \in [Plans -> {"none", "passed", "warned"}] /\ dump \in [Plans -> Dumps]
  BY DEF Init, Dumps
<1>3. envRead \in BOOLEAN /\ made \in BOOLEAN /\ ended \in BOOLEAN /\ leaked \in BOOLEAN
  BY Zenon DEF Init
<1>4. pings \in 0..MaxPings
  BY Constants DEF Init
<1>1. TypeOK
  BY <1>0, <1>3, <1>4 DEF Init, TypeOK, Drilled
<1>2. Owned /\ Turns /\ Told /\ PassMeansImportable /\ NoFalseAlarm
  BY DEF Init, Owned, Turns, Told, PassMeansImportable, NoFalseAlarm, Drilled
<1> QED BY <1>1, <1>2 DEF IInv

-----------------------------------------------------------------------------
(* Type correctness                                                         *)

LEMMA FailsType ==
    ASSUME TypeOK, plan \in Plans, NEW e, e \subseteq Plans, Fails(e)
    PROVE  /\ verdict' \in [Plans -> {"none", "passed", "warned"}]
           /\ trouble' \subseteq Plans
           /\ pc' \in {"remove", "next"}
  BY DEF TypeOK, Fails, Verdict

LEMMA GoesOnType ==
    ASSUME TypeOK, NEW to, GoesOn(to)
    PROVE  /\ verdict' \in [Plans -> {"none", "passed", "warned"}]
           /\ trouble' \subseteq Plans
           /\ pc' = to
  BY DEF TypeOK, GoesOn

LEMMA TypeStep == ASSUME TypeOK, Turns, [Next]_vars PROVE TypeOK'
<1> USE Constants DEF loop, locals, daemon, Drilled
<1>1. CASE Begin
  BY <1>1 DEF TypeOK, Begin, Dumps
<1>2. ASSUME NEW p \in Plans, Pick(p) PROVE TypeOK'
  <2>1. dump' \in [Plans -> Dumps]
    BY <1>2 DEF TypeOK, Pick
  <2>2. pings' \in 0..MaxPings
    BY <1>2 DEF TypeOK, Pick
  <2>3. envRead' \in BOOLEAN
    BY <1>2, Zenon DEF TypeOK, Pick
  <2> QED BY <1>2, <2>1, <2>2, <2>3 DEF TypeOK, Pick
<1>3. CASE Finish
  BY <1>3 DEF TypeOK, Finish
<1>4. CASE ImageRef
  BY <1>4, FailsType, GoesOnType DEF TypeOK, ImageRef
<1>5. CASE ContainerEnv
  BY <1>5 DEF TypeOK, ContainerEnv
<1>6. CASE Create
  BY <1>6, FailsType, GoesOnType DEF TypeOK, Create
<1>7. CASE Start
  BY <1>7, FailsType, GoesOnType DEF TypeOK, Start
<1>8. CASE StartExec
  BY <1>8 DEF TypeOK, StartExec
<1>9. CASE PingAgain
  BY <1>9 DEF TypeOK, PingAgain
<1>10. CASE NotReady
  BY <1>10, FailsType DEF TypeOK, NotReady
<1>11. CASE Ready
  BY <1>11, GoesOnType DEF TypeOK, Ready
<1>12. CASE Copy
  BY <1>12, FailsType, GoesOnType DEF TypeOK, Copy
<1>13. CASE Collect
  <2>1. plan \in Plans
    BY <1>13 DEF TypeOK, Collect
  <2>2. /\ verdict' \in [Plans -> {"none", "passed", "warned"}] /\ trouble' \subseteq Plans
        /\ pc' \in {"verify", "remove", "next"}
    <3>1. CASE Passes
      BY <2>1, <3>1, GoesOnType DEF TypeOK, Passes, Verdict
    <3>2. CASE Fails({}) \/ Fails({plan})
      BY <2>1, <3>2, FailsType
    <3> QED BY <1>13, <3>1, <3>2 DEF Collect
  <2> QED BY <1>13, <2>1, <2>2 DEF TypeOK, Collect
<1>14. CASE Remove
  BY <1>14 DEF TypeOK, Remove
<1>15. CASE Server
  BY <1>15 DEF TypeOK, Server
<1>16. CASE ProgramEnds
  <2>1. plan \in Plans
    BY <1>16 DEF TypeOK, Turns, ProgramEnds
  <2>2. exec' \in {"zero", "nonzero"} /\ trouble' \subseteq Plans
    BY <1>16, <2>1 DEF TypeOK, ProgramEnds, Exits
  <2> QED BY <1>16, <2>2 DEF TypeOK, ProgramEnds
<1>17. CASE StreamIsCut
  <2>1. plan \in Plans
    BY <1>17 DEF TypeOK, Turns, StreamIsCut
  <2> QED BY <1>17, <2>1 DEF TypeOK, StreamIsCut
<1>18. CASE ContextEnds
  BY <1>18 DEF TypeOK, ContextEnds
<1>19. CASE Kill
  BY <1>19 DEF TypeOK, Kill
<1>20. CASE TidyUp
  BY <1>20 DEF TypeOK, TidyUp
<1>21. CASE UNCHANGED vars
  BY <1>21 DEF TypeOK, vars
<1> QED
  BY <1>1, <1>2, <1>3, <1>4, <1>5, <1>6, <1>7, <1>8, <1>9, <1>10, <1>11, <1>12, <1>13, <1>14,
     <1>15, <1>16, <1>17, <1>18, <1>19, <1>20, <1>21 DEF Next, Step

-----------------------------------------------------------------------------
(* The invariant                                                            *)

LEMMA OwnedStep == ASSUME TypeOK, Owned, [Next]_vars PROVE Owned'
<1> USE DEF Owned, loop, locals, daemon
<1>1. CASE Begin \/ Finish \/ ContainerEnv \/ StartExec \/ PingAgain \/ StreamIsCut \/ ContextEnds
  BY <1>1 DEF Begin, Finish, ContainerEnv, StartExec, PingAgain, StreamIsCut, ContextEnds
<1>2. CASE \E p \in Plans : Pick(p)
  BY <1>2 DEF Pick
<1>3. CASE ImageRef
  BY <1>3 DEF ImageRef, GoesOn, Fails
<1>4. CASE Create
  BY <1>4 DEF Create, GoesOn, Fails
<1>5. CASE Start
  BY <1>5 DEF Start, GoesOn, Fails
<1>6. CASE NotReady \/ Ready
  BY <1>6 DEF NotReady, Ready, GoesOn, Fails
<1>7. CASE Copy
  BY <1>7 DEF Copy, GoesOn, Fails
<1>8. CASE Collect
  BY <1>8 DEF Collect, Passes, GoesOn, Fails
<1>9. CASE Remove \/ TidyUp
  BY <1>9 DEF Remove, TidyUp
<1>10. CASE Kill
  BY <1>10, Zenon DEF Kill
<1>11. CASE Server
  BY <1>11 DEF Server
<1>12. CASE ProgramEnds \/ UNCHANGED vars
  <2>1. UNCHANGED <<pc, made, box, leaked>>
    BY <1>12, Zenon DEF ProgramEnds, vars
  <2> QED BY <2>1
<1> QED BY <1>1, <1>2, <1>3, <1>4, <1>5, <1>6, <1>7, <1>8, <1>9, <1>10, <1>11, <1>12 DEF Next, Step

\* Of the verdicts and the blame, a step changes that of the current plan, or starts
\* over.
LEMMA FailsFor ==
    ASSUME TypeOK, NEW e, Fails(e), NEW p \in Plans, p # plan
    PROVE  verdict'[p] = verdict[p]
  BY DEF TypeOK, Fails, Verdict

LEMMA TurnsStep == ASSUME TypeOK, Turns, [Next]_vars PROVE Turns'
<1> USE DEF Turns, loop, locals, daemon, Drilled
<1>1. CASE Begin
  BY <1>1 DEF Begin
<1>2. ASSUME NEW p \in Plans, Pick(p) PROVE Turns'
  BY <1>2 DEF TypeOK, Pick
<1>3. CASE Finish \/ ContainerEnv \/ StartExec \/ PingAgain \/ Remove \/ Server \/ ProgramEnds
           \/ StreamIsCut \/ ContextEnds \/ Kill \/ TidyUp \/ UNCHANGED vars
  BY <1>3 DEF Finish, ContainerEnv, StartExec, PingAgain, Remove, Server, ProgramEnds,
         StreamIsCut, ContextEnds, Kill, TidyUp, vars
<1>4. CASE ImageRef
  BY <1>4, FailsFor DEF TypeOK, ImageRef, GoesOn, Fails
<1>5. CASE Create
  BY <1>5, FailsFor DEF TypeOK, Create, GoesOn, Fails
<1>6. CASE Start
  BY <1>6, FailsFor DEF TypeOK, Start, GoesOn, Fails
<1>7. CASE NotReady \/ Ready
  BY <1>7, FailsFor DEF TypeOK, NotReady, Ready, GoesOn, Fails
<1>8. CASE Copy
  BY <1>8, FailsFor DEF TypeOK, Copy, GoesOn, Fails
<1>9. CASE Collect
  <2>1. CASE Passes
    BY <1>9, <2>1 DEF TypeOK, Collect, Passes, Verdict, GoesOn
  <2>2. CASE Fails({}) \/ Fails({plan})
    BY <1>9, <2>2, FailsFor DEF TypeOK, Collect, Fails
  <2> QED BY <1>9, <2>1, <2>2 DEF Collect
<1> QED BY <1>1, <1>2, <1>3, <1>4, <1>5, <1>6, <1>7, <1>8, <1>9 DEF Next, Step

LEMMA ToldStep == ASSUME TypeOK, Turns, Told, [Next]_vars PROVE Told'
<1> USE DEF Told, loop, locals, daemon, Equipped, Drilled
<1>1. CASE Begin \/ Finish \/ ContainerEnv \/ Remove \/ Kill \/ TidyUp
  BY <1>1 DEF Begin, Finish, ContainerEnv, Remove, Kill, TidyUp
<1>2. CASE \E p \in Plans : Pick(p)
  BY <1>2 DEF Pick
<1>3. CASE StartExec \/ PingAgain \/ Server \/ ContextEnds \/ UNCHANGED vars
  BY <1>3 DEF StartExec, PingAgain, Server, ContextEnds, vars
<1>4. CASE ImageRef
  BY <1>4 DEF ImageRef, GoesOn, Fails
<1>5. CASE Create
  BY <1>5 DEF Create, GoesOn, Fails
<1>6. CASE Start
  BY <1>6 DEF Start, GoesOn, Fails
<1>7. CASE NotReady \/ Ready
  BY <1>7 DEF NotReady, Ready, GoesOn, Fails
<1>8. CASE Copy
  BY <1>8 DEF Turns, Copy, GoesOn, Fails
<1>9. CASE Collect
  BY <1>9 DEF Collect, Passes, GoesOn, Fails
<1>10. CASE ProgramEnds
  BY <1>10 DEF TypeOK, Turns, ProgramEnds, Answers, Exits, Imports, Queries
<1>11. CASE StreamIsCut
  BY <1>11 DEF StreamIsCut
<1> QED BY <1>1, <1>2, <1>3, <1>4, <1>5, <1>6, <1>7, <1>8, <1>9, <1>10, <1>11 DEF Next, Step

\* A failing plan gets its warning, and with it its excuse.
LEMMA WarnedStep ==
    ASSUME TypeOK, Turns, PassMeansImportable, NoFalseAlarm, plan \in Plans, pc # "idle",
           NEW e \in SUBSET {plan}, Fails(e), UNCHANGED <<dump, cut>>, leaked => leaked',
           dump[plan] = "good" /\ Equipped(plan) => e = {plan} \/ plan \in trouble \/ leaked'
    PROVE  PassMeansImportable' /\ NoFalseAlarm'
<1>1. verdict' = [verdict EXCEPT ![plan] = "warned"] /\ trouble' = trouble \cup e
  BY DEF Fails, Verdict
<1>2. PassMeansImportable'
  BY <1>1 DEF TypeOK, PassMeansImportable
<1>3. NoFalseAlarm'
  BY <1>1 DEF TypeOK, NoFalseAlarm, Equipped
<1> QED BY <1>2, <1>3

LEMMA VerdictStep == ASSUME IInv, [Next]_vars PROVE PassMeansImportable' /\ NoFalseAlarm'
<1> TypeOK /\ Owned /\ Turns /\ Told /\ PassMeansImportable /\ NoFalseAlarm
  BY DEF IInv
<1> USE DEF loop, locals, daemon, Drilled
<1>1. CASE Begin
  BY <1>1 DEF Begin, PassMeansImportable, NoFalseAlarm
<1>2. ASSUME NEW p \in Plans, Pick(p) PROVE PassMeansImportable' /\ NoFalseAlarm'
  BY <1>2 DEF TypeOK, Turns, Pick, PassMeansImportable, NoFalseAlarm, Equipped
<1>3. CASE Finish \/ Kill \/ TidyUp
  BY <1>3 DEF Finish, Kill, TidyUp, PassMeansImportable, NoFalseAlarm, Equipped
<1>4. CASE ContainerEnv \/ StartExec \/ PingAgain \/ Ready \/ Remove \/ Server \/ ProgramEnds
           \/ StreamIsCut \/ ContextEnds \/ UNCHANGED vars
  <2>1. UNCHANGED <<verdict, dump>> /\ trouble \subseteq trouble' /\ cut \subseteq cut'
    BY <1>4 DEF ContainerEnv, StartExec, PingAgain, Ready, GoesOn, Remove, Server, ProgramEnds,
           StreamIsCut, ContextEnds, vars
  <2>2. (pc' # "idle" => pc # "idle") /\ (leaked => leaked')
    BY <1>4 DEF ContainerEnv, StartExec, PingAgain, Ready, GoesOn, Remove, Server, ProgramEnds,
           StreamIsCut, ContextEnds, Owned, vars
  <2> QED BY <2>1, <2>2 DEF PassMeansImportable, NoFalseAlarm, Equipped
<1>5. CASE ImageRef
  <2>1. CASE GoesOn("env")
    BY <1>5, <2>1 DEF ImageRef, GoesOn, PassMeansImportable, NoFalseAlarm, Equipped
  <2>2. CASE Fails({plan})
    BY <1>5, <2>2, WarnedStep DEF ImageRef, TypeOK
  <2> QED BY <1>5, <2>1, <2>2 DEF ImageRef
<1>6. CASE Create
  <2>1. CASE GoesOn("start") /\ UNCHANGED leaked
    BY <1>6, <2>1 DEF Create, GoesOn, PassMeansImportable, NoFalseAlarm, Equipped
  <2>2. CASE box # "none" /\ Fails({}) /\ UNCHANGED leaked
    <3>1. leaked
      BY <1>6, <2>2 DEF Create, Owned
    <3> QED BY <1>6, <2>2, <3>1, WarnedStep DEF Create, TypeOK
  <2>3. CASE Fails({plan}) /\ (leaked => leaked')
    BY <1>6, <2>3, WarnedStep DEF Create, TypeOK
  <2> QED BY <1>6, <2>1, <2>2, <2>3 DEF Create
<1>7. CASE Start
  <2>1. CASE GoesOn("ready")
    BY <1>7, <2>1 DEF Start, GoesOn, PassMeansImportable, NoFalseAlarm, Equipped
  <2>2. CASE Fails({plan})
    BY <1>7, <2>2, WarnedStep DEF Start, TypeOK
  <2> QED BY <1>7, <2>1, <2>2 DEF Start
<1>8. CASE NotReady
  BY <1>8, WarnedStep DEF NotReady, TypeOK
<1>9. CASE Copy
  <2>1. CASE GoesOn("import")
    BY <1>9, <2>1 DEF Copy, GoesOn, PassMeansImportable, NoFalseAlarm, Equipped
  <2>2. CASE plan \notin HasTarget /\ Fails({})
    BY <1>9, <2>2, WarnedStep DEF Copy, TypeOK, Equipped
  <2>3. CASE Fails({plan})
    BY <1>9, <2>3, WarnedStep DEF Copy, TypeOK
  <2> QED BY <1>9, <2>1, <2>2, <2>3 DEF Copy
<1>10. CASE Collect
  <2>1. CASE exec = "zero" /\ Passes
    BY <1>10, <2>1 DEF Collect, Passes, GoesOn, Verdict, Told, TypeOK, PassMeansImportable,
           NoFalseAlarm, Equipped
  <2>2. CASE exec = "nonzero" /\ Fails({})
    BY <1>10, <2>2, WarnedStep DEF Collect, Told, TypeOK, Equipped
  <2>3. CASE Fails({plan})
    BY <1>10, <2>3, WarnedStep DEF Collect, TypeOK
  <2> QED BY <1>10, <2>1, <2>2, <2>3 DEF Collect
<1> QED BY <1>1, <1>2, <1>3, <1>4, <1>5, <1>6, <1>7, <1>8, <1>9, <1>10 DEF Next, Step

LEMMA Invariant == Spec => []IInv
<1>1. IInv /\ [Next]_vars => IInv'
  BY TypeStep, OwnedStep, TurnsStep, ToldStep, VerdictStep DEF IInv
<1> QED BY <1>1, InitIInv, PTL DEF Spec

-----------------------------------------------------------------------------

\* The variables of the drill have their types; waitForReady stays within its limit.
THEOREM TypeCorrect == Spec => []TypeOK
<1>1. IInv => TypeOK
  BY DEF IInv
<1> QED BY <1>1, Invariant, PTL

\* No container of the drill's name exists between drills, unless one was left by a
\* kill, a lost reply or a failed removal.
THEOREM BoxesAreCleanedUp == Spec => []BoxIsCleanedUp
<1>1. IInv => BoxIsCleanedUp
  BY DEF IInv, Owned, BoxIsCleanedUp
<1> QED BY <1>1, Invariant, PTL

\* A MySQL drill passes no dump that cannot be imported, unless a stream was cut.
THEOREM PassesAreEarned == Spec => []PassMeansImportable
<1>1. IInv => PassMeansImportable
  BY DEF IInv
<1> QED BY <1>1, Invariant, PTL

\* A warning about a good dump has another reason, and never another plan's failure.
THEOREM AlarmsAreJustified == Spec => []NoFalseAlarm
<1>1. IInv => NoFalseAlarm
  BY DEF IInv
<1> QED BY <1>1, Invariant, PTL

-----------------------------------------------------------------------------
(* Progress                                                                 *)

\* The steps of one plan, those of its execs included, and of the plans to come.
Turn == 16 + 3 * MaxPings
Later == Turn * Cardinality(todo)

\* How many steps the plan in hand still has before it.
Reading == IF exec = "none" THEN 2 ELSE IF exec = "running" THEN 1 ELSE 0
Stage ==
    IF pc = "image" THEN Turn - 1
    ELSE IF pc = "env" THEN Turn - 2
    ELSE IF pc = "create" THEN Turn - 3
    ELSE IF pc = "start" THEN Turn - 4
    ELSE IF pc = "ready" THEN 9 + 3 * (MaxPings - pings) + Reading
    ELSE IF pc = "copy" THEN 8
    ELSE IF pc = "import" THEN 5 + Reading
    ELSE IF pc = "verify" THEN 2 + Reading
    ELSE IF pc = "remove" THEN 1 ELSE 0

\* How many steps the drill has before it at most.
Left == IF pc = "idle" THEN 0 ELSE 1 + Later + Stage

\* What a step does to them while a drill runs.
Forward ==
    pc # "idle" => /\ Left \in 1..(1 + Turn * Cardinality(Plans))
                   /\ Left' <= Left
                   /\ Step \/ ProgramEnds \/ StreamIsCut \/ Kill => Left' < Left

\* The plans still to come are fewer by one once one is picked.
LEMMA LaterCounts ==
    ASSUME TypeOK
    PROVE  /\ Later \in Nat /\ Turn \in Nat /\ Later <= Turn * Cardinality(Plans)
           /\ Turn * Cardinality(Plans) \in Nat
           /\ \A p \in todo : Turn * Cardinality(todo \ {p}) = Later - Turn
<1>1. IsFiniteSet(Plans) /\ todo \in SUBSET Plans
  BY RestoreDrillAssumption DEF TypeOK
<1>2. IsFiniteSet(todo) /\ Cardinality(todo) <= Cardinality(Plans)
  BY <1>1, FS_Subset
<1>3. Cardinality(todo) \in Nat /\ Cardinality(Plans) \in Nat
  BY <1>1, <1>2, FS_CardinalityType
<1>4. Turn \in Nat
  BY Constants DEF Turn
<1>5. \A t, n, k \in Nat : t * n \in Nat /\ (n <= k => t * n <= t * k) /\ t * (n - 1) = t * n - t
  OBVIOUS
<1>6. ASSUME NEW p \in todo PROVE Turn * Cardinality(todo \ {p}) = Later - Turn
  <2>1. Cardinality(todo \ {p}) = Cardinality(todo) - 1
    BY <1>2, FS_RemoveElement
  <2> QED BY <1>3, <1>4, <1>5, <2>1 DEF Later
<1>7. Later \in Nat /\ Turn * Cardinality(Plans) \in Nat /\ Later <= Turn * Cardinality(Plans)
  BY <1>2, <1>3, <1>4, <1>5 DEF Later
<1> QED BY <1>4, <1>6, <1>7

\* A plan in hand has fewer than Turn steps before it, and one at least.
LEMMA StageCounts ==
    ASSUME TypeOK
    PROVE  /\ Stage \in 0..(Turn - 1) /\ (pc \in Drilled => Stage >= 1)
           /\ pc # "idle" => Left = 1 + Later + Stage /\ Left \in Nat
<1>1. MaxPings - pings \in 0..MaxPings /\ MaxPings \in Nat
  BY Constants DEF TypeOK
<1>2. Reading \in 0..2
  BY DEF Reading
<1>3. Stage \in 0..(Turn - 1) /\ (pc \in Drilled => Stage >= 1)
  BY <1>1, <1>2 DEF Stage, Turn, Drilled
<1> QED BY <1>3, LaterCounts DEF Left

\* Nobody's step changes the stage but the drill's own, those of its execs and a kill.
LEMMA OthersWait ==
    ASSUME TypeOK, pc # "idle", Begin \/ Server \/ ContextEnds \/ TidyUp \/ UNCHANGED vars
    PROVE  Left' = Left
<1>1. UNCHANGED <<pc, todo, pings, exec>>
  BY DEF Begin, Server, ContextEnds, TidyUp, vars, loop, locals
<1> QED BY <1>1 DEF Left, Later, Stage, Reading

\* The bound: the plan in hand is not among those to come.
LEMMA LeftBounded ==
    ASSUME TypeOK, Turns, pc # "idle"
    PROVE  Left \in 1..(1 + Turn * Cardinality(Plans))
<1> DEFINE All == Turn * Cardinality(Plans)
<1>1. Left = 1 + Later + Stage /\ Later \in Nat /\ Stage \in 0..(Turn - 1) /\ Turn \in Nat /\ All \in Nat
  BY StageCounts, LaterCounts
<1>2. CASE pc = "next"
  <2>1. Stage = 0
    BY <1>2 DEF Stage
  <2> QED BY <1>1, <2>1, LaterCounts
<1>3. CASE pc \in Drilled
  <2>1. IsFiniteSet(Plans) /\ plan \in Plans /\ todo \in SUBSET (Plans \ {plan})
    BY <1>3, RestoreDrillAssumption DEF TypeOK, Turns
  <2>2. IsFiniteSet(Plans \ {plan}) /\ Cardinality(Plans \ {plan}) = Cardinality(Plans) - 1
    BY <2>1, FS_RemoveElement
  <2>3. Cardinality(todo) <= Cardinality(Plans) - 1
    BY <2>1, <2>2, FS_Subset
  <2>4. Cardinality(todo) \in Nat /\ Cardinality(Plans) \in Nat
    BY <2>1, FS_CardinalityType, FS_Subset
  <2>5. \A t, n, k \in Nat : n <= k - 1 => t * n <= t * k - t
    OBVIOUS
  <2>6. Later <= All - Turn
    BY <1>1, <2>3, <2>4, <2>5 DEF Later
  <2> QED BY <1>1, <2>6
<1> QED BY <1>2, <1>3 DEF TypeOK

\* The measure is a number after the step too.
LEMMA LeftNext == ASSUME TypeOK' PROVE Left' \in Int /\ Stage' \in Int
<1>1. IsFiniteSet(Plans) /\ todo' \in SUBSET Plans
  BY RestoreDrillAssumption DEF TypeOK
<1>2. Cardinality(todo') \in Nat
  BY <1>1, FS_Subset, FS_CardinalityType
<1>3. MaxPings \in Int /\ MaxPings - pings' \in Int /\ Reading' \in Int
  BY Constants DEF TypeOK, Reading
<1>4. Turn \in Int /\ Stage' \in Int
  BY <1>3 DEF Stage, Turn
<1>5. \A t, n \in Int : t * n \in Int
  OBVIOUS
<1>6. Later' \in Int
  BY <1>2, <1>4, <1>5 DEF Later, Turn
<1> QED BY <1>4, <1>6 DEF Left

\* The two ways in which the sums below decrease.
LEMMA FewerSteps ==
    ASSUME NEW n \in Int, NEW s \in Int, NEW t \in Int, t < s
    PROVE  n + t < n + s
  OBVIOUS

LEMMA FewerPlans ==
    ASSUME NEW n \in Int, NEW k \in Int, k > 0, NEW t \in {0, k - 1}
    PROVE  1 + (n - k) + t < 1 + n + 0
  OBVIOUS

\* A step of the drill, of its execs, or a kill.
LEMMA OwnStep ==
    ASSUME TypeOK, TypeOK', Turns, pc # "idle", Step \/ ProgramEnds \/ StreamIsCut \/ Kill
    PROVE  Left' < Left
<1> DEFINE n == MaxPings - pings
<1>1. /\ Left = 1 + Later + Stage /\ Left \in Nat /\ Later \in Nat /\ Turn \in Nat
      /\ n \in 0..MaxPings /\ MaxPings \in Nat /\ Turn = 16 + 3 * MaxPings
      /\ Stage \in Nat /\ pings \in Nat /\ Left' \in Int /\ Stage' \in Int
  BY StageCounts, LaterCounts, LeftNext, Constants DEF TypeOK, Turn
<1>2. ASSUME NEW p \in Plans, Pick(p) PROVE Left' < Left
  <2>1. pc = "next" /\ Stage = 0 /\ p \in todo /\ todo' = todo \ {p} /\ pc' \in {"next", "image"}
    BY <1>2 DEF Pick, Stage
  <2>2. Later' = Later - Turn
    BY <2>1, LaterCounts DEF Later, Turn
  <2>3. Left' = 1 + Later' + Stage'
    BY <2>1 DEF Left
  <2>4. Stage' \in {0, Turn - 1}
    BY <2>1 DEF Stage, Turn
  <2>5. Later \in Int /\ Turn \in Int /\ Turn > 0
    BY <1>1
  <2>6. 1 + (Later - Turn) + Stage' < 1 + Later + 0
    BY <2>4, <2>5, FewerPlans
  <2> QED BY Zenon, <1>1, <2>1, <2>2, <2>3, <2>6
<1>3. ASSUME UNCHANGED todo, Stage' < Stage, Stage \in Int, Stage' \in Int, pc' # "idle"
      PROVE  Left' < Left
  <2>1. Left' = 1 + Later + Stage'
    BY <1>3 DEF Left, Later, Turn
  <2>2. 1 + Later \in Int
    BY <1>1
  <2>3. 1 + Later + Stage' < 1 + Later + Stage
    BY <1>3, <2>2, FewerSteps
  <2> QED BY Zenon, <1>1, <2>1, <2>3
<1>4. CASE Finish \/ Kill
  <2>1. Left' = 0
    BY <1>4 DEF Finish, Kill, Left
  <2> QED BY <1>1, <2>1
<1>5. Stage \in Nat /\ Stage' \in Int
  BY <1>1, LeftNext
<1>6. CASE ImageRef \/ ContainerEnv \/ Create \/ Start
  <2>1. /\ UNCHANGED <<todo, pings, exec>> /\ exec = "none"
        /\ \/ pc \in {"image", "env", "create", "start"} /\ pc' \in {"next", "remove"}
           \/ pc = "image" /\ pc' = "env"
           \/ pc = "env" /\ pc' = "create"
           \/ pc = "create" /\ pc' = "start"
           \/ pc = "start" /\ pc' = "ready"
    BY <1>6 DEF ImageRef, ContainerEnv, Create, Start, GoesOn, Fails, Turns, loop, locals
  <2>2. Stage' < Stage
    BY <1>1, <2>1 DEF Stage, Turn, Reading
  <2> QED BY <1>3, <1>5, <2>1, <2>2
<1>7. CASE StartExec \/ ProgramEnds \/ StreamIsCut
  <2>1. /\ UNCHANGED <<pc, todo, pings>> /\ pc \in {"ready", "import", "verify"}
        /\ Reading' < Reading /\ Reading \in Int /\ Reading' \in Int
    BY <1>7 DEF StartExec, ProgramEnds, StreamIsCut, Exits, Turns, Reading, loop
  <2>2. Stage' < Stage
    <3>1. CASE pc = "ready"
      <4>1. 9 + 3 * n \in Int
        BY <1>1
      <4>2. 9 + 3 * n + Reading' < 9 + 3 * n + Reading
        BY <2>1, <4>1, FewerSteps
      <4> QED BY Zenon, <2>1, <3>1, <4>2 DEF Stage
    <3>2. CASE pc \in {"import", "verify"}
      <4>1. \A k \in Int : k + Reading' < k + Reading
        BY <2>1, FewerSteps
      <4>2. 5 + Reading' < 5 + Reading /\ 2 + Reading' < 2 + Reading
        BY <4>1
      <4> QED BY <2>1, <3>2, <4>2 DEF Stage
    <3> QED BY <2>1, <3>1, <3>2
  <2> QED BY <1>3, <1>5, <2>1, <2>2
<1>8. CASE PingAgain \/ NotReady \/ Ready \/ Copy
  <2>1. UNCHANGED todo /\ exec' = "none" /\ Reading \in 0..2 /\ Reading' = 2
    BY <1>8 DEF PingAgain, NotReady, Ready, Copy, Turns, Reading, loop, locals
  <2>2. \/ pc = "ready" /\ pc' \in {"next", "remove", "copy"}
        \/ pc = "ready" /\ pc' = "ready" /\ MaxPings - pings' = n - 1 /\ n >= 1
        \/ pc = "copy" /\ pc' \in {"next", "remove", "import"}
    <3>1. CASE PingAgain
      BY <1>1, <3>1 DEF PingAgain
    <3>2. CASE NotReady \/ Ready \/ Copy
      BY <3>2 DEF NotReady, Ready, Copy, GoesOn, Fails
    <3> QED BY <1>8, <3>1, <3>2
  <2>3. Stage' < Stage
    BY <1>1, <2>1, <2>2 DEF Stage
  <2> QED BY <1>3, <1>5, <2>1, <2>2, <2>3
<1>9. CASE Collect
  <2>1. UNCHANGED todo /\ exec' = "none" /\ Reading \in 0..2 /\ Reading' = 2
    BY <1>9 DEF Collect, Reading, loop
  <2>2. \/ pc = "import" /\ pc' \in {"next", "remove", "verify"}
        \/ pc = "verify" /\ pc' \in {"next", "remove"}
    BY <1>9 DEF Collect, Passes, GoesOn, Fails
  <2>3. Stage' < Stage
    BY <1>1, <2>1, <2>2 DEF Stage
  <2> QED BY <1>3, <1>5, <2>1, <2>2, <2>3
<1>10. CASE Remove
  <2>1. UNCHANGED todo /\ pc = "remove" /\ pc' = "next"
    BY <1>10 DEF Remove, loop
  <2>2. Stage' < Stage
    BY <2>1 DEF Stage
  <2> QED BY <1>3, <1>5, <2>1, <2>2
<1> QED BY <1>2, <1>4, <1>6, <1>7, <1>8, <1>9, <1>10 DEF Step

\* A drill ends after 1 + (16 + 3 * MaxPings) * Cardinality(Plans) steps of its own at
\* most, those of its execs included: each of them takes it forward, and neither the
\* servers, the deadline nor a lost stream takes it back.
THEOREM DrillGoesForward == Spec => [][Forward]_vars
<1>1. IInv /\ IInv' /\ [Next]_vars => [Forward]_vars
  <2> SUFFICES ASSUME IInv, IInv', [Next]_vars, pc # "idle" PROVE Forward
    BY Zenon DEF Forward
  <2>1. TypeOK /\ TypeOK' /\ Turns
    BY DEF IInv
  <2>2. Left \in 1..(1 + Turn * Cardinality(Plans))
    BY <2>1, LeftBounded
  <2>3. CASE Step \/ ProgramEnds \/ StreamIsCut \/ Kill
    <3>1. Left' < Left
      BY <2>1, <2>3, OwnStep
    <3>2. Left \in Nat /\ Left' \in Int
      BY <2>1, StageCounts, LaterCounts, LeftNext DEF Left
    <3> QED BY <2>2, <3>1, <3>2 DEF Forward
  <2>4. CASE Begin \/ Server \/ ContextEnds \/ TidyUp \/ UNCHANGED vars
    <3>1. Left' = Left
      BY <2>1, <2>4, OthersWait
    <3>2. Left \in Nat
      BY <2>1, StageCounts
    <3>3. Step \/ ProgramEnds \/ StreamIsCut \/ Kill => Left' < Left
      BY <2>1, OwnStep
    <3> QED BY <2>2, <3>1, <3>2, <3>3 DEF Forward
  <2> QED BY <2>3, <2>4 DEF Next
<1> QED BY <1>1, Invariant, PTL DEF Spec
=============================================================================
