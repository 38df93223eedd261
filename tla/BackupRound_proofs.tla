------------------------- MODULE BackupRound_proofs -------------------------
(* Proofs about BackupRound and Verify for every set of databases, every   *)
(* bound and every setting.                                                *)
EXTENDS Verify, FiniteSetTheorems, TLAPS

-----------------------------------------------------------------------------
(* Type correctness                                                        *)

LEMMA Constants ==
    /\ MaxDay \in Nat /\ 1 \in Days /\ MaxRuns \in Nat /\ MaxCrashes \in Nat
    /\ RetentionDays \in Nat /\ Limit \in Nat /\ Skew \in Nat /\ 0 \in Runs
  BY BackupRoundAssumption DEF Days, Runs

LEMMA EmptyRecords ==
    NoManifest \in Manifests /\ NoFiles \in [Databases -> Runs]
  BY Constants DEF NoManifest, NoFiles, Manifests, KopiaInfo

LEMMA InitTypeOK == Init => TypeOK
<1> SUFFICES ASSUME Init PROVE TypeOK
  OBVIOUS
<1> USE Constants, EmptyRecords
<1>1. today \in Days /\ day \in Days /\ dirs \subseteq Days /\ stale \subseteq Days
  BY DEF Init
<1>2. file \in [Days -> [Databases -> Runs]] /\ man \in [Days -> Manifests] /\ snapshots = {}
  BY DEF Init
<1>3. /\ ping = "none" /\ lastStatus = "failed"
      /\ pc = "idle" /\ run \in Runs /\ crashes \in 0..MaxCrashes
      /\ {plan, ok, bad} \subseteq SUBSET Databases
      /\ status = "success" /\ kopia = "none" /\ last = "none"
  BY DEF Init
<1> QED BY <1>1, <1>2, <1>3 DEF TypeOK, Statuses, Stages, KopiaInfo

\* What Kopia does to the repository: a snapshot more, and fewer of the others only
\* with a policy and together with the new one.
LEMMA StoreAdds ==
    ASSUME Kopia
    PROVE  /\ snapshots' \subseteq snapshots \cup {Snapshot}
           /\ snapshots \subseteq snapshots' \/ (KopiaRetention /\ Snapshot \in snapshots')
           /\ kopia' = "pushed" => Snapshot \in snapshots'
<1>1. PICK o \in Outcomes :
          /\ snapshots' \in IF o.stored THEN Store ELSE {snapshots}
          /\ kopia' = IF o.fails = "none" THEN "pushed" ELSE "failed"
  BY Zenon DEF Kopia
<1>2. CASE o.stored
  <2>1. snapshots' \in Store
    BY <1>1, <1>2
  <2> QED BY <2>1 DEF Store
<1>3. CASE ~o.stored
  <2>1. snapshots' = snapshots
    BY <1>1, <1>3
  <2>2. kopia' # "pushed"
    BY <1>1, <1>3 DEF Outcomes
  <2> QED BY <2>1, <2>2
<1> QED BY <1>2, <1>3

\* A manifest written by the round is a manifest.
LEMMA WriteManifestType ==
    ASSUME TypeOK, NEW s \in Statuses, NEW k \in KopiaInfo, WriteManifest(s, k)
    PROVE  man' \in [Days -> Manifests] /\ stale' \subseteq Days
<1>1. [run |-> run, status |-> s, listed |-> ok, kopia |-> k] \in Manifests
  BY DEF TypeOK, Manifests
<1> QED BY <1>1 DEF WriteManifest, TypeOK

\* Retention touches the files of an expired directory, and only takes them away.
LEMMA PartRemoved ==
    ASSUME TypeOK, NEW d \in Days, RemovePart(d)
    PROVE  /\ file' \in [Days -> [Databases -> Runs]]
           /\ \A e \in Days \ {d} : file'[e] = file[e] /\ man'[e] = man[e]
           /\ \A e \in Days, b \in Databases : file'[e][b] \in {0, file[e][b]}
           /\ man'[d] \in {man[d], NoManifest}
<1> USE Constants DEF TypeOK
<1>1. CASE UNCHANGED file
  BY <1>1 DEF RemovePart
<1>2. ASSUME NEW b \in Databases, file' = [file EXCEPT ![d][b] = 0]
      PROVE  /\ file' \in [Days -> [Databases -> Runs]]
             /\ \A e \in Days \ {d} : file'[e] = file[e]
             /\ \A e \in Days, c \in Databases : file'[e][c] \in {0, file[e][c]}
  <2>1. [file[d] EXCEPT ![b] = 0] \in [Databases -> Runs]
    OBVIOUS
  <2>2. file' = [file EXCEPT ![d] = [file[d] EXCEPT ![b] = 0]]
    BY <1>2
  <2> QED BY <2>1, <2>2
<1>3. (\A e \in Days \ {d} : man'[e] = man[e]) /\ man'[d] \in {man[d], NoManifest}
  BY DEF RemovePart
<1>4. UNCHANGED file \/ \E b \in Databases : file' = [file EXCEPT ![d][b] = 0]
  BY DEF RemovePart
<1> QED BY <1>1, <1>2, <1>3, <1>4

LEMMA TypeStep == TypeOK /\ [Next]_vars => TypeOK'
<1> SUFFICES ASSUME TypeOK, [Next]_vars PROVE TypeOK'
  OBVIOUS
<1> USE Constants DEF TypeOK, Stages, Statuses, KopiaInfo, disk, seen, local
<1>1. CASE NewDay
  BY <1>1 DEF NewDay, Days
<1>2. CASE Begin
  <2>1. run' \in Runs
    BY <1>2 DEF Begin, Runs
  <2> QED BY <1>2, <2>1 DEF Begin
<1>3. CASE List
  BY <1>3 DEF List
<1>4. CASE Precheck
  <2>1. man' \in [Days -> Manifests] /\ stale' \subseteq Days
    BY <1>4, WriteManifestType DEF Precheck
  <2> QED BY <1>4, <2>1 DEF Precheck
<1>5. ASSUME NEW b \in Databases, Dump(b) PROVE TypeOK'
  <2>1. file' \in [Days -> [Databases -> Runs]]
    <3>1. [file[day] EXCEPT ![b] = run] \in [Databases -> Runs]
      OBVIOUS
    <3>2. file' = file \/ file' = [file EXCEPT ![day] = [file[day] EXCEPT ![b] = run]]
      BY <1>5 DEF Dump
    <3> QED BY <3>1, <3>2
  <2>2. {ok', bad'} \subseteq SUBSET Databases
    BY <1>5 DEF Dump
  <2> QED BY <1>5, <2>1, <2>2 DEF Dump
<1>6. CASE Assess
  <2>1. Verdict \in Statuses
    BY DEF Verdict
  <2>2. man' \in [Days -> Manifests] /\ stale' \subseteq Days
    BY <1>6, <2>1, WriteManifestType DEF Assess
  <2> QED BY <1>6, <2>1, <2>2 DEF Assess
<1>7. CASE Kopia
  <2>1. status' \in Statuses
    BY <1>7 DEF Kopia
  <2>0. kopia' \in KopiaInfo
    BY <1>7 DEF Kopia
  <2>2. man' \in [Days -> Manifests] /\ stale' \subseteq Days
    BY <1>7, <2>0, <2>1, WriteManifestType DEF Kopia
  <2>3. snapshots' \subseteq [run : Runs, man : Manifests, file : [Databases -> Runs], behind : BOOLEAN]
    <3>1. Snapshot \in [run : Runs, man : Manifests, file : [Databases -> Runs], behind : BOOLEAN]
      BY DEF Snapshot
    <3>2. snapshots' \subseteq snapshots \cup {Snapshot}
      BY <1>7, StoreAdds
    <3> QED BY <3>1, <3>2
  <2> QED BY <1>7, <2>0, <2>1, <2>2, <2>3 DEF Kopia
<1>8. CASE Drill
  <2>1. man' \in [Days -> Manifests] /\ stale' \subseteq Days
    BY <1>8, WriteManifestType DEF Drill
  <2> QED BY <1>8, <2>1 DEF Drill
<1>9. ASSUME NEW d \in Days, RemovePart(d) PROVE TypeOK'
  <2>1. file' \in [Days -> [Databases -> Runs]]
    BY <1>9, PartRemoved
  <2>2. man' \in [Days -> Manifests]
    BY <1>9, EmptyRecords DEF RemovePart
  <2>3. dirs' \subseteq Days /\ stale' \subseteq Days
    BY <1>9 DEF RemovePart
  <2> QED BY <1>9, <2>1, <2>2, <2>3 DEF RemovePart
<1>10. CASE EndRetention \/ Report
  BY <1>10 DEF EndRetention, Report
<1>11. CASE Crash
  BY <1>11 DEF Crash
<1>12. CASE UNCHANGED vars
  BY <1>12 DEF vars
<1> QED BY <1>1, <1>2, <1>3, <1>4, <1>5, <1>6, <1>7, <1>8, <1>9, <1>10, <1>11, <1>12
        DEF Next, Round

\* Every reachable state of the rounds has the declared shape.
THEOREM TypeCorrect == Spec => []TypeOK
  BY InitTypeOK, TypeStep, PTL DEF Spec

-----------------------------------------------------------------------------
(* Retention                                                               *)

\* The day of a round is not ahead of the wall clock, and no file is ahead of the
\* rounds.
NotAhead ==
    /\ day <= today
    /\ \A d \in Days, b \in Databases : file[d][b] <= run

LEMMA NotAheadStep == ASSUME TypeOK, NotAhead, [Next]_vars PROVE NotAhead'
<1>0. /\ run \in Nat /\ day \in Days /\ today \in Nat /\ Days \subseteq Nat
      /\ file \in [Days -> [Databases -> Runs]] /\ Runs \subseteq Nat
  BY DEF TypeOK, Days, Runs
<1>1. CASE NewDay
  BY <1>0, <1>1 DEF NotAhead, NewDay, disk, local
<1>2. CASE List \/ Precheck \/ Assess \/ Kopia \/ Drill \/ EndRetention \/ Report \/ Crash
  <2>1. UNCHANGED <<file, run, day, today>>
    BY <1>2 DEF List, Precheck, Assess, Kopia, Drill, EndRetention, Report, Crash, disk, local
  <2> QED BY <2>1 DEF NotAhead
<1>3. CASE Begin
  <2>1. day' = today /\ run' = run + 1 /\ UNCHANGED <<file, today>>
    BY <1>3 DEF Begin, disk
  <2>2. \A d \in Days, b \in Databases : file[d][b] \in Nat
    BY <1>0
  <2> QED BY <1>0, <2>1, <2>2 DEF NotAhead
<1>4. ASSUME NEW b \in Databases, Dump(b) PROVE NotAhead'
  <2>1. file' = file \/ file' = [file EXCEPT ![day] = [file[day] EXCEPT ![b] = run]]
    BY <1>4 DEF Dump
  <2>2. \A d \in Days, c \in Databases : file'[d][c] = run \/ file'[d][c] = file[d][c]
    BY <1>0, <2>1
  <2>3. UNCHANGED <<day, today, run>>
    BY <1>4 DEF Dump
  <2> QED BY <1>0, <2>2, <2>3 DEF NotAhead
<1>5. ASSUME NEW d \in Days, RemovePart(d) PROVE NotAhead'
  <2>1. UNCHANGED <<day, today, run>>
    BY <1>5 DEF RemovePart, local
  <2>2. \A e \in Days, b \in Databases : file'[e][b] = 0 \/ file'[e][b] = file[e][b]
    BY <1>5, PartRemoved
  <2> QED BY <1>0, <2>1, <2>2 DEF NotAhead
<1>6. CASE UNCHANGED vars
  BY <1>6 DEF vars, disk, local, NotAhead
<1> QED BY <1>1, <1>2, <1>3, <1>4, <1>5, <1>6 DEF Next, Round

\* A directory that is young enough stays, and so does each of its dumps until a
\* later round replaces it.
THEOREM RetentionIsSafe == Spec => RecentDaysKept
<1>1. Init => NotAhead
  BY Constants DEF Init, NotAhead, NoFiles, Days
<1>2. TypeOK /\ NotAhead /\ [Next]_vars => NotAhead'
  BY NotAheadStep
<1>3. TypeOK /\ NotAhead /\ [Next]_vars
        => [\A d \in dirs : RetentionDays <= Limit /\ d + RetentionDays > today + Skew =>
               d \in dirs' /\ \A b \in Databases : file'[d][b] >= file[d][b]]_vars
  <2> SUFFICES ASSUME TypeOK, NotAhead, Next, NEW d \in dirs,
                      RetentionDays <= Limit, d + RetentionDays > today + Skew
               PROVE  d \in dirs' /\ \A b \in Databases : file'[d][b] >= file[d][b]
    OBVIOUS
  <2>0. d \in Days /\ \A b \in Databases : file[d][b] \in Nat
    BY DEF TypeOK, Runs
  <2>1. ASSUME NEW e \in Days, RemovePart(e)
        PROVE  d \in dirs' /\ \A b \in Databases : file'[d][b] >= file[d][b]
    <3>1. ~Expired(d)
      BY Constants DEF Expired, TypeOK, NotAhead, Days
    <3>2. e # d
      BY <2>1, <3>1 DEF RemovePart
    <3>3. file'[d] = file[d]
      BY <2>0, <2>1, <3>2, PartRemoved
    <3>4. d \in dirs'
      BY <2>1, <3>2 DEF RemovePart
    <3> QED BY <2>0, <3>3, <3>4
  <2>2. ASSUME NEW c \in Databases, Dump(c)
        PROVE  d \in dirs' /\ \A b \in Databases : file'[d][b] >= file[d][b]
    <3>1. file' = file \/ file' = [file EXCEPT ![day] = [file[day] EXCEPT ![c] = run]]
      BY <2>2 DEF Dump
    <3>2. \A b \in Databases : file'[d][b] \in {run, file[d][b]}
      BY <2>0, <3>1 DEF TypeOK
    <3>3. dirs' = dirs /\ run \in Nat
      BY <2>2 DEF Dump, TypeOK, Runs
    <3> QED BY <2>0, <3>2, <3>3 DEF NotAhead
  <2>3. CASE NewDay \/ Begin \/ List \/ Precheck \/ Assess \/ Kopia \/ Drill \/ EndRetention
             \/ Report \/ Crash
    <3>1. file' = file /\ d \in dirs'
      BY <2>3 DEF NewDay, Begin, List, Precheck, Assess, Kopia, Drill, EndRetention, Report,
                  Crash, disk
    <3> QED BY <2>0, <3>1
  <2> QED BY <2>1, <2>2, <2>3 DEF Next, Round
<1> QED BY <1>1, <1>2, <1>3, TypeCorrect, PTL DEF Spec, RecentDaysKept

-----------------------------------------------------------------------------
(* Heartbeats, whatever becomes of the manifests                           *)

\* The dumps a running round counts as its successes carry its number, until
\* retention may take them.
OwnKept == pc \in {"retention", "report"} => KeepsOwn
OwnFiles == pc # "idle" => run # 0 /\ (OwnKept => \A b \in ok : file[day][b] = run)

\* The date directory is there once it has been made, until retention may take it.
DirMade == pc \notin {"idle", "list"} /\ OwnKept => day \in dirs

\* Once the results are in, a success means that nothing failed, and after the
\* Kopia stage that the dumps were pushed to a repository, if there is one.
Results ==
    pc \in {"kopia", "drill", "retention", "report"} =>
        /\ plan = ok \cup bad
        /\ status = "success" => bad = {}
        /\ pc # "kopia" /\ status = "success" =>
               kopia = IF KopiaEnabled THEN "pushed" ELSE "none"
        /\ pc = "kopia" => KopiaEnabled /\ kopia = "none"

\* What the round pushed is in a snapshot; and it pushes after its dumps.
Pushed ==
    /\ pc \in {"list", "precheck", "dump"} => kopia = "none"
    /\ kopia = "pushed" => /\ pc # "kopia"
                           /\ \E s \in snapshots : s.run = run /\ \A b \in ok : s.file[b] = run

\* An unanswered start is seen before the next one only after a kill.
StartKnown == pc \in {"idle", "list", "precheck"} /\ ping = "start" => last = "killed"

RoundInv ==
    TypeOK /\ OwnFiles /\ DirMade /\ Results /\ Pushed /\ StartKnown /\ OkPingIsBacked

LEMMA InitRoundInv == Init => RoundInv
<1> SUFFICES ASSUME Init PROVE RoundInv
  OBVIOUS
<1>1. TypeOK
  BY InitTypeOK
<1>2. pc = "idle" /\ ping = "none" /\ kopia = "none"
  BY DEF Init
<1> QED BY <1>1, <1>2 DEF RoundInv, OwnFiles, DirMade, Results, Pushed, StartKnown,
           OkPingIsBacked, Green

\* If RetentionDays is large enough, and no larger than a Duration can hold, the date
\* directory of the round is not among those that retention removes.
LEMMA OwnDayStays ==
    ASSUME TypeOK, KeepsOwn, NEW d \in Days, RemovePart(d)
    PROVE  day \in Days /\ d # day
  BY Constants DEF KeepsOwn, Expired, TypeOK, Days, RemovePart

\* The round's own bookkeeping.
LEMMA BookStep ==
    ASSUME RoundInv, [Next]_vars
    PROVE  OwnFiles' /\ DirMade' /\ StartKnown'
<1> TypeOK /\ OwnFiles /\ DirMade /\ StartKnown
  BY DEF RoundInv
<1> USE Constants DEF OwnFiles, OwnKept, DirMade, StartKnown, disk, seen, local
<1>1. CASE NewDay
  BY <1>1 DEF NewDay
<1>2. CASE Begin
  BY <1>2 DEF Begin, TypeOK, Runs
<1>3. CASE List
  BY <1>3 DEF List
<1>4. CASE Precheck
  BY <1>4 DEF Precheck
<1>5. ASSUME NEW b \in Databases, Dump(b) PROVE OwnFiles' /\ DirMade' /\ StartKnown'
  <2>1. CASE file' = [file EXCEPT ![day][b] = run] /\ ok' = ok \cup {b}
    BY <1>5, <2>1 DEF Dump, TypeOK
  <2>2. CASE UNCHANGED <<ok, file>>
    BY <1>5, <2>2 DEF Dump
  <2> QED BY <1>5, <2>1, <2>2 DEF Dump
<1>6. CASE Assess
  BY <1>6 DEF Assess
<1>7. CASE Kopia
  BY <1>7 DEF Kopia
<1>8. CASE Drill
  BY <1>8 DEF Drill
<1>9. ASSUME NEW d \in Days, RemovePart(d) PROVE OwnFiles' /\ DirMade' /\ StartKnown'
  <2>1. UNCHANGED <<pc, run, day, ok, ping, last>> /\ pc = "retention"
    BY <1>9 DEF RemovePart
  <2>2. ASSUME KeepsOwn PROVE file'[day] = file[day] /\ (day \in dirs => day \in dirs')
    <3>1. day \in Days /\ d # day
      BY <1>9, <2>2, OwnDayStays
    <3>2. file'[day] = file[day]
      BY <1>9, <3>1, PartRemoved
    <3> QED BY <1>9, <3>1, <3>2 DEF RemovePart
  <2> QED BY <2>1, <2>2
<1>10. CASE EndRetention \/ Report
  BY <1>10 DEF EndRetention, Report
<1>11. CASE Crash
  BY <1>11 DEF Crash
<1>12. CASE UNCHANGED vars
  BY <1>12 DEF vars
<1> QED BY <1>1, <1>2, <1>3, <1>4, <1>5, <1>6, <1>7, <1>8, <1>9, <1>10, <1>11, <1>12
        DEF Next, Round

LEMMA ResultsStep == ASSUME RoundInv, [Next]_vars PROVE Results'
<1> TypeOK /\ Results /\ Pushed
  BY DEF RoundInv
<1> USE DEF Results, disk, seen, local
<1>1. CASE NewDay \/ Begin \/ List \/ Precheck
  BY <1>1 DEF NewDay, Begin, List, Precheck
<1>2. ASSUME NEW b \in Databases, Dump(b) PROVE Results'
  BY <1>2 DEF Dump
<1>3. CASE Assess
  <2>1. pc' = (IF KopiaEnabled THEN "kopia" ELSE "drill") /\ kopia' = "none"
    BY <1>3 DEF Assess, Pushed
  <2>2. plan = ok \cup bad /\ UNCHANGED <<plan, ok, bad>> /\ status' = Verdict
    BY <1>3 DEF Assess
  <2>3. status' = "success" => bad = {}
    BY <2>2 DEF Verdict
  <2> QED BY <2>1, <2>2, <2>3, BackupRoundAssumption
<1>4. CASE Kopia
  <2>1. status' = "success" => status = "success" /\ kopia' = "pushed"
    BY <1>4 DEF Kopia
  <2> QED BY <1>4, <2>1 DEF Kopia
<1>5. CASE Drill \/ EndRetention \/ \E d \in Days : RemovePart(d)
  BY <1>5 DEF Drill, EndRetention, RemovePart
<1>6. CASE Report \/ Crash
  BY <1>6 DEF Report, Crash
<1>7. CASE UNCHANGED vars
  BY <1>7 DEF vars
<1> QED BY <1>1, <1>2, <1>3, <1>4, <1>5, <1>6, <1>7 DEF Next, Round

LEMMA PushedStep == ASSUME RoundInv, [Next]_vars PROVE Pushed'
<1> TypeOK /\ OwnFiles /\ Pushed
  BY DEF RoundInv
<1> USE DEF Pushed, disk, seen, local
<1>1. CASE NewDay \/ Begin \/ List \/ Precheck
  BY <1>1 DEF NewDay, Begin, List, Precheck
<1>2. ASSUME NEW b \in Databases, Dump(b) PROVE Pushed'
  BY <1>2 DEF Dump
<1>3. CASE Assess
  BY <1>3 DEF Assess
<1>4. CASE Kopia
  <2>1. kopia' = "pushed" => Snapshot \in snapshots'
    BY <1>4, StoreAdds
  <2>2. Snapshot.run = run /\ \A b \in ok : Snapshot.file[b] = run
    BY <1>4 DEF Kopia, OwnFiles, OwnKept, Snapshot
  <2>3. UNCHANGED <<run, ok>> /\ pc' = "drill"
    BY <1>4 DEF Kopia
  <2> QED BY <2>1, <2>2, <2>3
<1>5. CASE Drill \/ EndRetention \/ Report \/ Crash \/ \E d \in Days : RemovePart(d)
  BY <1>5 DEF Drill, EndRetention, Report, Crash, RemovePart
<1>6. CASE UNCHANGED vars
  BY <1>6 DEF vars
<1> QED BY <1>1, <1>2, <1>3, <1>4, <1>5, <1>6 DEF Next, Round

LEMMA OkPingStep == ASSUME RoundInv, [Next]_vars PROVE OkPingIsBacked'
<1> TypeOK /\ OwnFiles /\ DirMade /\ Results /\ Pushed /\ OkPingIsBacked
  BY DEF RoundInv
<1> USE DEF OkPingIsBacked, Green, disk, seen, local
<1>1. CASE NewDay
  BY <1>1 DEF NewDay
<1>2. CASE Report
  <2>1. pc = "report" /\ pc' = "idle" /\ UNCHANGED <<disk, snapshots, run, day, plan, ok, bad>>
    BY <1>2 DEF Report
  <2>2. last' = status
    BY <1>2 DEF Report
  <2>3. status = "success" => plan = ok /\ (KopiaEnabled => kopia = "pushed")
    BY <2>1 DEF Results
  <2>4. KeepsOwn => day \in dirs /\ \A b \in ok : file[day][b] = run
    BY <2>1 DEF OwnFiles, DirMade, OwnKept
  <2>5. kopia = "pushed" => \E s \in snapshots : \A b \in ok : s.file[b] = run
    BY DEF Pushed
  <2> QED BY <2>1, <2>2, <2>3, <2>4, <2>5
<1>3. CASE List \/ Precheck \/ Crash
  BY <1>3 DEF List, Precheck, Crash
<1>4. ASSUME NEW b \in Databases, Dump(b) PROVE OkPingIsBacked'
  BY <1>4 DEF Dump
<1>5. CASE Begin \/ Assess \/ Kopia \/ Drill \/ EndRetention \/ \E d \in Days : RemovePart(d)
  BY <1>5 DEF Begin, Assess, Kopia, Drill, EndRetention, RemovePart
<1>6. CASE UNCHANGED vars
  BY <1>6 DEF vars
<1> QED BY <1>1, <1>2, <1>3, <1>4, <1>5, <1>6 DEF Next, Round

LEMMA RoundInvCorrect == Spec => []RoundInv
<1>1. RoundInv /\ [Next]_vars => RoundInv'
  BY TypeStep, BookStep, ResultsStep, PushedStep, OkPingStep DEF RoundInv
<1> QED BY <1>1, InitRoundInv, PTL DEF Spec

\* Healthchecks is told the truth: a success is backed by the repository and, unless
\* retention may reach the round's own directory, by the disk.
THEOREM HeartbeatsAreTrue == Spec => []OkPingIsBacked
<1>1. RoundInv => OkPingIsBacked
  BY DEF RoundInv
<1> QED BY <1>1, RoundInvCorrect, PTL

\* A start goes unanswered only when the round was killed.
THEOREM StartsAreAnswered == Spec => []StartIsAnswered
<1>1. RoundInv => StartIsAnswered
  BY DEF RoundInv, StartKnown, StartIsAnswered
<1> QED BY <1>1, RoundInvCorrect, PTL

-----------------------------------------------------------------------------
(* Manifests and snapshots                                                 *)

\* Before its first dump a round has successes of no kind, and has not yet
\* touched what the day's manifest lists.
Untouched ==
    /\ pc \in {"list", "precheck"} => ok = {} /\ bad = {}
    /\ pc = "dump" /\ ok = {} /\ day \notin stale => Matches(man[day], file[day])

\* Once the results are in, the day's manifest is the round's, if it could be
\* written, and until retention may take it.
Written ==
    pc \in {"kopia", "drill", "retention", "report"} /\ OwnKept /\ day \notin stale =>
        man[day] = [run |-> run, status |-> status, listed |-> ok,
                     kopia |-> kopia]

\* A manifest is of a past round or the running one, which says pushed only after
\* its Kopia stage.
PastPushes ==
    \A d \in Days :
        /\ man[d].run <= run
        /\ man[d].kopia = "pushed" /\ pc \in {"list", "precheck", "dump", "kopia"} =>
               man[d].run < run

IInv == /\ RoundInv /\ Untouched /\ Written /\ PastPushes
        /\ ManifestMatchesFiles /\ SnapshotIsVerifiable /\ OkPingIsListed /\ PushedIsStored

LEMMA InitIInv == Init => IInv
<1> SUFFICES ASSUME Init PROVE IInv
  OBVIOUS
<1>1. RoundInv
  BY InitRoundInv
<1>2. pc = "idle" /\ ping = "none" /\ snapshots = {}
  BY DEF Init
<1>3. ManifestMatchesFiles /\ PushedIsStored /\ PastPushes
  BY DEF Init, ManifestMatchesFiles, PushedIsStored, PastPushes, Matches, NoManifest
<1> QED BY <1>1, <1>2, <1>3 DEF IInv, Untouched, Written, SnapshotIsVerifiable,
           OkPingIsListed, Green

\* Until its first dump, a round leaves what the day's manifest lists alone.
LEMMA UntouchedStep == ASSUME IInv, [Next]_vars PROVE Untouched'
<1> TypeOK /\ Untouched /\ ManifestMatchesFiles
  BY DEF IInv, RoundInv
<1> USE DEF Untouched, disk, seen, local, Matches
<1>1. CASE NewDay \/ Begin \/ List
  BY <1>1 DEF NewDay, Begin, List
<1>2. CASE Precheck
  BY <1>2 DEF Precheck, ManifestMatchesFiles, TypeOK
<1>3. ASSUME NEW b \in Databases, Dump(b) PROVE Untouched'
  <2>1. CASE ok' = ok \cup {b}
    BY <1>3, <2>1 DEF Dump
  <2>2. CASE UNCHANGED <<ok, file>>
    BY <1>3, <2>2 DEF Dump
  <2> QED BY <1>3, <2>1, <2>2 DEF Dump
<1>4. CASE Assess \/ Kopia \/ Drill \/ EndRetention \/ Report \/ Crash
           \/ \E d \in Days : RemovePart(d)
  BY <1>4 DEF Assess, Kopia, Drill, EndRetention, RemovePart, Report, Crash
<1>5. CASE UNCHANGED vars
  BY <1>5 DEF vars
<1> QED BY <1>1, <1>2, <1>3, <1>4, <1>5 DEF Next, Round

\* A manifest that has been written is the round's; otherwise the day is stale.
LEMMA WriteManifestWrites ==
    ASSUME TypeOK, NEW s, NEW k, WriteManifest(s, k), day \notin stale'
    PROVE  man'[day] = [run |-> run, status |-> s, listed |-> ok, kopia |-> k]
  BY DEF TypeOK, WriteManifest

\* The day's manifest is the round's once the results are in.
LEMMA WrittenStep == ASSUME IInv, [Next]_vars PROVE Written'
<1> TypeOK /\ Pushed /\ Written
  BY DEF IInv, RoundInv
<1> USE DEF Written, OwnKept, disk, seen, local
<1>1. CASE NewDay \/ Begin \/ List \/ Precheck
  BY <1>1 DEF NewDay, Begin, List, Precheck
<1>2. ASSUME NEW b \in Databases, Dump(b) PROVE Written'
  BY <1>2 DEF Dump
<1>3. CASE Assess \/ Kopia
  <2>1. WriteManifest(status', kopia') /\ UNCHANGED <<run, day, ok>>
    BY <1>3 DEF Assess, Kopia, Pushed
  <2> QED BY <2>1, WriteManifestWrites
<1>4. CASE Drill
  <2>1. CASE WriteManifest(status, kopia)
    BY <1>4, <2>1, WriteManifestWrites DEF Drill
  <2>2. CASE UNCHANGED <<man, stale>>
    BY <1>4, <2>2 DEF Drill
  <2> QED BY <1>4, <2>1, <2>2 DEF Drill
<1>5. ASSUME NEW d \in Days, RemovePart(d) PROVE Written'
  <2>1. UNCHANGED <<pc, run, day, status, ok, kopia>>
    BY <1>5 DEF RemovePart
  <2>2. ASSUME KeepsOwn PROVE man'[day] = man[day] /\ (day \notin stale' => day \notin stale)
    <3>1. day \in Days /\ d # day
      BY <1>5, <2>2, OwnDayStays
    <3>2. man'[day] = man[day]
      BY <1>5, <3>1, PartRemoved
    <3> QED BY <1>5, <3>1, <3>2 DEF RemovePart
  <2>3. pc = "retention"
    BY <1>5 DEF RemovePart
  <2> QED BY <2>1, <2>2, <2>3
<1>6. CASE EndRetention \/ Report \/ Crash
  BY <1>6 DEF EndRetention, Report, Crash
<1>7. CASE UNCHANGED vars
  BY <1>7 DEF vars
<1> QED BY <1>1, <1>2, <1>3, <1>4, <1>5, <1>6, <1>7 DEF Next, Round

\* Whatever becomes of the write, a manifest matches its files or is stale.
LEMMA WriteManifestMatches ==
    ASSUME IInv, NEW s, NEW k, WriteManifest(s, k), UNCHANGED <<file, day>>, pc # "idle",
           OwnKept, pc' # "dump"
    PROVE  ManifestMatchesFiles'
<1> TypeOK /\ OwnFiles /\ ManifestMatchesFiles
  BY DEF IInv, RoundInv
<1> SUFFICES ASSUME NEW d \in Days, d \notin stale', ~(pc' = "dump" /\ d = day')
             PROVE  Matches(man'[d], file'[d])
  BY DEF ManifestMatchesFiles, Matches
<1>1. CASE d = day
  <2>1. man'[day] = [run |-> run, status |-> s, listed |-> ok, kopia |-> k]
    BY <1>1, WriteManifestWrites
  <2> QED BY <1>1, <2>1 DEF OwnFiles, Matches
<1>2. CASE d # day
  BY <1>2 DEF WriteManifest, TypeOK, ManifestMatchesFiles
<1> QED BY <1>1, <1>2

\* Checksums: only Dump changes a file, in the one directory that is exempt,
\* and it stays exempt (as stale) when the round is killed there.
LEMMA MatchStep == ASSUME IInv, [Next]_vars PROVE ManifestMatchesFiles'
<1> TypeOK /\ OwnFiles /\ Untouched /\ ManifestMatchesFiles
  BY DEF IInv, RoundInv
<1> USE DEF ManifestMatchesFiles, OwnKept, Matches, disk, seen, local
<1>1. CASE NewDay
  BY <1>1 DEF NewDay
<1>2. CASE Begin \/ List
  BY <1>2 DEF Begin, List
<1>3. CASE Precheck
  <2>1. CASE WriteManifest("failed", "none") /\ pc' = "idle"
    BY <1>3, <2>1, WriteManifestMatches DEF Precheck
  <2>2. CASE UNCHANGED <<man, stale>>
    BY <1>3, <2>2 DEF Precheck
  <2> QED BY <1>3, <2>1, <2>2 DEF Precheck
<1>4. ASSUME NEW b \in Databases, Dump(b) PROVE ManifestMatchesFiles'
  BY <1>4 DEF Dump, TypeOK
<1>5. CASE Assess
  BY <1>5, WriteManifestMatches DEF Assess
<1>6. CASE Kopia
  BY <1>6, WriteManifestMatches DEF Kopia
<1>7. CASE Drill
  <2>1. CASE WriteManifest(status, kopia)
    BY <1>7, <2>1, WriteManifestMatches DEF Drill
  <2>2. CASE UNCHANGED <<man, stale>>
    BY <1>7, <2>2 DEF Drill
  <2> QED BY <1>7, <2>1, <2>2 DEF Drill
<1>8. ASSUME NEW d \in Days, RemovePart(d) PROVE ManifestMatchesFiles'
  <2>1. UNCHANGED <<pc, day>> /\ \A e \in Days \ {d} : file'[e] = file[e] /\ man'[e] = man[e]
    BY <1>8, PartRemoved DEF RemovePart
  <2>2. \A e \in Days \ {d} : e \in stale => e \in stale'
    BY <1>8 DEF RemovePart
  <2>3. d \in stale' \/ man'[d] = NoManifest
    BY <1>8 DEF RemovePart
  <2>4. d \in stale' \/ \A b \in man'[d].listed : file'[d][b] = man'[d].run
    BY <2>3 DEF NoManifest
  <2> QED BY <2>1, <2>2, <2>4
<1>9. CASE EndRetention \/ Report
  BY <1>9 DEF EndRetention, Report
<1>10. CASE Crash
  BY <1>10 DEF Crash, Untouched
<1>11. CASE UNCHANGED vars
  BY <1>11 DEF vars
<1> QED BY <1>1, <1>2, <1>3, <1>4, <1>5, <1>6, <1>7, <1>8, <1>9, <1>10, <1>11
        DEF Next, Round

\* What Kopia takes is the round's manifest with the files it lists.
LEMMA SnapshotStep == ASSUME IInv, [Next]_vars PROVE SnapshotIsVerifiable'
<1> TypeOK /\ OwnFiles /\ Written /\ SnapshotIsVerifiable
  BY DEF IInv, RoundInv
<1> USE DEF SnapshotIsVerifiable, OwnKept, Matches, disk, seen, local
<1>1. CASE Kopia
  <2>1. snapshots' \subseteq snapshots \cup {Snapshot}
    BY <1>1, StoreAdds
  <2>2. ~Snapshot.behind => Snapshot.man.run # 0 /\ Matches(Snapshot.man, Snapshot.file)
    <3>1. /\ Snapshot.man = man[day] /\ Snapshot.file = file[day]
          /\ ~Snapshot.behind => day \notin stale
      BY DEF Snapshot
    <3>2. day \notin stale =>
              man[day] = [run |-> run, status |-> status, listed |-> ok, kopia |-> kopia]
      BY <1>1 DEF Kopia, Written
    <3>3. run # 0 /\ \A b \in ok : file[day][b] = run
      BY <1>1 DEF Kopia, OwnFiles
    <3> QED BY <3>1, <3>2, <3>3
  <2> QED BY <2>1, <2>2
<1>2. CASE ~Kopia
  <2>1. UNCHANGED snapshots
    BY <1>2 DEF Next, Round, NewDay, Begin, List, Precheck, Dump, Assess, Drill, RemovePart,
                EndRetention, Report, Crash, vars
  <2> QED BY <2>1
<1> QED BY <1>1, <1>2

\* The manifest of the last green round.
LEMMA OkListedStep == ASSUME IInv, [Next]_vars PROVE OkPingIsListed'
<1> TypeOK /\ Results /\ Written /\ OkPingIsListed
  BY DEF IInv, RoundInv
<1> USE DEF OkPingIsListed, Green, disk, seen, local
<1>1. CASE NewDay
  BY <1>1 DEF NewDay
<1>2. CASE Report
  BY <1>2 DEF Report, Results, Written, OwnKept
<1>3. CASE List \/ Precheck \/ Crash
  BY <1>3 DEF List, Precheck, Crash
<1>4. ASSUME NEW b \in Databases, Dump(b) PROVE OkPingIsListed'
  BY <1>4 DEF Dump
<1>5. CASE Begin \/ Assess \/ Kopia \/ Drill \/ EndRetention \/ \E d \in Days : RemovePart(d)
  BY <1>5 DEF Begin, Assess, Kopia, Drill, EndRetention, RemovePart
<1>6. CASE UNCHANGED vars
  BY <1>6 DEF vars
<1> QED BY <1>1, <1>2, <1>3, <1>4, <1>5, <1>6 DEF Next, Round

\* A manifest is written with the number of its round.
LEMMA PastPushesStep == ASSUME IInv, [Next]_vars PROVE PastPushes'
<1> TypeOK /\ PastPushes /\ Pushed
  BY DEF IInv, RoundInv
<1>0. run \in Nat /\ \A d \in Days : man[d].run \in Nat
  BY DEF TypeOK, Manifests, Runs
<1> USE DEF PastPushes, disk, seen, local
<1>1. ASSUME NEW s, NEW k, WriteManifest(s, k), UNCHANGED <<day, run>>,
             \/ pc' \notin {"list", "precheck", "dump", "kopia"}
             \/ k # "pushed" /\ pc \in {"list", "precheck", "dump", "kopia"}
      PROVE  PastPushes'
  <2> SUFFICES ASSUME NEW d \in Days
               PROVE  /\ man'[d].run <= run'
                      /\ man'[d].kopia = "pushed"
                           /\ pc' \in {"list", "precheck", "dump", "kopia"} => man'[d].run < run'
    OBVIOUS
  <2>1. CASE man'[d] = man[d]
    BY <1>0, <1>1, <2>1
  <2>2. CASE man'[d] # man[d]
    <3>1. man'[d] = [run |-> run, status |-> s, listed |-> ok, kopia |-> k]
      BY <1>1, <2>2 DEF WriteManifest, TypeOK
    <3> QED BY <1>0, <1>1, <3>1
  <2> QED BY <2>1, <2>2
<1>2. CASE Begin
  <2>1. run' = run + 1 /\ UNCHANGED man
    BY <1>2 DEF Begin
  <2> QED BY <1>0, <2>1
<1>3. CASE NewDay \/ List \/ EndRetention \/ Report \/ Crash
  BY <1>3 DEF NewDay, List, EndRetention, Report, Crash
<1>4. CASE Precheck
  <2>1. CASE WriteManifest("failed", "none")
    BY <1>1, <1>4, <2>1 DEF Precheck
  <2>2. CASE UNCHANGED man
    BY <1>4, <2>2 DEF Precheck
  <2> QED BY <1>4, <2>1, <2>2 DEF Precheck
<1>5. ASSUME NEW b \in Databases, Dump(b) PROVE PastPushes'
  BY <1>5 DEF Dump
<1>6. CASE Assess
  BY <1>1, <1>6 DEF Assess
<1>7. CASE Kopia
  BY <1>1, <1>7 DEF Kopia
<1>8. CASE Drill
  <2>1. CASE WriteManifest(status, kopia)
    BY <1>1, <1>8, <2>1 DEF Drill
  <2>2. CASE UNCHANGED man
    BY <1>8, <2>2 DEF Drill
  <2> QED BY <1>8, <2>1, <2>2 DEF Drill
<1>9. ASSUME NEW d \in Days, RemovePart(d) PROVE PastPushes'
  <2>1. UNCHANGED <<pc, run>> /\ pc = "retention"
    BY <1>9 DEF RemovePart
  <2>2. \A e \in Days : man'[e] \in {man[e], NoManifest}
    BY <1>9, PartRemoved
  <2> QED BY <1>0, <2>1, <2>2 DEF NoManifest
<1>10. CASE UNCHANGED vars
  BY <1>10 DEF vars
<1> QED BY <1>2, <1>3, <1>4, <1>5, <1>6, <1>7, <1>8, <1>9, <1>10 DEF Next, Round

\* What stands for a manifest that says pushed, in a set of snapshots.
StandsFor(m, S) ==
    \/ \E s \in S : s.run = m.run /\ \A b \in m.listed : s.file[b] = s.run
    \/ KopiaRetention /\ \E s \in S : s.run > m.run

\* The repository never loses all that stands for a past push: a snapshot expires
\* only when a later one is stored.
LEMMA StillStands ==
    ASSUME IInv, Kopia, NEW d \in Days, man[d].kopia = "pushed"
    PROVE  StandsFor(man[d], snapshots')
<1>1. StandsFor(man[d], snapshots)
  BY DEF IInv, PushedIsStored, StandsFor
<1>2. man[d].run < run
  BY DEF IInv, PastPushes, Kopia
<1>3. Snapshot.run > man[d].run
  BY <1>2 DEF Snapshot, IInv, RoundInv, TypeOK, Manifests, Runs
<1>4. snapshots \subseteq snapshots' \/ (KopiaRetention /\ Snapshot \in snapshots')
  BY StoreAdds
<1> QED BY <1>1, <1>3, <1>4 DEF StandsFor

\* A manifest says pushed only of a round that has pushed.
LEMMA StoredStep == ASSUME IInv, Pushed', [Next]_vars PROVE PushedIsStored'
<1> TypeOK /\ PushedIsStored
  BY DEF IInv, RoundInv
<1>0. SUFFICES ASSUME NEW d \in Days, man'[d].kopia = "pushed"
               PROVE  StandsFor(man'[d], snapshots')
  BY DEF PushedIsStored, StandsFor
<1> USE DEF disk, seen, local
<1>a. man[d].kopia = "pushed" => StandsFor(man[d], snapshots)
  BY DEF PushedIsStored, StandsFor
<1>1. ASSUME NEW s, NEW k, WriteManifest(s, k), k = "pushed" => kopia' = "pushed",
             UNCHANGED <<day, run, ok>>,
             man[d].kopia = "pushed" => StandsFor(man[d], snapshots')
      PROVE  StandsFor(man'[d], snapshots')
  <2>1. CASE man'[d] = man[d]
    BY <1>0, <1>1, <2>1
  <2>2. CASE man'[d] # man[d]
    <3>1. man'[d] = [run |-> run, status |-> s, listed |-> ok, kopia |-> k]
      BY <1>1, <2>2 DEF WriteManifest, TypeOK
    <3>2. \E t \in snapshots' : t.run = run /\ \A b \in ok : t.file[b] = run
      BY <1>0, <1>1, <3>1 DEF Pushed
    <3> QED BY <3>1, <3>2 DEF StandsFor
  <2> QED BY <2>1, <2>2
<1>2. CASE NewDay \/ Begin \/ List \/ EndRetention \/ Report \/ Crash
  BY <1>0, <1>a, <1>2 DEF NewDay, Begin, List, EndRetention, Report, Crash
<1>3. CASE Precheck
  <2>1. CASE WriteManifest("failed", "none")
    BY <1>a, <1>1, <1>3, <2>1 DEF Precheck
  <2>2. CASE UNCHANGED man
    BY <1>0, <1>a, <1>3, <2>2 DEF Precheck
  <2> QED BY <1>3, <2>1, <2>2 DEF Precheck
<1>4. ASSUME NEW b \in Databases, Dump(b) PROVE StandsFor(man'[d], snapshots')
  BY <1>0, <1>a, <1>4 DEF Dump
<1>5. CASE Assess
  BY <1>a, <1>1, <1>5 DEF Assess
<1>6. CASE Kopia
  <2>1. man[d].kopia = "pushed" => StandsFor(man[d], snapshots')
    BY <1>6, StillStands
  <2> QED BY <1>1, <1>6, <2>1 DEF Kopia
<1>7. CASE Drill
  <2>1. CASE WriteManifest(status, kopia)
    BY <1>a, <1>1, <1>7, <2>1 DEF Drill
  <2>2. CASE UNCHANGED man
    BY <1>0, <1>a, <1>7, <2>2 DEF Drill
  <2> QED BY <1>7, <2>1, <2>2 DEF Drill
<1>8. ASSUME NEW e \in Days, RemovePart(e) PROVE StandsFor(man'[d], snapshots')
  <2>1. man'[d] \in {man[d], NoManifest} /\ UNCHANGED snapshots
    BY <1>8, PartRemoved DEF RemovePart
  <2>2. man'[d] = man[d]
    BY <1>0, <2>1 DEF NoManifest
  <2> QED BY <1>0, <1>a, <2>1, <2>2
<1>9. CASE UNCHANGED vars
  BY <1>0, <1>a, <1>9 DEF vars
<1> QED BY <1>2, <1>3, <1>4, <1>5, <1>6, <1>7, <1>8, <1>9 DEF Next, Round

LEMMA IInvCorrect == Spec => []IInv
<1>1. IInv /\ RoundInv' /\ [Next]_vars => IInv'
  <2>1. RoundInv' => Pushed'
    BY DEF RoundInv
  <2> QED BY <2>1, UntouchedStep, WrittenStep, MatchStep, SnapshotStep, OkListedStep,
             PastPushesStep, StoredStep DEF IInv
<1> QED BY <1>1, InitIInv, RoundInvCorrect, PTL DEF Spec

\* Manifests agree with the files of every directory that is not being written,
\* whose last manifest was written, and that retention has not begun to delete.
THEOREM ManifestsAgree == Spec => []ManifestMatchesFiles
<1>1. IInv => ManifestMatchesFiles
  BY DEF IInv
<1> QED BY <1>1, IInvCorrect, PTL

\* Every snapshot holds the manifest of its round and the files it lists, unless
\* that manifest could not be written.
THEOREM SnapshotsVerify == Spec => []SnapshotIsVerifiable
<1>1. IInv => SnapshotIsVerifiable
  BY DEF IInv
<1> QED BY <1>1, IInvCorrect, PTL

\* What a manifest says was pushed is in the repository, or a policy has expired it
\* and a later snapshot is there.
THEOREM PushesAreStored == Spec => []PushedIsStored
<1>1. IInv => PushedIsStored
  BY DEF IInv
<1> QED BY <1>1, IInvCorrect, PTL

\* A green round has left a manifest that lists just what was planned, if it
\* could write one and retention cannot reach it.
THEOREM SuccessIsListed == Spec => []OkPingIsListed
<1>1. IInv => OkPingIsListed
  BY DEF IInv
<1> QED BY <1>1, IInvCorrect, PTL

-----------------------------------------------------------------------------
(* `verify` beside the rounds                                              *)

\* The command changes nothing that the rounds see.
THEOREM VerifyOnlyReads == VerifySpec => Spec
<1>1. VerifyInit => Init
  BY DEF VerifyInit
<1>2. [VerifyNext]_allvars => [Next]_vars
  BY DEF VerifyNext, Rounds, Reader, ReadManifest, VerifyOneFile, EndVerify, allvars
<1> QED BY <1>1, <1>2, PTL DEF VerifySpec, Spec

\* As long as nothing has disturbed it, every listed file is the manifest's.
Undisturbed == reader = "files" /\ ~disturbed => Matches(read, file[date])

LEMMA VerifyTypeStep == TypeOK' /\ VerifyTypeOK /\ [VerifyNext]_allvars => VerifyTypeOK'
<1> SUFFICES ASSUME TypeOK', VerifyTypeOK, [VerifyNext]_allvars PROVE VerifyTypeOK'
  OBVIOUS
<1> USE DEF VerifyTypeOK
<1>1. CASE Rounds
  <2>1. disturbed' \in BOOLEAN
    BY <1>1, Zenon DEF Rounds
  <2> QED BY <1>1, <2>1 DEF Rounds, command
<1>2. CASE ReadManifest
  <2>1. disturbed' \in BOOLEAN
    BY <1>2, Zenon DEF ReadManifest
  <2>2. date' \in Days /\ read' \in Manifests /\ todo' = read'.listed
    BY <1>2 DEF ReadManifest, TypeOK
  <2> QED BY <1>2, <2>1, <2>2 DEF ReadManifest
<1>3. ASSUME NEW b \in Databases, VerifyOneFile(b) PROVE VerifyTypeOK'
  BY <1>3 DEF VerifyOneFile
<1>4. CASE EndVerify
  BY <1>4 DEF EndVerify
<1>5. CASE UNCHANGED allvars
  BY <1>5 DEF allvars, command
<1> QED BY <1>1, <1>2, <1>3, <1>4, <1>5 DEF VerifyNext, Reader

\* Every reachable state of the rounds and the command has the declared shape.
THEOREM VerifyTypeCorrect == VerifySpec => []VerifyTypeOK
<1>1. VerifyInit => VerifyTypeOK
  BY InitTypeOK, Constants, EmptyRecords DEF VerifyInit, VerifyTypeOK
<1> QED BY <1>1, VerifyTypeStep, VerifyOnlyReads, TypeCorrect, PTL DEF VerifySpec

LEMMA UndisturbedStep ==
    ASSUME IInv, VerifyTypeOK, Undisturbed, [VerifyNext]_allvars
    PROVE  Undisturbed'
<1> USE DEF Undisturbed, Matches
<1>1. CASE Rounds
  BY <1>1 DEF Rounds, command
<1>2. CASE ReadManifest
  <2>1. PICK d \in dirs : /\ date' = d /\ read' = man[d]
                          /\ disturbed' = (d \in stale \/ (pc = "dump" /\ d = day /\ ok # {}))
    BY <1>2 DEF ReadManifest
  <2>2. d \in Days /\ UNCHANGED file
    BY <1>2 DEF IInv, RoundInv, TypeOK, ReadManifest, vars, disk
  <2>3. ASSUME ~disturbed' PROVE Matches(man[d], file[d])
    BY <2>1, <2>2, <2>3 DEF IInv, Untouched, ManifestMatchesFiles
  <2> QED BY <2>1, <2>2, <2>3
<1>3. ASSUME NEW b \in Databases, VerifyOneFile(b) PROVE Undisturbed'
  BY <1>3 DEF VerifyOneFile, vars, disk
<1>4. CASE EndVerify
  BY <1>4 DEF EndVerify
<1>5. CASE UNCHANGED allvars
  BY <1>5 DEF allvars, command, vars, disk
<1> QED BY <1>1, <1>2, <1>3, <1>4, <1>5 DEF VerifyNext, Reader

LEMMA AlarmStep ==
    ASSUME VerifyTypeOK, Undisturbed, AlarmsAreReal, [VerifyNext]_allvars
    PROVE  AlarmsAreReal'
<1> USE DEF AlarmsAreReal
<1>1. CASE Rounds
  BY <1>1 DEF Rounds, command
<1>2. CASE ReadManifest
  BY <1>2 DEF ReadManifest
<1>3. ASSUME NEW b \in Databases, VerifyOneFile(b) PROVE AlarmsAreReal'
  BY <1>3 DEF VerifyOneFile, VerifyTypeOK, Undisturbed, Matches
<1>4. CASE EndVerify
  BY <1>4 DEF EndVerify
<1>5. CASE UNCHANGED allvars
  BY <1>5 DEF allvars, command
<1> QED BY <1>1, <1>2, <1>3, <1>4, <1>5 DEF VerifyNext, Reader

\* `verify` fails no file of a directory that was consistent when it read the
\* manifest, unless the directory has changed under it.
THEOREM VerifyIsTrusted == VerifySpec => []AlarmsAreReal
<1>1. VerifyInit => Undisturbed /\ AlarmsAreReal
  BY DEF VerifyInit, Undisturbed, AlarmsAreReal
<1>2. IInv /\ VerifyTypeOK /\ Undisturbed /\ AlarmsAreReal /\ [VerifyNext]_allvars
        => Undisturbed' /\ AlarmsAreReal'
  BY UndisturbedStep, AlarmStep
<1> QED BY <1>1, <1>2, VerifyOnlyReads, VerifyTypeCorrect, IInvCorrect, PTL DEF VerifySpec
-----------------------------------------------------------------------------
(* Progress                                                                *)

\* How much of a round is left: its stages, and the dumps that have neither been
\* published nor failed.
Stage ==
    CASE pc = "list" -> 7 [] pc = "precheck" -> 6 [] pc = "dump" -> 5 [] pc = "kopia" -> 4
      [] pc = "drill" -> 3 [] pc = "retention" -> 2 [] pc = "report" -> 1 [] OTHER -> 0
Pending == plan \ (ok \cup bad)
Dumps ==
    IF pc = "list" THEN Cardinality(Databases)
    ELSE IF pc \in {"precheck", "dump"} THEN Cardinality(Pending) ELSE 0
Left == Stage + Dumps

\* The dumps on the disk, and the days that have a manifest.
Stored == {x \in Days \X Databases : file[x[1]][x[2]] # 0}
Listed == {d \in Days : man[d] # NoManifest}

\* A step of the deletion: it takes something from the disk and adds nothing.
Deletes ==
    /\ Stored' \subseteq Stored /\ Listed' \subseteq Listed /\ dirs' \subseteq dirs
    /\ <<Stored, Listed, dirs>>' # <<Stored, Listed, dirs>>

Deletion == \E d \in Days : RemovePart(d)

\* A step of the round, or a kill, leaves less to do, but for those of the deletion,
\* which leave less to delete; midnight changes nothing.
RoundForward ==
    pc # "idle" =>
        /\ Left \in 1..(7 + Cardinality(Databases))
        /\ Round \/ Crash => Left' < Left \/ (Deletion /\ Left' = Left /\ Deletes)
        /\ NewDay => Left' = Left

\* There are finitely many databases, and so dumps that are pending.
LEMMA SomeCount ==
    /\ Cardinality(Databases) \in Nat
    /\ \A S \in SUBSET Databases :
          IsFiniteSet(S) /\ Cardinality(S) \in Nat /\ Cardinality(S) <= Cardinality(Databases)
  BY BackupRoundAssumption, FS_Subset, FS_CardinalityType

LEMMA PendingCounts == TypeOK => Pending \in SUBSET Databases
  BY DEF TypeOK, Pending

\* One dump fewer is pending when a task has ended.
LEMMA FewerPending ==
    ASSUME TypeOK, NEW b \in Databases, Dump(b)
    PROVE  Cardinality(Pending') = Cardinality(Pending) - 1
<1>1. b \in Pending /\ Pending' = Pending \ {b}
  BY DEF Dump, Pending
<1>2. IsFiniteSet(Pending)
  BY PendingCounts, SomeCount
<1> QED BY <1>1, <1>2, FS_RemoveElement

\* In each stage the number of steps that are left, at most.
LEMMA LeftCounts ==
    TypeOK => Stage \in 0..7 /\ Dumps \in 0..Cardinality(Databases)
<1> SUFFICES ASSUME TypeOK PROVE Stage \in 0..7 /\ Dumps \in 0..Cardinality(Databases)
  OBVIOUS
<1>1. Stage \in 0..7
  BY DEF TypeOK, Stages, Stage
<1>2. Dumps \in 0..Cardinality(Databases)
  BY PendingCounts, SomeCount DEF Dumps
<1> QED BY <1>1, <1>2

\* A sum falls when one summand does and the other does not grow.
LEMMA FallingSums ==
    \A s, d, s1, d1 \in Nat : (s1 < s /\ d1 <= d) \/ (s1 = s /\ d1 < d) => s1 + d1 < s + d
  OBVIOUS

\* Apart from midnight every step of a round moves on to a later stage, with no
\* more dumps to do, or ends one of its dumps.
LEMMA RoundMoves ==
    ASSUME TypeOK, TypeOK', pc # "idle", Round \/ Crash, ~Deletion
    PROVE  (Stage' < Stage /\ Dumps' <= Dumps) \/ (Stage' = Stage /\ Dumps' < Dumps)
<1>0. Pending' \in SUBSET Databases
  BY DEF TypeOK, Pending
<1>1. /\ Cardinality(Pending) \in Nat /\ Cardinality(Pending) <= Cardinality(Databases)
      /\ Cardinality(Pending') \in Nat /\ Cardinality(Pending') <= Cardinality(Databases)
      /\ Cardinality(Databases) \in Nat
  BY <1>0, PendingCounts, SomeCount, Zenon
<1>2. pc = "list" => Dumps = Cardinality(Databases)
  BY DEF Dumps
<1>3. pc \in {"precheck", "dump"} => Dumps = Cardinality(Pending)
  BY DEF Dumps
<1>4. Dumps \in Nat /\ Cardinality(Databases) \in Nat
  BY LeftCounts, SomeCount
<1>5. pc' \in {"idle", "kopia", "drill", "retention", "report"} => Dumps' = 0
  BY DEF Dumps
<1>6. pc' \in {"precheck", "dump"} => Dumps' = Cardinality(Pending')
  BY DEF Dumps
<1>7. CASE List
  <2>1. pc = "list" /\ pc' \in {"idle", "precheck"}
    BY <1>7 DEF List
  <2>2. Dumps' <= Dumps
    BY <1>1, <1>2, <1>5, <1>6, <2>1
  <2> QED BY <2>1, <2>2 DEF Stage
<1>8. CASE Precheck
  <2>1. pc = "precheck" /\ pc' \in {"idle", "dump"} /\ Pending' = Pending
    BY <1>8 DEF Precheck, Pending
  <2>2. Dumps' <= Dumps
    BY <1>1, <1>3, <1>5, <1>6, <2>1
  <2> QED BY <2>1, <2>2 DEF Stage
<1>9. ASSUME NEW b \in Databases, Dump(b)
      PROVE  Stage' = Stage /\ Dumps' < Dumps
  <2>1. pc = "dump" /\ pc' = "dump"
    BY <1>9 DEF Dump
  <2>2. Cardinality(Pending') = Cardinality(Pending) - 1
    BY <1>9, FewerPending
  <2> QED BY <1>1, <1>3, <1>6, <2>1, <2>2 DEF Stage
<1>10. CASE Assess
  <2>1. pc = "dump" /\ pc' \in {"kopia", "drill"}
    BY <1>10 DEF Assess
  <2> QED BY <1>4, <1>5, <2>1 DEF Stage
<1>11. CASE Kopia \/ Drill \/ EndRetention \/ Report
  <2>1. \/ pc = "kopia" /\ pc' = "drill"
        \/ pc = "drill" /\ pc' = "retention"
        \/ pc = "retention" /\ pc' = "report"
        \/ pc = "report" /\ pc' = "idle"
    BY <1>11 DEF Kopia, Drill, EndRetention, Report
  <2> QED BY <1>4, <1>5, <2>1 DEF Stage
<1>12. CASE Crash
  <2>1. pc \in Stages /\ pc # "idle" /\ pc' = "idle"
    BY <1>12 DEF Crash, TypeOK
  <2> QED BY <1>4, <1>5, <2>1 DEF Stage, Stages
<1> QED BY <1>7, <1>8, <1>9, <1>10, <1>11, <1>12 DEF Round, Begin, Deletion

\* The deletion adds nothing, and each of its steps takes a dump, a manifest or a
\* directory.
LEMMA DeletionDeletes ==
    ASSUME TypeOK, NEW d \in Days, RemovePart(d)
    PROVE  Left' = Left /\ Deletes
<1>1. Left' = Left
  BY DEF RemovePart, Left, Stage, Dumps, Pending, local
<1>2. Stored' \subseteq Stored
  <2>1. \A e \in Days, b \in Databases : file'[e][b] \in {0, file[e][b]}
    BY PartRemoved
  <2> QED BY <2>1 DEF Stored
<1>3. Listed' \subseteq Listed
  <2>1. \A e \in Days : man'[e] \in {man[e], NoManifest}
    BY PartRemoved
  <2> QED BY <2>1 DEF Listed
<1>4. dirs' \subseteq dirs
  BY DEF RemovePart
<1>5. Stored' # Stored \/ Listed' # Listed \/ dirs' # dirs
  <2>1. ASSUME NEW b \in Databases, file[d][b] # 0, file' = [file EXCEPT ![d][b] = 0]
        PROVE  Stored' # Stored
    <3>1. <<d, b>> \in Stored
      BY <2>1 DEF Stored
    <3>2. file'[d][b] = 0
      BY <2>1 DEF TypeOK
    <3>3. <<d, b>> \notin Stored'
      BY <3>2 DEF Stored
    <3> QED BY <3>1, <3>3
  <2>2. ASSUME man[d] # NoManifest, man' = [man EXCEPT ![d] = NoManifest]
        PROVE  Listed' # Listed
    <3>1. d \in Listed /\ man'[d] = NoManifest
      BY <2>2 DEF Listed, TypeOK
    <3>2. d \notin Listed'
      BY <3>1 DEF Listed
    <3> QED BY <3>1, <3>2
  <2>3. ASSUME dirs' = dirs \ {d} PROVE dirs' # dirs
    BY <2>3 DEF RemovePart
  <2> QED BY <2>1, <2>2, <2>3 DEF RemovePart
<1> QED BY <1>1, <1>2, <1>3, <1>4, <1>5 DEF Deletes

\* A round that is not killed comes to its end, with its report or before it, after
\* seven steps of its own, one for each database and one for each thing that it
\* deletes at most, whatever fails in it: nothing in backup() is done over.
THEOREM RoundsGoForward == Spec => [][RoundForward]_vars
<1>1. TypeOK /\ TypeOK' /\ [Next]_vars => [RoundForward]_vars
  <2> SUFFICES ASSUME TypeOK, TypeOK', Next, pc # "idle"
               PROVE  /\ Left \in 1..(7 + Cardinality(Databases))
                      /\ Round \/ Crash => Left' < Left \/ (Deletion /\ Left' = Left /\ Deletes)
                      /\ NewDay => Left' = Left
    BY DEF RoundForward
  <2>1. Stage \in 0..7 /\ Dumps \in 0..Cardinality(Databases)
    BY LeftCounts
  <2>2. Cardinality(Databases) \in Nat
    BY SomeCount
  <2>3. Stage \in Nat /\ Dumps \in Nat
    BY <2>1, <2>2
  <2>4. Stage' \in Nat
    BY DEF Stage
  <2>5. Dumps' \in Nat
    <3>1. Pending' \in SUBSET Databases
      BY DEF TypeOK, Pending
    <3>2. Cardinality(Pending') \in Nat
      BY <3>1, SomeCount, Zenon
    <3> QED BY <2>2, <3>2 DEF Dumps
  <2>6. Stage # 0
    BY DEF TypeOK, Stages, Stage
  <2>7. Left \in 1..(7 + Cardinality(Databases))
    BY <2>1, <2>2, <2>6 DEF Left
  <2>8. ASSUME Round \/ Crash, ~Deletion PROVE Left' < Left
    <3>1. (Stage' < Stage /\ Dumps' <= Dumps) \/ (Stage' = Stage /\ Dumps' < Dumps)
      BY <2>8, RoundMoves
    <3>2. Stage' + Dumps' < Stage + Dumps
      BY <2>3, <2>4, <2>5, <3>1, FallingSums, Zenon
    <3> QED BY <3>2 DEF Left
  <2>9. ASSUME NewDay PROVE Left' = Left
    BY <2>9 DEF NewDay, Left, Stage, Dumps, Pending, local
  <2>10. ASSUME Deletion PROVE Left' = Left /\ Deletes
    BY <2>10, DeletionDeletes DEF Deletion
  <2> QED BY <2>7, <2>8, <2>9, <2>10
<1> QED BY <1>1, TypeCorrect, PTL DEF Spec
=============================================================================
