--------------------------- MODULE RunLock_proofs ---------------------------
(* Proofs about RunLock for every set of processes and every bound.         *)
EXTENDS RunLock, TLAPS

-----------------------------------------------------------------------------
(* Type correctness                                                         *)

LEMMA InitType == Init => TypeOK
<1> SUFFICES ASSUME Init PROVE TypeOK
  OBVIOUS
<1>1. pc \in [Procs -> Stages] /\ ran \in [Procs -> 0..MaxRun]
  BY RunLockAssumption DEF Init, Stages
<1>2. faults \in 0..MaxFaults
  BY RunLockAssumption DEF Init
<1>3. lock \in LockFiles \cup {NoFile} /\ overlong \in BOOLEAN /\ raced \in BOOLEAN
  BY Zenon DEF Init
<1> QED BY <1>1, <1>2, <1>3 DEF TypeOK

\* Every reachable state of the lock protocol has the declared shape.
THEOREM TypeCorrect == Spec => []TypeOK
<1>1. TypeOK /\ [Next]_vars => TypeOK'
  <2> SUFFICES ASSUME TypeOK, [Next]_vars PROVE TypeOK'
    OBVIOUS
  <2> USE RunLockAssumption DEF TypeOK, Stages, Ages, LockFiles
  <2>1. CASE Tick
    <3>1. ran' \in [Procs -> 0..MaxRun]
      BY <2>1 DEF Tick, Running
    <3>2. lock' \in LockFiles \cup {NoFile}
      BY <2>1 DEF Tick
    <3>3. overlong' \in BOOLEAN
      BY <2>1 DEF Tick
    <3> QED BY <2>1, <3>1, <3>2, <3>3 DEF Tick
  <2>2. ASSUME NEW p \in Procs, Open(p) PROVE TypeOK'
    BY <2>2 DEF Open, Create, GoTo
  <2>3. ASSUME NEW p \in Procs, Stat(p) PROVE TypeOK'
    BY <2>3 DEF Stat, GoTo
  <2>4. ASSUME NEW p \in Procs, RemoveStale(p) PROVE TypeOK'
    BY <2>4 DEF RemoveStale, Remove
  <2>5. ASSUME NEW p \in Procs, Recreate(p) PROVE TypeOK'
    BY <2>5 DEF Recreate, Create, GoTo
  <2>6. ASSUME NEW p \in Procs, Release(p) PROVE TypeOK'
    BY <2>6 DEF Release, Remove
  <2>7. ASSUME NEW p \in Procs, Crash(p) PROVE TypeOK'
    BY <2>7 DEF Crash, GoTo
  <2>8. CASE UNCHANGED vars
    BY <2>8 DEF vars
  <2> QED BY <2>1, <2>2, <2>3, <2>4, <2>5, <2>6, <2>7, <2>8 DEF Next, Step
<1> QED BY InitType, <1>1, PTL DEF Spec

-----------------------------------------------------------------------------
(* Mutual exclusion                                                         *)

\* As long as no run was overlong and no takeover was raced, the running
\* process owns the file and the file is as old as its run (so it is fresh) ...
RunnerHasFreshFile ==
    \A p \in Procs : Running(p) =>
        /\ lock # NoFile /\ lock.by = p
        /\ lock.age = ran[p] /\ ran[p] <= StaleAfter

\* ... a verdict "stale" is still true when it is acted upon ...
VerdictStillTrue == \A p \in Procs : Judged(p) => Stale(lock)

\* ... and a single process holds it.
OneJudge == \A p, q \in Procs : Judged(p) /\ Judged(q) => p = q

Tame == ~overlong /\ ~raced
IInv == TypeOK /\ (Tame => RunnerHasFreshFile /\ VerdictStillTrue /\ OneJudge)

\* The invariant gives the three properties of the lock.
LEMMA IInvSuffices == IInv => RunOwnsLockFile /\ ExclusiveUnlessOverlongOrRaced
  BY DEF IInv, Tame, RunnerHasFreshFile, RunOwnsLockFile,
         ExclusiveUnlessOverlongOrRaced, AtMostOneRun

\* One step of one process or of the clock keeps the three conjuncts.
LEMMA IInvStep == IInv /\ TypeOK' /\ [Next]_vars => IInv'
<1> SUFFICES ASSUME IInv, TypeOK', [Next]_vars, Tame'
             PROVE  RunnerHasFreshFile' /\ VerdictStillTrue' /\ OneJudge'
  BY DEF IInv, Tame
<1>0. Tame
  BY DEF Next, Step, Tick, Open, Stat, RemoveStale, Recreate, Release, Crash,
         Tame, IInv, TypeOK, vars
<1> TypeOK /\ RunnerHasFreshFile /\ VerdictStillTrue /\ OneJudge
  BY <1>0 DEF IInv
<1> USE RunLockAssumption DEF Running, Judged, Stale, TypeOK, LockFiles, Ages, Stages
<1>1. CASE Tick
  <2>1. RunnerHasFreshFile'
    <3> SUFFICES ASSUME NEW p \in Procs, Running(p)'
                 PROVE  /\ lock' # NoFile /\ lock'.by = p
                        /\ lock'.age = ran'[p] /\ ran'[p] <= StaleAfter
      BY DEF RunnerHasFreshFile
    <3>1. /\ Running(p)
          /\ lock # NoFile /\ lock.by = p /\ lock.age = ran[p] /\ ran[p] <= StaleAfter
      BY <1>1 DEF Tick, RunnerHasFreshFile
    <3>5. ~(\E q \in Procs : Running(q) /\ ran'[q] > StaleAfter)
      BY <1>1, Zenon DEF Tick, Tame
    <3>2. ran'[p] = ran[p] + 1 /\ ran'[p] <= StaleAfter
      BY <1>1, <3>1, <3>5 DEF Tick
    <3>3. lock' = [by |-> lock.by, age |-> lock.age + 1] /\ lock \in LockFiles
      BY <1>1, <3>1 DEF Tick
    <3>4. lock'.by = p /\ lock'.age = ran'[p] /\ lock'.age # 0
      BY <3>1, <3>2, <3>3
    <3> QED BY <3>2, <3>4 DEF NoFile
  <2>2. VerdictStillTrue' /\ OneJudge'
    BY <1>1 DEF Tick, VerdictStillTrue, OneJudge
  <2> QED BY <2>1, <2>2
<1>2. ASSUME NEW p \in Procs, Open(p)
      PROVE  RunnerHasFreshFile' /\ VerdictStillTrue' /\ OneJudge'
  BY <1>2 DEF Open, Create, GoTo, RunnerHasFreshFile, VerdictStillTrue, OneJudge, NoFile
<1>3. ASSUME NEW p \in Procs, Stat(p)
      PROVE  RunnerHasFreshFile' /\ VerdictStillTrue' /\ OneJudge'
  BY <1>3 DEF Stat, GoTo, Tame, RunnerHasFreshFile, VerdictStillTrue, OneJudge
<1>4. ASSUME NEW p \in Procs, RemoveStale(p)
      PROVE  RunnerHasFreshFile' /\ VerdictStillTrue' /\ OneJudge'
  BY <1>4 DEF RemoveStale, Remove, RunnerHasFreshFile, VerdictStillTrue, OneJudge
<1>5. ASSUME NEW p \in Procs, Recreate(p)
      PROVE  RunnerHasFreshFile' /\ VerdictStillTrue' /\ OneJudge'
  BY <1>5 DEF Recreate, Create, GoTo, RunnerHasFreshFile, VerdictStillTrue, OneJudge, NoFile
<1>6. ASSUME NEW p \in Procs, Release(p)
      PROVE  RunnerHasFreshFile' /\ VerdictStillTrue' /\ OneJudge'
  BY <1>6 DEF Release, Remove, RunnerHasFreshFile, VerdictStillTrue, OneJudge
<1>7. ASSUME NEW p \in Procs, Crash(p)
      PROVE  RunnerHasFreshFile' /\ VerdictStillTrue' /\ OneJudge'
  BY <1>7 DEF Crash, GoTo, RunnerHasFreshFile, VerdictStillTrue, OneJudge
<1>8. CASE UNCHANGED vars
  BY <1>8 DEF vars, RunnerHasFreshFile, VerdictStillTrue, OneJudge
<1> QED BY <1>1, <1>2, <1>3, <1>4, <1>5, <1>6, <1>7, <1>8 DEF Next, Step

LEMMA IInvCorrect == Spec => []IInv
<1>1. Init => IInv
  <2> SUFFICES ASSUME Init PROVE IInv
    OBVIOUS
  <2>2. \A p \in Procs : ~Running(p) /\ ~Judged(p)
    BY DEF Init, Running, Judged
  <2> QED BY InitType, <2>2 DEF IInv, RunnerHasFreshFile, VerdictStillTrue, OneJudge
<1> QED BY <1>1, IInvStep, TypeCorrect, PTL DEF Spec

\* Two runs overlap only after an overlong run or a raced takeover.
THEOREM MutualExclusion == Spec => []ExclusiveUnlessOverlongOrRaced
  BY IInvCorrect, IInvSuffices, PTL

\* Under the same proviso a run never removes another run's lock file.
THEOREM OwnLockFile == Spec => []RunOwnsLockFile
  BY IInvCorrect, IInvSuffices, PTL

-----------------------------------------------------------------------------
(* Without a kill or a failed removal                                       *)

\* Without a kill or a failed removal a lock file is that of a run that goes on, so
\* that nobody ever judges one to be stale.
NobodyJudges == \A p \in Procs : pc[p] \notin {"remove", "recreate"}
FileMeansRun == lock # NoFile => \E p \in Procs : Running(p)

Calm == faults = 0 /\ ~overlong
CalmInv == Calm => ~raced /\ RunnerHasFreshFile /\ NobodyJudges /\ FileMeansRun

LEMMA CalmStep == TypeOK /\ TypeOK' /\ CalmInv /\ [Next]_vars => CalmInv'
<1> SUFFICES ASSUME TypeOK, TypeOK', CalmInv, [Next]_vars, Calm'
             PROVE  ~raced' /\ RunnerHasFreshFile' /\ NobodyJudges' /\ FileMeansRun'
  BY DEF CalmInv
<1>0. Calm
  <2>1. faults' = faults
    <3>1. faults' # faults + 1
      BY RunLockAssumption DEF Calm, TypeOK
    <3> QED BY <3>1 DEF Next, Step, Tick, Open, Stat, RemoveStale, Recreate, Release,
                        Remove, Crash, vars
  <2>2. overlong => overlong'
    BY DEF Next, Step, Tick, Open, Stat, RemoveStale, Recreate, Release, Crash, vars
  <2> QED BY <2>1, <2>2 DEF Calm, TypeOK
<1>1. ~raced /\ RunnerHasFreshFile /\ NobodyJudges /\ FileMeansRun
  BY <1>0 DEF CalmInv
<1> USE RunLockAssumption DEF Running, Stale, TypeOK, LockFiles, Ages, Stages
<1>2. ~Stale(lock)
  BY <1>1 DEF RunnerHasFreshFile, FileMeansRun
<1>3. CASE Tick
  <2>1. Tame /\ Tame' /\ VerdictStillTrue /\ OneJudge
    BY <1>0, <1>1, <1>3 DEF Tame, Calm, Tick, VerdictStillTrue, OneJudge, Judged, NobodyJudges
  <2>2. RunnerHasFreshFile'
    BY <1>1, <1>3, <2>1, IInvStep DEF IInv, Next
  <2> QED BY <1>1, <1>3, <2>2 DEF Tick, NobodyJudges, FileMeansRun
<1>4. ASSUME NEW p \in Procs, Open(p)
      PROVE  ~raced' /\ RunnerHasFreshFile' /\ NobodyJudges' /\ FileMeansRun'
  BY <1>1, <1>4 DEF Open, Create, GoTo, RunnerHasFreshFile, NobodyJudges, FileMeansRun, NoFile
<1>5. ASSUME NEW p \in Procs, Stat(p)
      PROVE  ~raced' /\ RunnerHasFreshFile' /\ NobodyJudges' /\ FileMeansRun'
  BY <1>1, <1>2, <1>5 DEF Stat, GoTo, RunnerHasFreshFile, NobodyJudges, FileMeansRun
<1>6. ASSUME NEW p \in Procs, RemoveStale(p) \/ Recreate(p) PROVE FALSE
  BY <1>1, <1>6 DEF RemoveStale, Recreate, Judged, NobodyJudges
<1>7. ASSUME NEW p \in Procs, Release(p)
      PROVE  ~raced' /\ RunnerHasFreshFile' /\ NobodyJudges' /\ FileMeansRun'
  <2>1. lock' = NoFile /\ pc' = [pc EXCEPT ![p] = "idle"] /\ UNCHANGED raced
    BY <1>0, <1>7 DEF Release, Remove, Calm
  <2> QED BY <1>1, <1>7, <2>1 DEF Release, RunnerHasFreshFile, NobodyJudges, FileMeansRun
<1>8. ASSUME NEW p \in Procs, Crash(p) PROVE FALSE
  BY <1>0, <1>8 DEF Crash, Calm
<1>9. CASE UNCHANGED vars
  BY <1>1, <1>9 DEF vars, RunnerHasFreshFile, NobodyJudges, FileMeansRun
<1> QED BY <1>3, <1>4, <1>5, <1>6, <1>7, <1>8, <1>9 DEF Next, Step

LEMMA CalmCorrect == Spec => []CalmInv
<1>1. Init => CalmInv
  <2> SUFFICES ASSUME Init PROVE CalmInv
    OBVIOUS
  <2>1. \A p \in Procs : pc[p] = "idle"
    BY DEF Init
  <2> QED BY <2>1 DEF Init, CalmInv, RunnerHasFreshFile, NobodyJudges, FileMeansRun, Running
<1> QED BY <1>1, CalmStep, TypeCorrect, PTL DEF Spec

\* Where the documentation is right without a proviso about takeovers: as long as
\* no process has been killed, no removal of the lock file has failed (either leaves
\* a file that ages) and no run was overlong, there is one run at most.
THEOREM ExclusiveWithoutFaults ==
    Spec => [](faults = 0 /\ ~overlong => AtMostOneRun /\ ~raced)
<1>1. CalmInv => (faults = 0 /\ ~overlong => AtMostOneRun /\ ~raced)
  BY DEF CalmInv, Calm, RunnerHasFreshFile, AtMostOneRun
<1> QED BY <1>1, CalmCorrect, PTL

-----------------------------------------------------------------------------
(* Runs that are short enough                                               *)

\* The two provisos come down to one where every run ends before its lock is
\* stale: then runs overlap only after a raced takeover.
THEOREM ExclusiveIfRunsAreShort ==
    ASSUME MaxRun <= StaleAfter
    PROVE  Spec => [](~raced => AtMostOneRun)
<1>1. Init => ~overlong
  BY DEF Init
<1>2. TypeOK /\ TypeOK' /\ ~overlong /\ [Next]_vars => ~overlong'
  <2> SUFFICES ASSUME TypeOK, TypeOK', ~overlong, [Next]_vars PROVE ~overlong'
    OBVIOUS
  <2>1. CASE Tick
    <3>1. \A p \in Procs : ~(ran'[p] > StaleAfter)
      BY RunLockAssumption DEF TypeOK
    <3>2. overlong' = (overlong \/ \E p \in Procs : Running(p) /\ ran'[p] > StaleAfter)
      BY <2>1 DEF Tick
    <3> QED BY <3>1, <3>2, Zenon
  <2> QED BY <2>1 DEF Next, Step, Open, Stat, RemoveStale, Recreate, Release, Crash, vars
<1>3. ExclusiveUnlessOverlongOrRaced /\ ~overlong => (~raced => AtMostOneRun)
  BY DEF ExclusiveUnlessOverlongOrRaced
<1> QED BY <1>1, <1>2, <1>3, TypeCorrect, MutualExclusion, PTL DEF Spec
-----------------------------------------------------------------------------
(* The age of a lock file                                                   *)

\* Nothing makes a lock file younger or gives it to another process, only a run
\* that begins creates one, and with the time that passes it grows older until it
\* is stale.
OnlyAges ==
    /\ lock # NoFile /\ lock' # NoFile => lock'.by = lock.by /\ lock'.age >= lock.age
    /\ lock = NoFile /\ lock' # NoFile =>
           lock'.age = 0 /\ pc[lock'.by] # "running" /\ pc'[lock'.by] = "running"
    /\ lock # NoFile /\ Tick => lock'.age > lock.age \/ Stale(lock')

\* A lock that a killed process left behind is stale after StaleAfter + 1 ticks,
\* whatever the others do in the meantime: the part of BackupsKeepRunning that
\* needs no fairness.
THEOREM LocksOnlyAge == Spec => [][OnlyAges]_vars
<1>1. TypeOK /\ [Next]_vars => [OnlyAges]_vars
  <2> SUFFICES ASSUME TypeOK, Next PROVE OnlyAges
    OBVIOUS
  <2> USE RunLockAssumption DEF TypeOK, LockFiles, Ages
  <2>1. CASE Tick
    <3> USE DEF NoFile
    <3>1. CASE lock = NoFile \/ lock.age > StaleAfter
      BY <2>1, <3>1 DEF Tick, OnlyAges, Stale
    <3>2. CASE lock # NoFile /\ ~(lock.age > StaleAfter)
      <4>1. lock' = [by |-> lock.by, age |-> lock.age + 1] /\ lock.age \in Nat
        BY <2>1, <3>2 DEF Tick
      <4> QED BY <3>2, <4>1 DEF OnlyAges
    <3> QED BY <3>1, <3>2
  <2>2. ASSUME NEW p \in Procs, Step(p) \/ Crash(p) PROVE OnlyAges
    <3>1. lock' \in {lock, NoFile} \/ (pc[p] \in {"idle", "recreate"} /\ lock = NoFile /\ Create(p))
      BY <2>2 DEF Step, Open, Stat, RemoveStale, Recreate, Release, Remove, Crash, GoTo, Judged, Running
    <3>2. pc'[p] # pc[p]
      BY <2>2 DEF Step, Open, Stat, RemoveStale, Recreate, Release, Crash, GoTo, Create,
                  Judged, Running, Stages
    <3>3. ~Tick
      BY <3>2 DEF Tick
    <3>4. CASE lock' \in {lock, NoFile}
      BY <3>3, <3>4 DEF OnlyAges
    <3>5. CASE pc[p] \in {"idle", "recreate"} /\ lock = NoFile /\ Create(p)
      <4>1. lock'.by = p /\ lock'.age = 0 /\ pc'[p] = "running"
        BY <3>5 DEF Create
      <4> QED BY <3>3, <3>5, <4>1 DEF OnlyAges
    <3> QED BY <3>1, <3>4, <3>5
  <2> QED BY <2>1, <2>2 DEF Next
<1> QED BY <1>1, TypeCorrect, PTL DEF Spec
=============================================================================
