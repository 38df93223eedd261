-------------------------- MODULE TaskPool_proofs --------------------------
(* Proofs about TaskPool for every number of tasks, workers and retries.   *)
EXTENDS TaskPool, FiniteSetTheorems, TLAPS

-----------------------------------------------------------------------------
(* The inductive invariant                                                 *)

\* TypeOK without the signs of the two counters, which Places implies.
Shape ==
    /\ next \in 1..(NumTasks + 1)
    /\ returned \in BOOLEAN /\ cancelled \in BOOLEAN
    /\ pc \in [Tasks -> Stages]
    /\ attempts \in [Tasks -> 0..MaxAttempts]
    /\ outcome \in [Tasks -> Outcomes]
    /\ published \subseteq Tasks
    /\ files \in [Tasks -> Nat] /\ failures \in [Tasks -> Nat]

\* The loop variable separates the started tasks from the others.
Launched == \A t \in Tasks : pc[t] = "waiting" <=> t >= next

\* The channel and the WaitGroup count what they are meant to count.
Places ==
    /\ sem = Cardinality(Busy) /\ sem <= PoolSize
    /\ wg = Cardinality(Pending)

Reporting == {"recorded", "released", "exited"}

ReportedOnce ==
    \A t \in Tasks : files[t] + failures[t] = IF pc[t] \in Reporting THEN 1 ELSE 0

\* A goroutine that will attempt its dump again has an attempt left.
AttemptsLeft ==
    \A t \in Tasks : pc[t] \in {"waiting", "starting", "backoff"} => attempts[t] < MaxAttempts

\* What is known of a task whose attempts are over, and of one whose are not.
Verdicts ==
    \A t \in Tasks :
        /\ outcome[t] = "ok" => t \in published
        /\ files[t] > 0 => t \in published
        /\ pc[t] \in {"waiting", "starting", "dumping", "backoff"} =>
              outcome[t] \notin {"ok", "permanent"}
        /\ pc[t] \in {"done"} \cup Reporting =>
              outcome[t] \in {"ok", "permanent"} \/ attempts[t] = MaxAttempts \/ cancelled

ReturnedLast == returned => \A t \in Tasks : pc[t] = "exited"

IInv == /\ Shape /\ Launched /\ Places /\ ReportedOnce /\ AttemptsLeft
        /\ Verdicts /\ ReturnedLast

-----------------------------------------------------------------------------
(* Facts about the constants and the counted sets                          *)

LEMMA Bounds == PoolSize \in Int /\ MaxAttempts \in Nat /\ MaxAttempts >= 1
  BY TaskPoolAssumption DEF PoolSize, MaxAttempts

\* Both counted sets are finite, so their cardinalities are naturals.
LEMMA CountedFinite ==
    \A S \in SUBSET Tasks : IsFiniteSet(S) /\ Cardinality(S) \in Nat
<1>1. IsFiniteSet(Tasks)
  BY FS_Interval, TaskPoolAssumption DEF Tasks
<1>2. ASSUME NEW S \in SUBSET Tasks PROVE IsFiniteSet(S) /\ Cardinality(S) \in Nat
  BY <1>1, <1>2, FS_Subset, FS_CardinalityType
<1> QED BY <1>2

LEMMA CountedSets == Busy \in SUBSET Tasks /\ Pending \in SUBSET Tasks
  BY DEF Busy, Pending

LEMMA InitIInv == Init => IInv
<1> SUFFICES ASSUME Init PROVE IInv
  OBVIOUS
<1> USE TaskPoolAssumption, Bounds DEF Tasks
<1>1. pc = [t \in Tasks |-> "waiting"] /\ Busy = {} /\ Pending = {}
  BY DEF Init, Busy, Pending
<1>2. Places
  <2>1. PoolSize >= 0
    BY DEF PoolSize
  <2> QED BY <1>1, <2>1, FS_EmptySet DEF Init, Places
<1>3. Shape
  <2>1. returned \in BOOLEAN /\ cancelled \in BOOLEAN
    BY Zenon DEF Init
  <2> QED BY <2>1 DEF Init, Shape, Stages, Outcomes
<1>4. Launched /\ ReportedOnce /\ AttemptsLeft
  BY DEF Init, Launched, ReportedOnce, AttemptsLeft, Reporting
<1>5. Verdicts
  BY DEF Init, Verdicts, Reporting
<1>6. ReturnedLast
  BY Zenon DEF Init, ReturnedLast
<1> QED BY <1>2, <1>3, <1>4, <1>5, <1>6 DEF IInv

-----------------------------------------------------------------------------
(* One step keeps the invariant, conjunct by conjunct                      *)

LEMMA ShapeStep == IInv /\ [Next]_vars => Shape'
<1> SUFFICES ASSUME IInv, [Next]_vars PROVE Shape'
  OBVIOUS
<1> USE TaskPoolAssumption, Bounds DEF Shape, Stages, Outcomes
<1> Shape /\ AttemptsLeft
  BY DEF IInv
<1>1. CASE Launch
  <2>1. next' \in 1..(NumTasks + 1)
    BY <1>1 DEF Launch
  <2> QED BY <1>1, <2>1 DEF Launch, Move, results
<1>2. CASE Wait
  BY <1>2 DEF Wait, taskVars, results, poolVars
<1>3. CASE Cancel
  BY <1>3 DEF Cancel, taskVars, results, poolVars, mainVars
<1>4. ASSUME NEW t \in Tasks, BeginAttempt(t) PROVE Shape'
  <2>1. attempts' \in [Tasks -> 0..MaxAttempts]
    BY <1>4 DEF BeginAttempt, AttemptsLeft
  <2> QED BY <1>4, <2>1 DEF BeginAttempt, RetryLater, Move, results, mainVars
<1>5. ASSUME NEW t \in Tasks, EndAttempt(t) PROVE Shape'
  BY <1>5 DEF EndAttempt, RetryLater, Move, results, mainVars
<1>6. ASSUME NEW t \in Tasks, EndBackoff(t) PROVE Shape'
  BY <1>6 DEF EndBackoff, Move, results, mainVars
<1>7. ASSUME NEW t \in Tasks, Record(t) PROVE Shape'
  BY <1>7 DEF Record, AddOne, Move, mainVars
<1>8. ASSUME NEW t \in Tasks, FreePlace(t) PROVE Shape'
  BY <1>8 DEF FreePlace, Move, results, mainVars
<1>9. ASSUME NEW t \in Tasks, Done(t) PROVE Shape'
  BY <1>9 DEF Done, Move, results, mainVars
<1>10. CASE UNCHANGED vars
  BY <1>10 DEF vars, results
<1> QED BY <1>1, <1>2, <1>3, <1>4, <1>5, <1>6, <1>7, <1>8, <1>9, <1>10
        DEF Next, Main, Goroutine

LEMMA LaunchedStep == IInv /\ [Next]_vars => Launched'
<1> SUFFICES ASSUME IInv, [Next]_vars PROVE Launched'
  OBVIOUS
<1> Shape /\ Launched
  BY DEF IInv
<1> USE TaskPoolAssumption DEF Launched, Shape, Stages
<1>1. CASE Launch
  BY <1>1 DEF Launch, Move, Tasks
<1>2. CASE Wait
  BY <1>2 DEF Wait, taskVars
<1>3. CASE Cancel
  BY <1>3 DEF Cancel, taskVars, mainVars
<1>4. ASSUME NEW t \in Tasks, Goroutine(t) PROVE Launched'
  BY <1>4 DEF Goroutine, BeginAttempt, EndAttempt, EndBackoff, Record, FreePlace, Done,
              RetryLater, Move, mainVars
<1>5. CASE UNCHANGED vars
  BY <1>5 DEF vars
<1> QED BY <1>1, <1>2, <1>3, <1>4, <1>5 DEF Next, Main

\* Adding or removing one task adds or takes one from a count.
LEMMA CountPlus ==
    ASSUME NEW S \in SUBSET Tasks, NEW T, NEW t, t \notin S, T = S \cup {t}
    PROVE  Cardinality(T) = Cardinality(S) + 1
  BY CountedFinite, FS_AddElement

LEMMA CountMinus ==
    ASSUME NEW S \in SUBSET Tasks, NEW T, NEW t \in S, T = S \ {t}
    PROVE  Cardinality(T) = Cardinality(S) - 1
  BY CountedFinite, FS_RemoveElement

LEMMA PlacesStep == IInv /\ [Next]_vars => Places'
<1> SUFFICES ASSUME IInv, [Next]_vars PROVE Places'
  OBVIOUS
<1> Shape /\ Launched /\ Places
  BY DEF IInv
<1> USE TaskPoolAssumption, Bounds, CountedSets, CountedFinite DEF Places
<1>1. CASE Launch
  <2>1. next \in Tasks /\ pc[next] = "waiting"
    BY <1>1 DEF Launch, Move, Shape, Tasks
  <2>2. Busy' = Busy \cup {next} /\ next \notin Busy
    BY <1>1, <2>1 DEF Launch, Move, Shape, Busy
  <2>3. Pending' = Pending \cup {next} /\ next \notin Pending
    BY <1>1, <2>1 DEF Launch, Move, Shape, Pending
  <2>4. Cardinality(Busy') = Cardinality(Busy) + 1
    BY <2>2, CountPlus
  <2>5. Cardinality(Pending') = Cardinality(Pending) + 1
    BY <2>3, CountPlus
  <2> QED BY <1>1, <2>4, <2>5 DEF Launch, PoolSize
<1>2. ASSUME NEW t \in Tasks, FreePlace(t) PROVE Places'
  <2>1. t \in Busy /\ Busy' = Busy \ {t} /\ Pending' = Pending
    BY <1>2 DEF FreePlace, Move, Shape, Busy, Pending
  <2>2. Cardinality(Busy') = Cardinality(Busy) - 1
    BY <2>1, CountMinus
  <2> QED BY <1>2, <2>1, <2>2 DEF FreePlace, PoolSize
<1>3. ASSUME NEW t \in Tasks, Done(t) PROVE Places'
  <2>1. t \in Pending /\ Pending' = Pending \ {t} /\ Busy' = Busy
    BY <1>3 DEF Done, Move, Shape, Busy, Pending
  <2>2. Cardinality(Pending') = Cardinality(Pending) - 1
    BY <2>1, CountMinus
  <2> QED BY <1>3, <2>1, <2>2 DEF Done, PoolSize
<1>4. ASSUME UNCHANGED poolVars, Busy' = Busy, Pending' = Pending PROVE Places'
  BY <1>4 DEF poolVars, PoolSize
<1>5. ASSUME UNCHANGED pc PROVE Busy' = Busy /\ Pending' = Pending
  BY <1>5 DEF Busy, Pending
<1>6. CASE Wait \/ Cancel \/ UNCHANGED vars
  BY <1>4, <1>5, <1>6 DEF Wait, Cancel, vars, taskVars, poolVars
<1>7. ASSUME NEW t \in Tasks,
             BeginAttempt(t) \/ EndAttempt(t) \/ EndBackoff(t) \/ Record(t)
      PROVE  Places'
  <2>1. Busy' = Busy /\ Pending' = Pending
    BY <1>7 DEF BeginAttempt, EndAttempt, EndBackoff, Record, RetryLater, Move, Shape,
                Busy, Pending
  <2>2. UNCHANGED poolVars
    BY <1>7 DEF BeginAttempt, EndAttempt, EndBackoff, Record
  <2> QED BY <1>4, <2>1, <2>2
<1> QED BY <1>1, <1>2, <1>3, <1>6, <1>7 DEF Next, Main, Goroutine

LEMMA ReportedOnceStep == IInv /\ [Next]_vars => ReportedOnce'
<1> SUFFICES ASSUME IInv, [Next]_vars PROVE ReportedOnce'
  OBVIOUS
<1> Shape /\ ReportedOnce
  BY DEF IInv
<1> USE DEF Shape, ReportedOnce, Reporting, Stages
<1>1. CASE Launch
  BY <1>1 DEF Launch, Move, results
<1>2. CASE Wait \/ Cancel \/ UNCHANGED vars
  BY <1>2 DEF Wait, Cancel, vars, taskVars, results
<1>3. ASSUME NEW t \in Tasks,
             BeginAttempt(t) \/ EndAttempt(t) \/ EndBackoff(t) \/ FreePlace(t) \/ Done(t)
      PROVE  ReportedOnce'
  BY <1>3 DEF BeginAttempt, EndAttempt, EndBackoff, FreePlace, Done, RetryLater, Move, results
<1>4. ASSUME NEW t \in Tasks, Record(t) PROVE ReportedOnce'
  BY <1>4 DEF Record, AddOne, Move
<1> QED BY <1>1, <1>2, <1>3, <1>4 DEF Next, Main, Goroutine

LEMMA AttemptsLeftStep == IInv /\ [Next]_vars => AttemptsLeft'
<1> SUFFICES ASSUME IInv, [Next]_vars PROVE AttemptsLeft'
  OBVIOUS
<1> Shape /\ AttemptsLeft
  BY DEF IInv
<1> USE Bounds DEF Shape, AttemptsLeft, Stages
<1>1. CASE Launch
  BY <1>1 DEF Launch, Move, MaxAttempts
<1>2. CASE Wait \/ Cancel \/ UNCHANGED vars
  BY <1>2 DEF Wait, Cancel, vars, taskVars, MaxAttempts
<1>3. ASSUME NEW t \in Tasks, BeginAttempt(t) \/ EndAttempt(t) PROVE AttemptsLeft'
  BY <1>3 DEF BeginAttempt, EndAttempt, RetryLater, Move, MaxAttempts
<1>4. ASSUME NEW t \in Tasks, EndBackoff(t) \/ Record(t) \/ FreePlace(t) \/ Done(t)
      PROVE  AttemptsLeft'
  BY <1>4 DEF EndBackoff, Record, FreePlace, Done, Move, MaxAttempts
<1> QED BY <1>1, <1>2, <1>3, <1>4 DEF Next, Main, Goroutine

LEMMA VerdictsStep == IInv /\ [Next]_vars => Verdicts'
<1> SUFFICES ASSUME IInv, [Next]_vars PROVE Verdicts'
  OBVIOUS
<1> Shape /\ Verdicts
  BY DEF IInv
<1> USE Bounds DEF Shape, Verdicts, Reporting, Stages, Outcomes
<1>1. CASE Launch
  BY <1>1 DEF Launch, Move, results, MaxAttempts
<1>2. CASE Wait \/ UNCHANGED vars
  BY <1>2 DEF Wait, vars, taskVars, results, MaxAttempts
<1>3. CASE Cancel
  BY <1>3 DEF Cancel, taskVars, results, MaxAttempts
<1>4. ASSUME NEW t \in Tasks, BeginAttempt(t) PROVE Verdicts'
  BY <1>4 DEF BeginAttempt, RetryLater, Move, results, MaxAttempts
<1>5. ASSUME NEW t \in Tasks, EndAttempt(t) PROVE Verdicts'
  BY <1>5 DEF EndAttempt, RetryLater, Move, results, MaxAttempts
<1>6. ASSUME NEW t \in Tasks, EndBackoff(t) \/ FreePlace(t) \/ Done(t) PROVE Verdicts'
  BY <1>6 DEF EndBackoff, FreePlace, Done, Move, results, MaxAttempts
<1>7. ASSUME NEW t \in Tasks, Record(t) PROVE Verdicts'
  BY <1>7 DEF Record, AddOne, Move, MaxAttempts
<1> QED BY <1>1, <1>2, <1>3, <1>4, <1>5, <1>6, <1>7 DEF Next, Main, Goroutine

\* When the WaitGroup is back to zero after the last start, nobody is left.
LEMMA ReturnedLastStep == IInv /\ [Next]_vars => ReturnedLast'
<1> SUFFICES ASSUME IInv, [Next]_vars, returned' PROVE \A t \in Tasks : pc'[t] = "exited"
  BY DEF ReturnedLast
<1> Shape /\ Launched /\ Places /\ ReturnedLast
  BY DEF IInv
<1>1. CASE Wait
  <2>1. Pending = {}
    BY <1>1, CountedSets, CountedFinite, FS_EmptySet DEF Wait, Places
  <2>2. \A t \in Tasks : pc[t] # "waiting"
    BY <1>1, TaskPoolAssumption DEF Wait, Launched, Tasks, Shape
  <2> QED BY <1>1, <2>1, <2>2 DEF Wait, Pending, taskVars
<1>2. CASE Cancel \/ UNCHANGED vars
  BY <1>2 DEF Cancel, vars, taskVars, mainVars, ReturnedLast
<1>3. CASE Launch
  <2>1. returned /\ next \in Tasks /\ pc[next] = "waiting"
    BY <1>3, TaskPoolAssumption DEF Launch, Move, Shape, Tasks
  <2> QED BY <2>1 DEF ReturnedLast
<1>4. ASSUME NEW t \in Tasks, Goroutine(t) PROVE FALSE
  <2>1. returned /\ pc[t] # "exited"
    BY <1>4 DEF Goroutine, BeginAttempt, EndAttempt, EndBackoff, Record, FreePlace, Done,
                Move, mainVars
  <2> QED BY <2>1 DEF ReturnedLast
<1> QED BY <1>1, <1>2, <1>3, <1>4 DEF Next, Main

LEMMA IInvCorrect == Spec => []IInv
<1>1. IInv /\ [Next]_vars => IInv'
  BY ShapeStep, LaunchedStep, PlacesStep, ReportedOnceStep, AttemptsLeftStep,
     VerdictsStep, ReturnedLastStep DEF IInv
<1> QED BY <1>1, InitIInv, PTL DEF Spec

-----------------------------------------------------------------------------
(* The theorems                                                            *)

LEMMA IInvSuffices ==
    IInv => TypeOK /\ WorkersBounded /\ ListedWasPublished /\ GivesUpForAReason
<1> SUFFICES ASSUME IInv PROVE TypeOK /\ WorkersBounded /\ ListedWasPublished /\ GivesUpForAReason
  OBVIOUS
<1> Shape /\ Places /\ ReportedOnce /\ Verdicts
  BY DEF IInv
<1>1. TypeOK
  BY CountedSets, CountedFinite DEF Shape, Places, TypeOK
<1>2. WorkersBounded /\ ListedWasPublished
  BY DEF Places, Verdicts, WorkersBounded, ListedWasPublished
<1>3. ASSUME NEW t \in Tasks, failures[t] > 0
      PROVE  \/ t \in published \/ outcome[t] = "permanent"
             \/ attempts[t] = MaxAttempts \/ cancelled
  <2>1. pc[t] \in Reporting
    BY <1>3 DEF Shape, ReportedOnce
  <2> QED BY <2>1, Zenon DEF Verdicts
<1> QED BY <1>1, <1>2, <1>3 DEF GivesUpForAReason

\* Every reachable state of the pool has the declared shape; in particular
\* neither sem nor the WaitGroup's counter ever goes below zero.
THEOREM TypeCorrect == Spec => []TypeOK
  BY IInvCorrect, IInvSuffices, PTL

\* Never more dumps at once than workers.
THEOREM PoolIsBounded == Spec => []WorkersBounded
  BY IInvCorrect, IInvSuffices, PTL

\* Only published files are listed.
THEOREM ListedFilesExist == Spec => []ListedWasPublished
  BY IInvCorrect, IInvSuffices, PTL

\* No task is given up without a reason.
THEOREM FailuresAreJustified == Spec => []GivesUpForAReason
  BY IInvCorrect, IInvSuffices, PTL

\* A success or a permanent error ends a task's attempts.
THEOREM VerdictEndsAttempts == Spec => NoAttemptAfterVerdict
<1>1. IInv /\ [Next]_vars =>
        [\A t \in Tasks : outcome[t] \in {"ok", "permanent"} => attempts'[t] = attempts[t]]_vars
  <2> SUFFICES ASSUME IInv, Next, NEW t \in Tasks, outcome[t] \in {"ok", "permanent"}
               PROVE  attempts'[t] = attempts[t]
    OBVIOUS
  <2>1. pc[t] # "starting"
    BY DEF IInv, Verdicts
  <2>2. ASSUME NEW u \in Tasks, BeginAttempt(u) PROVE attempts'[t] = attempts[t]
    BY <2>1, <2>2 DEF BeginAttempt, IInv, Shape
  <2>3. ASSUME NEW u \in Tasks, EndAttempt(u) PROVE attempts' = attempts
    BY <2>3 DEF EndAttempt
  <2> QED BY <2>2, <2>3 DEF Next, Main, Goroutine, Launch, Wait, Cancel, EndBackoff,
             Record, FreePlace, Done, taskVars
<1> QED BY <1>1, IInvCorrect, PTL DEF Spec, NoAttemptAfterVerdict

\* The pool implements the fork-join specification: each of its steps reports
\* one task for the first time, returns with all tasks reported, or stutters.
THEOREM PoolRefinesForkJoin == Spec => ImplementsForkJoin
<1>1. Init => FJ!Init
  BY Zenon DEF Init, FJ!Init
<1>2. IInv /\ [Next]_vars => [FJ!Next]_<<files, failures, returned>>
  <2> SUFFICES ASSUME IInv, [Next]_vars
               PROVE  [FJ!Next]_<<files, failures, returned>>
    OBVIOUS
  <2> Shape /\ ReportedOnce /\ ReturnedLast
    BY DEF IInv
  <2>1. CASE Wait
    <3>1. returned' = TRUE /\ ~returned /\ UNCHANGED results
      BY <2>1, Zenon DEF Wait
    <3>2. \A t \in Tasks : pc[t] = "exited"
      <4>1. \A t \in Tasks : pc'[t] = "exited"
        BY <3>1, ReturnedLastStep, Zenon DEF ReturnedLast
      <4> QED BY <2>1, <4>1 DEF Wait, taskVars
    <3>3. \A t \in Tasks : FJ!Reported(t)
      BY <3>2 DEF FJ!Reported, ReportedOnce, Reporting
    <3> QED BY <3>1, <3>3, Zenon DEF FJ!Next, FJ!Return, results
  <2>2. ASSUME NEW t \in Tasks, Record(t) PROVE FJ!Next
    <3>1. files[t] + failures[t] = 0 /\ pc[t] = "done"
      BY <2>2 DEF Record, Move, ReportedOnce, Reporting
    <3>2. ~returned /\ UNCHANGED returned
      BY <2>2, <3>1 DEF Record, ReturnedLast, mainVars
    <3>3. files[t] = 0 /\ failures[t] = 0
      BY <3>1 DEF Shape
    <3>4. \/ files' = [files EXCEPT ![t] = 1] /\ UNCHANGED failures
          \/ failures' = [failures EXCEPT ![t] = 1] /\ UNCHANGED files
      BY <2>2, <3>3 DEF Record, AddOne
    <3>5. FJ!Report(t)
      BY <3>1, <3>2, <3>4, Zenon DEF FJ!Report
    <3> QED BY <3>5 DEF FJ!Next
  <2>3. CASE Launch \/ Cancel \/ UNCHANGED vars
    BY <2>3 DEF Launch, Cancel, vars, mainVars, results
  <2>4. ASSUME NEW t \in Tasks,
               BeginAttempt(t) \/ EndAttempt(t) \/ EndBackoff(t) \/ FreePlace(t) \/ Done(t)
        PROVE  UNCHANGED <<files, failures, returned>>
    BY <2>4 DEF BeginAttempt, EndAttempt, EndBackoff, FreePlace, Done, mainVars, results
  <2> QED BY <2>1, <2>2, <2>3, <2>4 DEF Next, Main, Goroutine
<1> QED BY <1>1, <1>2, IInvCorrect, PTL DEF Spec, ImplementsForkJoin, FJ!Spec

-----------------------------------------------------------------------------
(* Progress                                                                 *)

\* The pool cannot wait for itself: until it has returned, the main goroutine has
\* room in sem, or nothing left to wait for, or some goroutine is on its way.
Someone == \E t \in Tasks : pc[t] \notin {"waiting", "exited"}
NeverStuck ==
    ~returned => \/ next <= NumTasks /\ sem < PoolSize
                 \/ next > NumTasks /\ wg = 0
                 \/ Someone

\* No place in sem is lost, so no launch waits for one that nobody will free.
THEOREM PoolIsNeverStuck == Spec => []NeverStuck
<1>1. IInv => NeverStuck
  <2> SUFFICES ASSUME IInv, ~Someone
               PROVE  (next <= NumTasks /\ sem < PoolSize) \/ (next > NumTasks /\ wg = 0)
    BY DEF NeverStuck
  <2>1. Busy = {} /\ Pending = {}
    BY DEF Someone, Busy, Pending
  <2>2. sem = 0 /\ wg = 0
    BY <2>1, FS_EmptySet DEF IInv, Places
  <2>3. next \in Nat /\ next >= 1
    BY TaskPoolAssumption DEF IInv, Shape
  <2>4. next <= NumTasks => PoolSize >= 1
    BY <2>3, TaskPoolAssumption DEF PoolSize
  <2> QED BY <2>2, <2>3, <2>4, Bounds, TaskPoolAssumption
<1> QED BY <1>1, IInvCorrect, PTL

\* How many stages a task has before it at most.
Stage(t) ==
    IF pc[t] = "waiting" THEN 3 ELSE IF pc[t] = "starting" THEN 2
    ELSE IF pc[t] = "dumping" THEN 4 ELSE 3
Ahead(t) ==
    IF pc[t] \in {"waiting", "starting", "dumping", "backoff"}
    THEN 3 * (MaxAttempts - attempts[t]) + Stage(t)
    ELSE IF pc[t] = "done" THEN 3 ELSE IF pc[t] = "recorded" THEN 2
    ELSE IF pc[t] = "released" THEN 1 ELSE 0

LEMMA AheadType ==
    ASSUME IInv, NEW t \in Tasks
    PROVE  Ahead(t) \in 0..(3 * MaxAttempts + 4)
<1>1. attempts[t] \in 0..MaxAttempts /\ pc[t] \in Stages
  BY DEF IInv, Shape
<1>2. 3 * (MaxAttempts - attempts[t]) \in 0..(3 * MaxAttempts)
  BY <1>1, Bounds
<1>3. Stage(t) \in 0..4
  BY DEF Stage
<1> QED BY <1>2, <1>3, Bounds DEF Ahead

\* One step of a goroutine brings its task forward.
LEMMA GoroutineAhead ==
    ASSUME IInv, NEW t \in Tasks, Goroutine(t)
    PROVE  Ahead(t)' < Ahead(t)
<1>1. attempts[t] \in 0..MaxAttempts /\ pc \in [Tasks -> Stages] /\ attempts \in [Tasks -> 0..MaxAttempts]
  BY DEF IInv, Shape
<1>2. pc[t] \in {"waiting", "starting", "backoff"} => attempts[t] < MaxAttempts
  BY DEF IInv, AttemptsLeft
<1> DEFINE n == MaxAttempts - attempts[t]
<1>3. n \in Nat /\ MaxAttempts \in Nat
  BY <1>1, Bounds
<1>4. CASE BeginAttempt(t)
  <2>1. pc[t] = "starting" /\ attempts'[t] = attempts[t] + 1 /\ pc'[t] \in {"dumping", "backoff", "done"}
    BY <1>1, <1>4 DEF BeginAttempt, Move, RetryLater
  <2>2. n >= 1 /\ MaxAttempts - attempts'[t] = n - 1
    BY <1>1, <1>2, <1>3, <2>1
  <2>3. Ahead(t) = 3 * n + 2
    BY <2>1 DEF Ahead, Stage
  <2>4. Ahead(t)' <= 3 * (n - 1) + 4 \/ Ahead(t)' = 3
    BY <1>3, <2>1, <2>2 DEF Ahead, Stage
  <2> HIDE DEF n
  <2> QED BY <1>3, <2>1, <2>2, <2>3, <2>4 DEF Ahead, Stage
<1>5. CASE EndAttempt(t)
  <2>1. pc[t] = "dumping" /\ attempts'[t] = attempts[t] /\ pc'[t] \in {"backoff", "done"}
    BY <1>1, <1>5 DEF EndAttempt, Move, RetryLater
  <2> QED BY <1>3, <2>1 DEF Ahead, Stage
<1>6. CASE EndBackoff(t)
  <2>1. pc[t] = "backoff" /\ attempts'[t] = attempts[t] /\ pc'[t] \in {"starting", "done"}
    BY <1>1, <1>6 DEF EndBackoff, Move
  <2>2. n >= 1
    BY <1>1, <1>2, <1>3, <2>1
  <2> QED BY <1>3, <2>1, <2>2 DEF Ahead, Stage
<1>7. CASE Record(t) \/ FreePlace(t) \/ Done(t)
  <2>1. \/ pc[t] = "done" /\ pc'[t] = "recorded"
        \/ pc[t] = "recorded" /\ pc'[t] = "released"
        \/ pc[t] = "released" /\ pc'[t] = "exited"
    BY <1>1, <1>7 DEF Record, FreePlace, Done, Move
  <2> QED BY <2>1 DEF Ahead
<1> QED BY <1>4, <1>5, <1>6, <1>7 DEF Goroutine

LEMMA OthersStay ==
    ASSUME IInv, NEW u \in Tasks, Goroutine(u), NEW t \in Tasks, t # u
    PROVE  pc'[t] = pc[t] /\ attempts'[t] = attempts[t]
<1>1. pc \in [Tasks -> Stages] /\ attempts \in [Tasks -> 0..MaxAttempts]
  BY DEF IInv, Shape
<1> QED BY <1>1 DEF Goroutine, BeginAttempt, EndAttempt, EndBackoff, Record, FreePlace, Done,
                    Move, RetryLater

\* No step takes a task back, and whoever moves moves forward.
Forward ==
    \A t \in Tasks : /\ Ahead(t) \in 0..(3 * MaxAttempts + 4)
                     /\ Ahead(t)' <= Ahead(t)
                     /\ pc'[t] # pc[t] => Ahead(t)' < Ahead(t)

\* A task has 3 * MaxAttempts + 4 stages at most, whatever the others do.
\* With PoolIsNeverStuck this is what PoolReturns rests on, for any number of tasks,
\* workers and retries.
THEOREM TasksGoForward == Spec => [][Forward]_vars
<1>1. IInv /\ [Next]_vars => [Forward]_vars
  <2> SUFFICES ASSUME IInv, Next, NEW t \in Tasks
               PROVE  /\ Ahead(t) \in 0..(3 * MaxAttempts + 4) /\ Ahead(t)' <= Ahead(t)
                      /\ pc'[t] # pc[t] => Ahead(t)' < Ahead(t)
    BY DEF Forward
  <2>1. Ahead(t) \in 0..(3 * MaxAttempts + 4) /\ Ahead(t) \in Int
    BY AheadType, Bounds
  <2>2. ASSUME pc'[t] = pc[t], attempts'[t] = attempts[t] PROVE Ahead(t)' = Ahead(t)
    BY <2>2 DEF Ahead, Stage
  <2>3. IInv'
    BY ShapeStep, LaunchedStep, PlacesStep, ReportedOnceStep, AttemptsLeftStep,
       VerdictsStep, ReturnedLastStep DEF IInv
  <2>4. Ahead(t)' \in Int
    <3>1. attempts'[t] \in Int
      BY <2>3, Bounds DEF IInv, Shape
    <3> QED BY <3>1, Bounds DEF Ahead, Stage
  <2>5. CASE Wait \/ Cancel
    BY <2>1, <2>2, <2>5 DEF Wait, Cancel, taskVars
  <2>6. CASE Launch
    <3>1. CASE t = next
      <4>1. pc[t] = "waiting" /\ pc'[t] = "starting" /\ attempts' = attempts
        BY <2>6, <3>1 DEF Launch, Move, IInv, Shape
      <4>2. attempts[t] \in 0..MaxAttempts
        BY DEF IInv, Shape
      <4>3. Ahead(t)' < Ahead(t)
        BY <4>1, <4>2, Bounds DEF Ahead, Stage
      <4> QED BY <2>1, <2>4, <4>3
    <3>2. CASE t # next
      <4>1. pc'[t] = pc[t] /\ attempts'[t] = attempts[t]
        BY <2>6, <3>2 DEF Launch, Move, IInv, Shape
      <4> QED BY <2>1, <2>2, <4>1
    <3> QED BY <3>1, <3>2
  <2>7. ASSUME NEW u \in Tasks, Goroutine(u)
        PROVE  Ahead(t)' <= Ahead(t) /\ (pc'[t] # pc[t] => Ahead(t)' < Ahead(t))
    <3>1. CASE t = u
      BY <2>1, <2>4, <2>7, <3>1, GoroutineAhead
    <3>2. CASE t # u
      BY <2>1, <2>2, <2>7, <3>2, OthersStay
    <3> QED BY <3>1, <3>2
  <2> QED BY <2>1, <2>5, <2>6, <2>7 DEF Next, Main
<1> QED BY <1>1, IInvCorrect, PTL DEF Spec
=============================================================================
