------------------------------ MODULE TaskPool ------------------------------
(***************************************************************************)
(* The worker pool of one backup round: runTasks and runTaskWithRetry of   *)
(* src/backup.go.  The main goroutine starts one goroutine per task, in    *)
(* order, while the channel sem has room; each goroutine attempts its dump *)
(* up to backupRetries + 1 times, records the outcome under mu, and then,  *)
(* in its deferred function, frees its place in sem and calls wg.Done.     *)
(*                                                                         *)
(* One attempt (writeBackup) is a start and an end whose outcome is chosen *)
(* here and explained by DumpAttempt.  The critical section under mu is    *)
(* one step.  Messages, sizes and durations are left out: the results are  *)
(* how many file entries and how many failures each task has got.          *)
(***************************************************************************)
EXTENDS Integers, FiniteSets

CONSTANTS
    NumTasks,  \* len(tasks)
    Workers,   \* cfg.workers, before it is clamped
    Retries    \* cfg.backupRetries

ASSUME TaskPoolAssumption == NumTasks \in Nat /\ Workers \in Int /\ Retries \in Int

Tasks == 1..NumTasks

\* workers, clamped to 1..len(tasks): the capacity of sem.
PoolSize ==
    LET atLeastOne == IF Workers < 1 THEN 1 ELSE Workers
    IN  IF atLeastOne > NumTasks THEN NumTasks ELSE atLeastOne

MaxAttempts == IF Retries + 1 < 1 THEN 1 ELSE Retries + 1

VARIABLES
    next,       \* the main goroutine's next task to start
    returned,   \* runTasks has returned
    cancelled,  \* ctx is done (SIGTERM, SIGINT)
    sem,        \* places taken in the channel sem
    wg,         \* the WaitGroup's counter
    pc,         \* where each task's goroutine is
    attempts,   \* attempts begun for each task
    outcome,    \* how the task's last finished attempt ended
    published,  \* tasks whose dump has been renamed to its final path
    files,      \* file entries recorded for each task
    failures    \* failures recorded for each task

vars == <<next, returned, cancelled, sem, wg, pc, attempts, outcome, published,
          files, failures>>

mainVars == <<next, returned>>
poolVars == <<sem, wg>>
taskVars == <<pc, attempts, outcome, published>>
results  == <<files, failures>>

Stages   == {"waiting", "starting", "dumping", "backoff", "done", "recorded",
             "released", "exited"}
Outcomes == {"none", "ok", "retryable", "permanent"}

\* Tasks that hold a place in sem, and tasks the WaitGroup counts.
Busy    == {t \in Tasks : pc[t] \in {"starting", "dumping", "backoff", "done", "recorded"}}
Pending == {t \in Tasks : pc[t] \notin {"waiting", "exited"}}

TypeOK ==
    /\ next \in 1..(NumTasks + 1)
    /\ returned \in BOOLEAN /\ cancelled \in BOOLEAN
    /\ sem \in Nat /\ wg \in Nat
    /\ pc \in [Tasks -> Stages]
    /\ attempts \in [Tasks -> 0..MaxAttempts]
    /\ outcome \in [Tasks -> Outcomes]
    /\ published \subseteq Tasks
    /\ files \in [Tasks -> Nat] /\ failures \in [Tasks -> Nat]

Init ==
    /\ next = 1 /\ returned = FALSE /\ cancelled = FALSE
    /\ sem = 0 /\ wg = 0
    /\ pc = [t \in Tasks |-> "waiting"]
    /\ attempts = [t \in Tasks |-> 0]
    /\ outcome = [t \in Tasks |-> "none"]
    /\ published = {}
    /\ files = [t \in Tasks |-> 0] /\ failures = [t \in Tasks |-> 0]

Move(t, from, to) == pc[t] = from /\ pc' = [pc EXCEPT ![t] = to]

-----------------------------------------------------------------------------
(* The main goroutine                                                      *)

\* Mutant of Launch: the send on sem does not block.
LaunchAtOnce ==
    /\ next <= NumTasks
    /\ next' = next + 1
    /\ sem' = sem + 1 /\ wg' = wg + 1
    /\ Move(next, "waiting", "starting")
    /\ UNCHANGED <<returned, cancelled, attempts, outcome, published, results>>

\* wg.Add(1); sem <- struct{}{}; go func: blocks while sem is full.
Launch ==
    /\ next <= NumTasks /\ sem < PoolSize
    /\ next' = next + 1
    /\ sem' = sem + 1 /\ wg' = wg + 1
    /\ Move(next, "waiting", "starting")
    /\ UNCHANGED <<returned, cancelled, attempts, outcome, published, results>>

\* Mutant of Wait: the results are read once every task has been started.
WaitForLaunches ==
    /\ next > NumTasks /\ ~returned
    /\ returned' = TRUE
    /\ UNCHANGED <<next, cancelled, poolVars, taskVars, results>>

\* wg.Wait() returns, and so does runTasks.
Wait ==
    /\ next > NumTasks /\ wg = 0 /\ ~returned
    /\ returned' = TRUE
    /\ UNCHANGED <<next, cancelled, poolVars, taskVars, results>>

-----------------------------------------------------------------------------
(* A task's goroutine                                                      *)

\* Mutants of RetryLater: one attempt more, and one less.
RetryOnceMore(t) ==
    /\ outcome' = [outcome EXCEPT ![t] = "retryable"]
    /\ pc' = [pc EXCEPT ![t] = IF attempts'[t] <= MaxAttempts THEN "backoff" ELSE "done"]
    /\ UNCHANGED published

RetryOnceLess(t) ==
    /\ outcome' = [outcome EXCEPT ![t] = "retryable"]
    /\ pc' = [pc EXCEPT ![t] = IF attempts'[t] + 1 < MaxAttempts THEN "backoff" ELSE "done"]
    /\ UNCHANGED published

\* writeBackup failed with a retryable error: sleep, or give up when this was
\* the last attempt.
RetryLater(t) ==
    /\ outcome' = [outcome EXCEPT ![t] = "retryable"]
    /\ pc' = [pc EXCEPT ![t] = IF attempts'[t] < MaxAttempts THEN "backoff" ELSE "done"]
    /\ UNCHANGED published

\* writeBackup is called; under a cancelled ctx startExec fails at once.
BeginAttempt(t) ==
    /\ pc[t] = "starting"
    /\ attempts' = [attempts EXCEPT ![t] = @ + 1]
    /\ \/ ~cancelled /\ Move(t, "starting", "dumping") /\ UNCHANGED <<outcome, published>>
       \/ cancelled /\ RetryLater(t)
    /\ UNCHANGED <<mainVars, cancelled, poolVars, results>>

\* Mutant of EndAttempt: isRetryable is not asked.
EndAttemptAnyRetry(t) ==
    /\ pc[t] = "dumping"
    /\ \/ /\ Move(t, "dumping", "done")
          /\ outcome' = [outcome EXCEPT ![t] = "ok"]
          /\ published' = published \cup {t}
       \/ /\ Move(t, "dumping", IF attempts[t] < MaxAttempts THEN "backoff" ELSE "done")
          /\ outcome' = [outcome EXCEPT ![t] = "permanent"]
          /\ UNCHANGED published
    /\ UNCHANGED <<mainVars, cancelled, poolVars, attempts, results>>

\* writeBackup returns: the file is in place, or a permanentError says that a
\* retry would not help, or the error is retryable (timeouts, broken streams).
EndAttempt(t) ==
    /\ pc[t] = "dumping"
    /\ \/ /\ Move(t, "dumping", "done")
          /\ outcome' = [outcome EXCEPT ![t] = "ok"]
          /\ published' = published \cup {t}
       \/ /\ Move(t, "dumping", "done")
          /\ outcome' = [outcome EXCEPT ![t] = "permanent"]
          /\ UNCHANGED published
       \/ UNCHANGED attempts /\ RetryLater(t)
    /\ UNCHANGED <<mainVars, cancelled, poolVars, attempts, results>>

\* time.After(retryBackoff) fires, or ctx.Done() does; when both are ready,
\* select takes either.
EndBackoff(t) ==
    /\ \/ Move(t, "backoff", "starting")
       \/ cancelled /\ Move(t, "backoff", "done")
    /\ UNCHANGED <<mainVars, cancelled, poolVars, attempts, outcome, published, results>>

AddOne(count, t) == count' = [count EXCEPT ![t] = @ + 1]

\* Mutant of Record: the file is looked for, the error is not (an older file of
\* the same day may be there).
RecordWhatIsThere(t) ==
    /\ Move(t, "done", "recorded")
    /\ \/ AddOne(files, t) /\ UNCHANGED failures
       \/ AddOne(failures, t) /\ UNCHANGED files
    /\ UNCHANGED <<mainVars, cancelled, poolVars, attempts, outcome, published>>

\* The section under mu.  A dump that succeeded is still a failure when its
\* file cannot be found any more.
Record(t) ==
    /\ Move(t, "done", "recorded")
    /\ \/ outcome[t] = "ok" /\ AddOne(files, t) /\ UNCHANGED failures
       \/ AddOne(failures, t) /\ UNCHANGED files
    /\ UNCHANGED <<mainVars, cancelled, poolVars, attempts, outcome, published>>

\* Mutant of FreePlace: the place in sem is not given back.
KeepPlace(t) ==
    /\ Move(t, "recorded", "released")
    /\ UNCHANGED <<mainVars, cancelled, poolVars, attempts, outcome, published, results>>

\* The deferred function: <-sem, then wg.Done().
FreePlace(t) ==
    /\ Move(t, "recorded", "released")
    /\ sem' = sem - 1
    /\ UNCHANGED <<mainVars, cancelled, wg, attempts, outcome, published, results>>

Done(t) ==
    /\ Move(t, "released", "exited")
    /\ wg' = wg - 1
    /\ UNCHANGED <<mainVars, cancelled, sem, attempts, outcome, published, results>>

\* A signal cancels ctx, once, at any time.
Cancel ==
    /\ ~cancelled /\ cancelled' = TRUE
    /\ UNCHANGED <<mainVars, poolVars, taskVars, results>>

Main == Launch \/ Wait
Goroutine(t) == BeginAttempt(t) \/ EndAttempt(t) \/ EndBackoff(t) \/ Record(t)
                \/ FreePlace(t) \/ Done(t)

Next == Main \/ Cancel \/ \E t \in Tasks : Goroutine(t)

Spec == Init /\ [][Next]_vars

\* Goroutines are scheduled, timers fire, and an attempt ends (BACKUP_TIMEOUT,
\* see DumpAttempt).  Nobody has to cancel.
FairSpec == Spec /\ WF_vars(Main) /\ \A t \in Tasks : WF_vars(Goroutine(t))

-----------------------------------------------------------------------------
(* Properties                                                              *)

\* Never more dumps at a time than workers (the load put on live databases):
\* sem counts exactly the goroutines between their start and their record.
WorkersBounded == sem = Cardinality(Busy) /\ sem <= PoolSize

\* A task is listed in the manifest only if its file was published this round,
\* even when an earlier attempt failed.
ListedWasPublished == \A t \in Tasks : files[t] > 0 => t \in published

\* No task is given up early: a failure without a published file was permanent,
\* or used up every attempt, or met a cancelled context.
GivesUpForAReason ==
    \A t \in Tasks : failures[t] > 0 =>
        \/ t \in published
        \/ outcome[t] = "permanent"
        \/ attempts[t] = MaxAttempts
        \/ cancelled

\* "Non-deterministic errors are retried; deterministic ones are not"
\* (src/README.md:80): no attempt follows a success or a permanent error.
NoAttemptAfterVerdict ==
    [][\A t \in Tasks : outcome[t] \in {"ok", "permanent"} => attempts'[t] = attempts[t]]_vars

\* Every task reported exactly once, and only then the call returns.
FJ == INSTANCE ForkJoin WITH Tasks <- Tasks, files <- files, failures <- failures,
                            returned <- returned
ImplementsForkJoin == FJ!Spec

\* The round gets its results: the pool neither loses a place nor waits forever.
PoolReturns == <>returned
=============================================================================
