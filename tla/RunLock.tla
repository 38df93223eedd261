------------------------------ MODULE RunLock ------------------------------
(***************************************************************************)
(* The lock file <backupDir>/.backup.lock of src/lock.go, as backup() uses *)
(* it (src/backup.go): several processes (the scheduled daemon, a manual   *)
(* `run`, a second container on the same volume) try to become the one     *)
(* that writes the backup directory.                                       *)
(*                                                                         *)
(* The lock file is its creator and its age (time since its mtime, which   *)
(* nothing refreshes).  Every file system call of acquireRunLock is a step *)
(* of its own, so that other processes can run between two of them.  Ages  *)
(* are counted in ticks.  A removal may fail, which the code ignores       *)
(* (lock.go:47) or only logs (lock.go:63).  Other failures of the calls    *)
(* than "exists" and "does not exist" skip the run and touch nothing; they *)
(* are left out.                                                           *)
(***************************************************************************)
EXTENDS Naturals, FiniteSets

CONSTANTS
    Procs,       \* the processes that share the backup directory
    StaleAfter,  \* staleAfter: 6 hours in backup()
    MaxRun,      \* bound: no run lasts longer than this many ticks
    MaxFaults    \* bound: how many kills and failed removals there are

ASSUME RunLockAssumption ==
    /\ "nobody" \notin Procs
    /\ StaleAfter \in Nat /\ MaxRun \in Nat /\ MaxFaults \in Nat

NoFile == [by |-> "nobody", age |-> 0]

\* Lock-file records: who created the file and how old it is (saturating).
Ages == 0..(StaleAfter + 1)
LockFiles == [by : Procs, age : Ages]

VARIABLES
    lock,      \* the lock file, or NoFile
    pc,        \* where each process is in acquireRunLock / backup
    ran,       \* for how long the current run of a process has lasted
    faults,    \* number of kills and failed removals so far
    \* History variables: what the code itself cannot know.
    overlong,  \* some run has outlasted StaleAfter
    raced      \* two processes have held the verdict "stale" at once

vars == <<lock, pc, ran, faults, overlong, raced>>

Stages == {"idle", "stat", "remove", "recreate", "running"}

Running(p) == pc[p] = "running"
Judged(p)  == pc[p] = "remove"     \* has seen a stale lock, not yet removed it

\* Mutants of Stale: the limit itself counts; a takeover that never happens.
StaleAtLimit(l) == l # NoFile /\ l.age >= StaleAfter
StaleNever(l)   == l # NoFile /\ l.by = "nobody"

Stale(l)   == l # NoFile /\ l.age > StaleAfter

TypeOK ==
    /\ lock \in LockFiles \cup {NoFile}
    /\ pc \in [Procs -> Stages]
    /\ ran \in [Procs -> 0..MaxRun]
    /\ faults \in 0..MaxFaults
    /\ overlong \in BOOLEAN /\ raced \in BOOLEAN

Init ==
    /\ lock = NoFile
    /\ pc = [p \in Procs |-> "idle"]
    /\ ran = [p \in Procs |-> 0]
    /\ faults = 0
    /\ overlong = FALSE /\ raced = FALSE

\* O_CREATE|O_EXCL succeeded: the file is new and the run begins.
Create(p) ==
    /\ lock' = [by |-> p, age |-> 0]
    /\ pc' = [pc EXCEPT ![p] = "running"]
    /\ ran' = [ran EXCEPT ![p] = 0]

GoTo(p, stage) == pc' = [pc EXCEPT ![p] = stage] /\ UNCHANGED <<lock, ran>>

\* os.Remove(path): removes whatever file has that name now, if any, or fails
\* (a share that went away, an I/O error) and leaves it there.
Remove ==
    \/ lock' = NoFile /\ UNCHANGED faults
    \/ lock' = lock /\ lock # NoFile /\ faults < MaxFaults /\ faults' = faults + 1

\* A cron tick or a manual run: the first exclusive create.
Open(p) ==
    /\ pc[p] = "idle"
    /\ \/ lock = NoFile /\ Create(p)
       \/ lock # NoFile /\ GoTo(p, "stat")
    /\ UNCHANGED <<faults, overlong, raced>>

\* os.Stat and the age test.  A vanished or a fresh lock skips this run.
Stat(p) ==
    /\ pc[p] = "stat"
    /\ GoTo(p, IF Stale(lock) THEN "remove" ELSE "idle")
    /\ raced' = (raced \/ (Stale(lock) /\ \E q \in Procs \ {p} : Judged(q)))
    /\ UNCHANGED <<faults, overlong>>

\* The removal of the lock that was found stale; its error is not looked at.
RemoveStale(p) ==
    /\ Judged(p)
    /\ Remove
    /\ pc' = [pc EXCEPT ![p] = "recreate"]
    /\ UNCHANGED <<ran, overlong, raced>>

\* Mutant of Recreate: the loser cleans up after itself, too.
RecreateCleansUp(p) ==
    /\ pc[p] = "recreate"
    /\ \/ lock = NoFile /\ Create(p)
       \/ lock # NoFile /\ lock' = NoFile /\ pc' = [pc EXCEPT ![p] = "idle"] /\ UNCHANGED ran
    /\ UNCHANGED <<faults, overlong, raced>>

\* The second exclusive create; when it fails this run is skipped.
Recreate(p) ==
    /\ pc[p] = "recreate"
    /\ \/ lock = NoFile /\ Create(p)
       \/ lock # NoFile /\ GoTo(p, "idle")
    /\ UNCHANGED <<faults, overlong, raced>>

\* backup() returns and the deferred release() removes the lock path, whoever
\* created the file that is there; a failure is a line in the log.
Release(p) ==
    /\ Running(p)
    /\ Remove
    /\ pc' = [pc EXCEPT ![p] = "idle"]
    /\ UNCHANGED <<ran, overlong, raced>>

\* SIGKILL, OOM or power loss: the lock file stays, the process restarts.
Crash(p) ==
    /\ pc[p] # "idle" /\ faults < MaxFaults
    /\ faults' = faults + 1
    /\ GoTo(p, "idle")
    /\ UNCHANGED <<overlong, raced>>

\* Time passes for the lock file and for the runs alike.
Tick ==
    /\ \A p \in Procs : Running(p) => ran[p] < MaxRun
    /\ ran' = [p \in Procs |-> IF Running(p) THEN ran[p] + 1 ELSE ran[p]]
    /\ lock' = IF lock = NoFile \/ lock.age > StaleAfter THEN lock
               ELSE [by |-> lock.by, age |-> lock.age + 1]
    /\ overlong' = (overlong \/ \E p \in Procs : Running(p) /\ ran'[p] > StaleAfter)
    /\ UNCHANGED <<pc, faults, raced>>

Step(p) == Open(p) \/ Stat(p) \/ RemoveStale(p) \/ Recreate(p) \/ Release(p)

Next == Tick \/ \E p \in Procs : Step(p) \/ Crash(p)

Spec == Init /\ [][Next]_vars

\* cron fires again and again, a started call returns, a run ends, time passes.
FairSpec == Spec /\ WF_vars(Tick) /\ \A p \in Procs : WF_vars(Step(p))

-----------------------------------------------------------------------------
(* Properties                                                              *)

\* "Only one instance holds the lock at a time" (the comment on runLock,
\* src/lock.go:12, and TestAcquireRunLockFreshLockBlocks): never two runs at once.
AtMostOneRun == \A p, q \in Procs : Running(p) /\ Running(q) => p = q

\* What the code does guarantee, faults and takeovers included: two runs can
\* overlap only after a run outlasted StaleAfter (nothing refreshes the mtime)
\* or after two processes judged a lock stale before either removed it.
ExclusiveUnlessOverlongOrRaced == ~overlong /\ ~raced => AtMostOneRun

\* The file on disk is the one the running process created, under the same
\* proviso: release() then never removes somebody else's lock.
RunOwnsLockFile ==
    ~overlong /\ ~raced =>
        \A p \in Procs : Running(p) => lock # NoFile /\ lock.by = p

\* A lock left by a killed process does not stop backups for good: again and
\* again some run gets going (scheduled retries, the lock ageing, takeover).  What keeps a
\* volume from ever removing a file is left out: there are MaxFaults failures.
BackupsKeepRunning == []<>(\E p \in Procs : Running(p))
=============================================================================
