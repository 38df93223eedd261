----------------------------- MODULE BackupRound -----------------------------
(***************************************************************************)
(* Rounds of backup() in src/backup.go, one after the other, over several  *)
(* days: what they leave on the local disk (date directories with dumps    *)
(* and a manifest.json), in the Kopia repository, on Healthchecks and in   *)
(* the metrics.                                                            *)
(*                                                                         *)
(* A round runs alone (RunLock says when that holds).  Its task pool is    *)
(* ForkJoin, and one dump is AtomicDump: TaskPool and DumpAttempt          *)
(* implement them.  A dump file is the number of the round that wrote it;  *)
(* that is all a checksum in a manifest can tell apart.  The unit of       *)
(* success is the task, called a database here.  The process may be killed *)
(* at any step, and midnight may fall within a round.                      *)
(***************************************************************************)
EXTENDS Naturals, FiniteSets

CONSTANTS
    Databases,         \* what there is to dump
    MaxDay,            \* bound: days 1..MaxDay
    MaxRuns,           \* bound: number of rounds
    MaxCrashes,        \* bound: number of kills
    RetentionDays,     \* cfg.retentionDays; 0 keeps everything
    Limit,             \* the days above which RetentionDays overflows a Duration
    Skew,              \* the days by which a name, written in BACKUP_TZ, may look
                       \* older when it is read in TZ (DateDirs has the hours)
    KopiaEnabled,      \* cfg.kopiaEnabled()
    KopiaRetention     \* cfg.retentionFlags is set: the repository expires snapshots

ASSUME BackupRoundAssumption ==
    /\ IsFiniteSet(Databases)
    /\ MaxDay \in Nat \ {0}
    /\ {MaxRuns, MaxCrashes, RetentionDays, Limit, Skew} \subseteq Nat
    /\ {KopiaEnabled, KopiaRetention} \subseteq BOOLEAN

Days == 1..MaxDay
Runs == 0..MaxRuns          \* 0: no round
Statuses == {"success", "partial", "failed"}

\* A manifest: the round that wrote it, its status, the dumps it lists, and
\* what became of Kopia: not asked (nil in the code), pushed or failed.
KopiaInfo == {"none", "pushed", "failed"}
Manifests == [run : Runs, status : Statuses \cup {"none"}, listed : SUBSET Databases,
              kopia : KopiaInfo]
NoManifest == [run |-> 0, status |-> "none", listed |-> {}, kopia |-> "none"]
NoFiles == [b \in Databases |-> 0]

VARIABLES
    today,
    \* The disk: date directories, the dump files and the manifest in each.
    dirs, file, man,
    snapshots,   \* Kopia: the round of each snapshot, and what it holds
    \* Healthchecks and metrics.
    ping,        \* the last ping: "none", "start", "ok", "fail"
    lastStatus,  \* db_backup_last_status; its zero value means failed
    \* The round: where it is and its local variables.
    pc, run, day, plan, ok, bad, status,
    kopia,       \* what the collector has been told of Kopia
    last,        \* how the last round ended
    crashes,
    stale        \* history: days whose manifest is not that of the files: a killed
                 \* round had begun to replace dumps, the last manifest could not
                 \* be written, or retention has deleted a part of the directory

disk  == <<dirs, file, man>>
seen  == <<ping, lastStatus>>
local == <<run, day, plan, ok, bad, status, kopia>>
vars  == <<today, disk, snapshots, seen, pc, local, last, crashes, stale>>

Stages == {"idle", "list", "precheck", "dump", "kopia", "drill", "retention", "report"}

TypeOK ==
    /\ today \in Days /\ day \in Days
    /\ dirs \subseteq Days /\ stale \subseteq Days
    /\ file \in [Days -> [Databases -> Runs]]
    /\ man \in [Days -> Manifests]
    /\ snapshots \subseteq [run : Runs, man : Manifests, file : [Databases -> Runs], behind : BOOLEAN]
    /\ ping \in {"none", "start", "ok", "fail"}
    /\ lastStatus \in Statuses
    /\ pc \in Stages /\ run \in Runs /\ crashes \in 0..MaxCrashes
    /\ {plan, ok, bad} \subseteq SUBSET Databases
    /\ status \in Statuses /\ kopia \in KopiaInfo
    /\ last \in Statuses \cup {"none", "aborted", "killed"}

Init ==
    /\ today = 1 /\ day = 1
    /\ dirs = {} /\ stale = {}
    /\ file = [d \in Days |-> NoFiles]
    /\ man = [d \in Days |-> NoManifest]
    /\ snapshots = {}
    /\ ping = "none" /\ lastStatus = "failed"
    /\ pc = "idle" /\ run = 0 /\ crashes = 0
    /\ plan = {} /\ ok = {} /\ bad = {}
    /\ status = "success" /\ kopia = "none" /\ last = "none"

\* Midnight.
NewDay ==
    /\ today < MaxDay /\ today' = today + 1
    /\ UNCHANGED <<disk, snapshots, seen, pc, local, last, crashes, stale>>

-----------------------------------------------------------------------------
(* The round                                                               *)

\* The lock is taken; runAt, and with it the date directory, is fixed.
Begin ==
    /\ pc = "idle" /\ run < MaxRuns
    /\ pc' = "list" /\ run' = run + 1 /\ day' = today
    /\ plan' = {} /\ ok' = {} /\ bad' = {} /\ status' = "success" /\ kopia' = "none"
    /\ UNCHANGED <<today, disk, snapshots, seen, last, crashes, stale>>

\* listContainers, MkdirAll(backupBase), selectContainers and buildPlans: what is
\* planned is the business of Plans.
List ==
    /\ pc = "list"
    /\ \/ /\ pc' = "idle" /\ last' = "aborted" /\ ping' = "fail"
          /\ dirs' \in {dirs, dirs \cup {day}}
          /\ UNCHANGED plan
       \/ /\ pc' = "precheck"
          /\ dirs' = dirs \cup {day}
          /\ plan' \in SUBSET Databases
          /\ UNCHANGED <<last, ping>>
    /\ UNCHANGED <<today, file, man, snapshots, lastStatus, run, day, ok, bad,
                   status, kopia, crashes, stale>>

\* Mutant of WriteManifest: what was planned is listed.
WritePlan(s, k) ==
    /\ man' = [man EXCEPT ![day] =
                 [run |-> run, status |-> s, listed |-> plan, kopia |-> k]]
    /\ stale' = stale \ {day}

\* writeManifestBestEffort: a failure (a full disk) is logged and nothing else.
WriteManifest(s, k) ==
    \/ /\ man' = [man EXCEPT ![day] =
                    [run |-> run, status |-> s, listed |-> ok, kopia |-> k]]
       /\ stale' = stale \ {day}
    \/ UNCHANGED man /\ stale' = stale \cup {day}

\* checkFreeSpace.  Too little: a failed manifest replaces the day's manifest,
\* and the round returns before the gauges and before retention.
Precheck ==
    /\ pc = "precheck"
    /\ \/ /\ pc' = "idle" /\ last' = "failed" /\ ping' = "fail" /\ status' = "failed"
          /\ WriteManifest("failed", "none")
       \/ /\ pc' = "dump" /\ ping' = "start"
          /\ UNCHANGED <<last, status, man, stale>>
    /\ UNCHANGED <<today, dirs, file, snapshots, lastStatus, run, day, plan,
                   ok, bad, kopia, crashes>>

\* One task of the pool publishes its dump, or reports a failure.
Dump(b) ==
    /\ pc = "dump" /\ b \in plan \ (ok \cup bad)
    /\ \/ /\ ok' = ok \cup {b} /\ UNCHANGED bad
          /\ file' = [file EXCEPT ![day][b] = run]
       \/ bad' = bad \cup {b} /\ UNCHANGED <<ok, file>>
    /\ UNCHANGED <<today, dirs, man, snapshots, seen, pc, run, day, plan, status,
                   kopia, last, crashes, stale>>

\* Mutants of Verdict: nothing planned has no status; one dump is enough.
VerdictOfSome == IF ok = {} /\ bad = {} THEN "none" ELSE IF bad = {} THEN "success" ELSE "partial"
VerdictLenient == IF ok # {} \/ bad = {} THEN "success" ELSE "failed"

Verdict == IF bad = {} THEN "success" ELSE IF ok = {} THEN "failed" ELSE "partial"

\* Mutant of Assess: the manifest is written only after Kopia.
AssessOnly ==
    /\ pc = "dump" /\ plan = ok \cup bad
    /\ status' = Verdict
    /\ pc' = IF KopiaEnabled THEN "kopia" ELSE "drill"
    /\ UNCHANGED <<today, disk, snapshots, seen, run, day, plan, ok, bad, kopia,
                   last, crashes, stale>>

\* runTasks has returned: the status, and the manifest that Kopia will see.
Assess ==
    /\ pc = "dump" /\ plan = ok \cup bad
    /\ status' = Verdict
    /\ WriteManifest(Verdict, "none")
    /\ pc' = IF KopiaEnabled THEN "kopia" ELSE "drill"
    /\ UNCHANGED <<today, dirs, file, snapshots, seen, run, day, plan, ok, bad,
                   kopia, last, crashes>>

Snapshot == [run |-> run, man |-> man[day], file |-> file[day], behind |-> day \in stale]

\* `snapshot create`: with a policy that expires snapshots (ensurePolicy sets it)
\* any number of the older ones goes, never the one that was just stored.
Store == {kept \cup {Snapshot} :
              kept \in IF KopiaRetention THEN SUBSET snapshots ELSE {snapshots}}

\* What runKopia may come to: the call of kopia that fails, and whether the
\* snapshot is stored.  `snapshot create` may fail, or be interrupted, when it is.
Outcomes ==
    {o \in [fails : {"none", "repository", "policy", "snapshot"}, stored : BOOLEAN] :
        /\ o.fails = "none" => o.stored
        /\ o.fails \in {"repository", "policy"} => ~o.stored}

\* Mutants of Kopia: an error is logged and the status stays; what counts is that
\* the repository could be reached.
KopiaLogged ==
    /\ pc = "kopia"
    /\ \E o \in Outcomes :
          /\ snapshots' \in IF o.stored THEN Store ELSE {snapshots}
          /\ kopia' = IF o.fails = "none" THEN "pushed" ELSE "failed"
    /\ UNCHANGED status
    /\ WriteManifest(status, kopia')
    /\ pc' = "drill"
    /\ UNCHANGED <<today, dirs, file, seen, run, day, plan, ok, bad, last, crashes>>

KopiaReached ==
    /\ pc = "kopia"
    /\ \E o \in Outcomes :
          /\ snapshots' \in IF o.stored THEN Store ELSE {snapshots}
          /\ kopia' = IF o.fails # "repository" THEN "pushed" ELSE "failed"
          /\ status' = IF o.fails # "none" /\ status = "success" THEN "partial" ELSE status
    /\ WriteManifest(status', kopia')
    /\ pc' = "drill"
    /\ UNCHANGED <<today, dirs, file, seen, run, day, plan, ok, bad, last, crashes>>

\* runKopia, also after failures, and the manifest again.  The marker of the last
\* maintenance is left out: its errors are logged.
Kopia ==
    /\ pc = "kopia"
    /\ \E o \in Outcomes :
          /\ snapshots' \in IF o.stored THEN Store ELSE {snapshots}
          /\ kopia' = IF o.fails = "none" THEN "pushed" ELSE "failed"
          /\ status' = IF o.fails # "none" /\ status = "success" THEN "partial" ELSE status
    /\ WriteManifest(status', kopia')
    /\ pc' = "drill"
    /\ UNCHANGED <<today, dirs, file, seen, run, day, plan, ok, bad, last, crashes>>

\* runRestoreDrill: its warnings, if any, are added to the manifest.
Drill ==
    /\ pc = "drill"
    /\ (ok # {} /\ WriteManifest(status, kopia)) \/ UNCHANGED <<man, stale>>
    /\ pc' = "retention"
    /\ UNCHANGED <<today, dirs, file, snapshots, seen, local, last, crashes>>

\* Mutant of Expired: one day too many.
ExpiredEarly(d) == RetentionDays > Limit \/ d + RetentionDays <= day + Skew + 1

\* cleanOldBackups: date directories whose midnight is more than RetentionDays
\* times 24 hours before the start of the round.  The name was written in one
\* zone and is read in another, so which of the last ones expire depends on the
\* hour; and with a Duration that overflows, any directory may.
Expired(d) == RetentionDays > Limit \/ d + RetentionDays <= day + Skew

\* os.RemoveAll of one such directory takes a dump, or the manifest, or at last the
\* directory itself, in any order, and is not sure to come to its end: a file may
\* resist, and the process may be killed.
RemovePart(d) ==
    /\ pc = "retention" /\ RetentionDays > 0
    /\ d \in dirs /\ Expired(d)
    /\ \/ /\ \E b \in Databases :
                 file[d][b] # 0 /\ file' = [file EXCEPT ![d][b] = 0]
          /\ stale' = stale \cup {d} /\ UNCHANGED <<dirs, man>>
       \/ /\ man[d] # NoManifest /\ man' = [man EXCEPT ![d] = NoManifest]
          /\ stale' = stale \cup {d} /\ UNCHANGED <<dirs, file>>
       \/ /\ file[d] = NoFiles /\ man[d] = NoManifest /\ dirs' = dirs \ {d}
          /\ stale' = stale \ {d} /\ UNCHANGED <<file, man>>
    /\ UNCHANGED <<today, snapshots, seen, pc, local, last, crashes>>

\* What is left of an expired directory is left to the next round.
EndRetention ==
    /\ pc = "retention" /\ pc' = "report"
    /\ UNCHANGED <<today, disk, snapshots, seen, local, last, crashes, stale>>

\* Mutant of Report: a partial round has no heartbeat of its own.
ReportTwoWays ==
    /\ pc = "report"
    /\ lastStatus' = status
    /\ ping' = CASE status = "success" -> "ok" [] status = "failed" -> "fail" [] OTHER -> ping
    /\ pc' = "idle" /\ last' = status
    /\ UNCHANGED <<today, disk, snapshots, local, crashes, stale>>

\* The gauges, the notification, the heartbeat and the return value.  A ping is
\* sent once; what the network does to it is left out.
Report ==
    /\ pc = "report"
    /\ lastStatus' = status
    /\ ping' = IF status = "success" THEN "ok" ELSE "fail"
    /\ pc' = "idle" /\ last' = status
    /\ UNCHANGED <<today, disk, snapshots, local, crashes, stale>>

\* The process is killed and restarts: its metrics start again from nothing.
Crash ==
    /\ pc # "idle" /\ crashes < MaxCrashes
    /\ crashes' = crashes + 1
    /\ pc' = "idle" /\ last' = "killed"
    /\ lastStatus' = "failed"
    /\ stale' = IF pc = "dump" /\ ok # {} THEN stale \cup {day} ELSE stale
    /\ UNCHANGED <<today, disk, snapshots, ping, local>>

Round == Begin \/ List \/ Precheck \/ (\E b \in Databases : Dump(b)) \/ Assess \/ Kopia
         \/ Drill \/ (\E d \in Days : RemovePart(d)) \/ EndRetention \/ Report

Next == NewDay \/ Round \/ Crash

Spec == Init /\ [][Next]_vars

-----------------------------------------------------------------------------
(* Properties                                                              *)

Matches(m, f) == \A b \in m.listed : f[b] = m.run

\* Retention does not reach the directory of its own round: RetentionDays is more
\* than the zones may differ, and no more than a Duration can hold.
KeepsOwn == RetentionDays = 0 \/ (RetentionDays <= Limit /\ RetentionDays > Skew)

\* What `verify` recomputes agrees with every manifest, except in the directory
\* whose dumps are being replaced, where the manifest was left behind (the dumps
\* of a later round of the day are in place before its manifest is), and in what
\* an unfinished retention has left.
ManifestMatchesFiles ==
    \A d \in Days : d \in stale \/ (pc = "dump" /\ d = day) \/ Matches(man[d], file[d])

\* "The manifest must be on disk first: it is in backupBase and becomes part of
\* the Kopia snapshot" (src/backup.go:196): a snapshot verifies against itself,
\* unless the manifest could not be written before it was taken.
SnapshotIsVerifiable ==
    \A s \in snapshots : s.behind \/ (s.man.run # 0 /\ Matches(s.man, s.file))

Green == pc = "idle" /\ ping = "ok" /\ last = "success"

\* A green heartbeat is backed by the repository and, unless retention may reach
\* the directory of its own round, by the disk: every planned dump is there, of
\* this round, and so in a snapshot, manifests or no manifests.
OkPingIsBacked ==
    Green => /\ KeepsOwn => day \in dirs /\ \A b \in plan : file[day][b] = run
             /\ KopiaEnabled => \E s \in snapshots : \A b \in plan : s.file[b] = run

\* ... and, under the same condition, the day's manifest, if it could be written,
\* says the same: success, just these dumps, and pushed if there is a repository.
OkPingIsListed ==
    Green /\ KeepsOwn =>
        day \in stale \/ man[day] = [run |-> run, status |-> "success", listed |-> plan,
                                     kopia |-> IF KopiaEnabled THEN "pushed" ELSE "none"]

\* What a manifest says was pushed (`status` prints it, src/cli.go:221), is: the
\* dumps it lists are in the snapshot of its round, whatever later rounds have
\* made of the files, until a policy expires it, and then there is a later one.
PushedIsStored ==
    \A d \in Days : man[d].kopia = "pushed" =>
        \/ \E s \in snapshots : s.run = man[d].run /\ \A b \in man[d].listed : s.file[b] = s.run
        \/ KopiaRetention /\ \E s \in snapshots : s.run > man[d].run

\* A round that told Healthchecks it started also tells it how it ended, unless
\* it was killed.
StartIsAnswered == pc = "idle" /\ ping = "start" => last = "killed"

\* By the clock on the wall, which may be past the midnight after the round's
\* start, no directory younger than RetentionDays goes, and no dump in it but for
\* a later one, as long as RetentionDays is no more than a Duration can hold; the
\* zones may take Skew days off.
RecentDaysKept ==
    [][\A d \in dirs : RetentionDays <= Limit /\ d + RetentionDays > today + Skew =>
           d \in dirs' /\ \A b \in Databases : file'[d][b] >= file[d][b]]_vars

=============================================================================
