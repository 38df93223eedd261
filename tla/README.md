# TLA+ models of docker-db-auto-backup

A Go program that runs beside other containers, dumps every database it
recognises through the Docker API, writes one directory per date with a
`manifest.json`, optionally pushes it to a Kopia repository, tries a restore,
deletes old directories and reports to Healthchecks, a metrics page and
notification URLs. This directory holds TLA+ modules of its core logic, the TLC
runs that check them and the proofs that TLAPS checks. Line numbers refer to the
files under `src/`.

Run from this directory: `tlc -config RunLock.cfg MCRunLock.tla`,
`tlapm RunLock_proofs.tla`. `PROJECT.json` lists every run, the mutants that each
property rejects, and the lines that each definition stands for.

## The system

| Part | State | Operations | Hard behaviour |
|---|---|---|---|
| Scheduler (`main.go`) | next cron time | `runScheduled` | rounds longer than the period, SIGTERM |
| Run lock (`lock.go`) | `.backup.lock` | `acquireRunLock`, `release` | several processes, kills, takeover of stale locks |
| Round (`backup.go` `backup`) | its locals, `collector` | list, precheck, dump, manifest, Kopia, drill, retention, report | order of the stages, early returns, kills, reruns on one day |
| Plans (`backup.go`, `image.go`, `patterns.go`, `docker.go` caches) | caches of the docker client | `selectContainers`, `buildPlans`, `containerImageNames` | silent skips, stale caches |
| Worker pool (`runTasks`, `runTaskWithRetry`) | `sem`, `wg`, results under `mu` | start, attempt, back off, record | interleavings, retries, cancellation |
| One dump (`writeBackup`, `docker.go` exec, `validate.go`) | temporary file, final file, exec, stream | create, copy, inspect, check, rename | hung or cut streams, timeouts, kills |
| Manifest and baseline (`manifest.go`) | `manifest.json` per date | write, find the previous, detect anomalies | which manifest is the baseline; reruns |
| Kopia (`kopia.go`) | repository, maintenance marker | connect, policy, snapshot, maintenance | failure after the snapshot |
| Restore drill (`restore.go`) | a temporary container | create, wait, restore, remove | timeouts, leftovers |
| Retention (`cleanOldBackups`) | date directories | delete | time zones, removals that fail, overflow |
| Space precheck (`disk.go`) | free space | `checkFreeSpace`, `cleanupStaleTempFiles` | a full disk |
| Heartbeat, metrics, notification (`notify.go`, `log.go`) | last ping, gauges | ping, set | stale or wrong reports |
| Commands (`cli.go`) | none | `run`, `list`, `verify`, `status` | verify beside a running round |
| Redis dump (`redisBGSaveScript` in `provider.go`) | its shell variables, the server's saves | ask, poll, examine, print | a save that was running already, lost answers, seconds |
| Other providers, configuration (`config.go`), compression, reports | none | pure functions, shell commands | parsers |

How they interact: the scheduler (or `run`) calls `backup()`. It takes the lock,
lists containers, builds plans, checks the space against the previous manifest,
and hands the tasks to the worker pool. Each worker calls `writeBackup`. The
results go into the collector, from there into the manifest, which Kopia then
takes together with the dumps. The last stages read what the earlier ones left:
the drill reads dumps, retention reads directory names, the report reads the
collector. Processes that share the backup directory see each other only through
files: the lock, `.tmp/`, the date directories and their manifests.

What makes each part correct:

* lock: one round at a time, and no lock that nobody can get;
* plans: what can be recognised is planned, whatever has failed before, what is
  skipped in spite of a clue is reported, and every dump has a file of its own;
* pool: every task reported once, never more workers than allowed, no retry too
  few or too many, and the call returns;
* dump: a whole file or none at the final path, an end to every attempt, nothing
  left behind;
* Redis: what is printed is no older than the request, what is refused is refused
  for a reason, and the script ends;
* round: manifest, files, snapshots and reports agree, after kills and reruns,
  too;
* `verify`: an alarm is about the dumps and not about a round that is at work;
* the days: nothing young is deleted, nothing old is kept, the space estimate is
  worth something, a container that drops out is reported, and rounds are not
  refused for ever;
* drill: its container is removed, a pass means something, and so does a warning.

`PROJECT.json` lists the hazards of this code line by line, with the properties
that cover each, and where a property covers a hazard only in part, what remains.

## Modules

    RunLock                    RunLock_proofs        MCRunLock
    Plans                      Plans_proofs          MCPlans
    ForkJoin    <- TaskPool    TaskPool_proofs       MCTaskPool
    AtomicDump  <- DumpAttempt DumpAttempt_proofs    MCDumpAttempt
    BackupRound <- Verify      BackupRound_proofs    MCBackupRound
    DateDirs                   DateDirs_proofs       MCDateDirs
    RedisSnapshot              RedisSnapshot_proofs  MCRedisSnapshot
    RestoreDrill               RestoreDrill_proofs   MCRestoreDrill

`A <- B`: B is shown to implement A; for the first two by `INSTANCE ... WITH` and a
refinement that TLC checks and TLAPS proves, for the third by a proof that
`VerifySpec` implies `Spec`. `BackupRound` uses what the abstract modules
promise: its rounds run alone (`RunLock`), all its tasks are reported before
`Assess` (`ForkJoin`), and a dump appears at once or not at all (`AtomicDump`).
`DateDirs` has the same stages as `BackupRound` over many more days and with
sizes, and without what a day's rerun, Kopia and the reports add; `RestoreDrill`
is the inside of the stage `Drill`, `RedisSnapshot` the inside of one dump program.

**RunLock.** The lock file is its creator and its age; each system call of
`acquireRunLock` is an action (`Open`, `Stat`, `RemoveStale`, `Recreate`), as are
`Release`, `Crash` and `Tick`. A removal (`Remove`) may fail, which leaves a file
that ages. Two history variables, `overlong` and `raced`, say whether the two
things have happened that the code cannot rule out.

**Plans.** `selectContainers` is `Selected`, one turn of the loop of `buildPlans`
is `Plan` with an outcome for each way it can end (`Unreadable`, `Unrecognised`,
`PlanSingle`, `PlanFull`), `collectTasks` is `CollectTasks`. A container is a
record (`Kinds`): which lists match it, its image names by source, its label, what
its environment says and where its password is. `Provider` is what label, names
and environment make of it, `CanBuild` whether that provider gets a command: for
SQLite the declared one or, from the cached names, one that is called like the
image. The calls to Docker that fail in a turn are a choice, and so is a cut of
the stream the environment is read from, which passes for an answer. `names` and
`env` are `nameCache` and `envCache`, which outlive rounds; `Recreate` gives a
container a new id. Turns are taken in any order, since none reads what another
one wrote. `troubled` is history: the containers for which some call of the round
has failed.

**TaskPool.** `Launch` and `Wait` are the main goroutine, the other actions a
task's goroutine; `sem` and `wg` are counters. The outcome of an attempt is a
choice, which `DumpAttempt` explains.

**DumpAttempt.** `writeBackup` from `os.CreateTemp` to `os.Rename`. The dump
program, the stream and the daemon are external actions (`DumpWrites`,
`DumpExits`, `ConnectionDrops`). A file's content is `empty`, `part`, `marked` (a
part that validation takes for the whole) or `whole`; `marker`, chosen at the
start, is where the format has its end marker: once at the end, also before it
(`pg_dumpall` after each database, the byte 0xFF in an rdb file), or nowhere (db,
zip). The settings are constants. `CloseOnCancel` is the `AfterFunc` goroutine.
Any removal of a temporary file may fail: `refused` and `litter` keep account of
what is left, `mishap` of what went wrong in an attempt with the stream, the
compressor or the file.

**BackupRound.** The stages of `backup()`, in their order, with every early
return: `Begin`, `List`, `Precheck`, `Dump`, `Assess`, `Kopia`, `Drill`,
`RemovePart` and `EndRetention`, `Report`; and `Crash` and midnight (`NewDay`)
between any two. A dump is the number of the round that wrote it, so that a
manifest (round, status, listed dumps, what became of Kopia) agrees with a file or
does not. `Outcomes` are the ways of `runKopia`: which call fails, and whether a
snapshot is stored, which may be so although `snapshot create` reports an error.
`Store` lets the policy that `ensurePolicy` sets expire any number of older
snapshots. Retention takes the expired directories apart dump by dump, in any
order, and may stop at any point, as `os.RemoveAll` does on an error. Names are
written in one zone and read in another: `Expired` may reach `Skew` days further,
and any day if the days kept overflow (`Limit`); `KeepsOwn` says when the round's
own directory is out of its reach. Writing a manifest may always fail, as in the
code, which only logs it. `stale` is history: days whose manifest is behind
because a killed round had begun to replace dumps, because the last manifest could
not be written, or because retention has deleted a part.

**Verify.** `cmdVerify`, a process without a lock beside the rounds:
`ReadManifest`, then one `VerifyOneFile` for each listed file, then `EndVerify`,
with any steps of rounds in between, those of retention among them. `disturbed` is
history: the manifest was behind when it was read, or files of the directory have
changed since.

**DateDirs.** What stays on the disk from day to day: directories, dumps with
their sizes, manifests with sizes and warnings. Time is relative, so that the
behaviours need no last day: a directory's number is how many days back its date
is in `BACKUP_TZ`, `hour` the time of day there, `lag` the time since the round's
`runAt`; everything `MaxBack` days old and older is merged. `Begin` and `Refuse`
are the two outcomes of `checkFreeSpace` (an unreadable free space skips the
check, `checked`), `Previous` is `findPreviousManifest`, `Misread` what it may
come to when a manifest, or the directory, cannot be read for a moment (an older
manifest, or none; `blind` records it), `Required` the estimate, `Anomalous` the
drift test of `detectAnomalies`. `Clean` is `cleanOldBackups`; a fault in it
leaves directories, some without dumps or without their manifest. The names of
directories are read in `TZ`: `shift` is the difference. `Wrap` is `int64`, with
`Limit` in place of 106751 days. Kills and failing calls come from one bounded
supply (`Fault`). `torn` is history: a directory has outlived the manifest of a
younger one because its removal failed.

**RedisSnapshot.** The shell script line by line (`Before`, `Bgsave`, `Sleep`,
`Poll`, `Info`, `Cat`), and the server it talks to: writes, save points and other
clients' saves, the rewriting of the append-only file (which also refuses a
BGSAVE), forks and saves that fail. Data is the number of writes it holds. INFO
tells whole seconds. Any call of `redis-cli` may fail: INFO is then empty text to
the script, BGSAVE is not missed, and for the path that `CONFIG GET` would have
told there is `/data/dump.rdb`, an older file perhaps, or none.

**RestoreDrill.** The loop over the plans and `drillRestore`, one action for each
call: `ImageRef`, `ContainerEnv`, `Create`, `Start`, the turns of `waitForReady`,
`Copy`, the import and the query (`StartExec`, `Collect`), and the deferred
`Remove`. Each call may fail; `Create` may also take effect and lose its reply.
`ended` is `drillCtx`, which `execCollect` does not look at while it reads. The
server of the image comes and goes (`Server`), the stream may be cut, the process
may be killed. There is one name for the drill's container: the pid in it is that
of the entrypoint. Constants say what the fresh server has in common with the old
one: the root's password (`Secret`), the user of the commands (`LetIn`), its
rights (`MayImport`), a database of its name (`HasDatabase`); if the environment
could not be read, that is a choice (`Answers`). `leaked`, `trouble` and `cut` are
history, the reasons the properties accept.

Operators whose comment begins with *Mutant* are faulty variants of the
definition that follows them. No specification uses them: each shows, put in
place of the original, that some property would notice the fault.

## Runs

| Run | Bounds | Shows |
|---|---|---|
| `RunLock.cfg` | 3 processes, limit 2 ticks, runs up to 3, 2 kills or failed removals | runs overlap, and a run loses its lock file, only after an overlong run or a takeover race; backups go on after kills |
| `RunLock_race.cfg` (violated) | 2 processes, short runs, 1 kill or failed removal | the takeover race |
| `Plans.cfg` | 2 containers of 11 kinds, 4 databases, 2 rounds, any call may fail, streams may be cut, single-database mode | old failures hide nothing identified, clues are reported, tasks do not share files |
| `Plans_silent.cfg` (violated) | 1 container, 2 rounds | a database skipped in silence |
| `TaskPool.cfg` | 3 tasks, 2 workers, 1 retry | limit, reports, retries, refinement of `ForkJoin`, and `runTasks` returns |
| `DumpAttempt.cfg` | every format, compressed, validated, early end of stream, 3 attempts, 1 kill | whole or nothing where a cut can be told, refinement of `AtomicDump`, clean-up, what is permanent, and hung dumps end |
| `BackupRound.cfg` | 2 databases, 2 days, 2 rounds, 1 kill, 2 days kept with zones a day apart, Kopia with a policy that expires, `verify` | manifests, files, snapshots, heartbeat and retention agree; `verify` raises no false alarm |
| `DateDirs.cfg` | 2 containers, dumps of 0 or 1, capacity 4 or 5, days of 2 units, 1 day kept or 3 (which overflow), BACKUP_TZ half a day west, 3 days back, 1 fault (kill, unreadable manifest or free space, failed removal or write) | ages of what is deleted and kept, estimate, warnings, and rounds go on |
| `DateDirs_full.cfg` (violated) | 1 container, dumps of 0 to 2, capacity 4, no fault | a full disk is never relieved |
| `RedisSnapshot.cfg` | 2 polls, 2 writes, 2 seconds beside the script's own, any call of `redis-cli` may fail | what is printed is fresh, what is refused has a reason, the script ends |
| `RedisSnapshot_stale.cfg` (violated) | the same, no answer lost | a running save is taken for the script's own |
| `RestoreDrill.cfg` | MySQL, Postgres, and Postgres without a database of the user's name; 2 pings; images that have the directory | clean-up, what a pass and a warning mean, the drill ends |

The bounds are enough for the cases that matter: three processes are the fewest in
which a released lock lets in a third; two rounds are the fewest in which a cached
failure is read; three tasks on two workers are the fewest in which one waits;
three attempts give a retry of a retry and a kill in between; two databases are
the fewest for a partial round, two rounds over two days give a rerun after a
kill, and a deletion on the second day, for which the two days kept and the skew
of one make the day before expire. In `DateDirs` three days back are a baseline, a
gap and a day to be deleted; since time is relative the run covers behaviours of
any length. Two polls and two writes allow a save before, one during and one after
the script's own. Three plans give a drill after a failed one and one after a
leftover. The theorems below do not depend on any of these.

Deadlock is not checked where the bounds, or the end of the pool, of the attempts
or of the script, end all behaviour (`Plans`, `TaskPool`, `DumpAttempt`,
`BackupRound`, `RedisSnapshot`); for the pool, the dump and the script, the liveness
properties say that nothing waits for ever before. It is checked for the others.

Type invariants are run where a fault of the code could break them without any
other property noticing (`TaskPool`, `BackupRound`); all eight are proved.

**Fairness.** `RunLock`: cron fires again and again, started calls and rounds end,
time passes; kills are not fair. `TaskPool`: goroutines are scheduled, timers
fire, an attempt ends (which is `AttemptEnds` of `DumpAttempt`); a cancellation
need not come. `DumpAttempt`: `writeBackup` and the `AfterFunc` goroutine run, and
`BACKUP_TIMEOUT_MINUTES` is set (default 60); the dump program, the connection and
the disk owe nothing. `DateDirs`: time passes, cron starts rounds, and a round
that has begun goes on; faults are not fair, and there are finitely many.
`RedisSnapshot`: the shell goes on and `redis-cli` returns, with an answer or
without; the server need not end a save. A `redis-cli` that hangs is assumed away:
the script has nothing against it, `BACKUP_TIMEOUT` does (`AttemptEnds`).
`RestoreDrill`: the daemon answers and the programs in the drill's container end;
the code has nothing against one that does not, since `execCollect`
(`docker.go:220`) reads without an `AfterFunc`.

## What the violated runs found

* `AtMostOneRun` (comment `lock.go:12`): the takeover of a stale lock removes by
  name (`lock.go:47`), so two processes can both end up holding it. `overlong`,
  the other proviso of `MutualExclusion`, is as real: nothing refreshes the mtime
  of the lock, and a round of more than six hours is taken for dead
  (`lock.go:45`).
* `NoDatabaseSkippedSilently` (comment `docker.go:51`): when the inspection of an
  image fails once and the container's reference is a bare digest, "no names" is
  cached for the life of the process (`docker.go:109`), and later rounds skip the
  database with a line at debug level. `HealthyRoundPlans` says what does survive
  such a failure: a label, a declared export command, a usable reference, as long as
  the command does not come from the image's names.
* `ExpiredAreDeleted` (`README.md:69`): retention (`backup.go:228`) comes after the
  early return of the space precheck (`backup.go:157`); on a disk without room for
  one day more, every round is refused before it gets there, and nothing expired
  is ever deleted.
* `FreshOnSuccess` (`README.md:316`): a save that was running when the Redis script
  began refuses its BGSAVE (`provider.go:121`), and its end counts as evidence
  (`provider.go:136`): the snapshot printed misses writes from before the script.

Seen while modelling, and visible in the provisos of the properties:

* `execExitCode` does not look at `Running` (`docker.go:210`): when the connection
  closes early, a dump may be published cut, although the comment at `backup.go:714`
  promises otherwise, and a drill whose stream was cut passes (`cut`). Validation
  catches the cut only where the format has one marker, at the end (`Detectable`): db
  and zip have none, `pg_dumpall` prints "dump complete" after each database and any
  in the last 64 KiB will do (`validate.go:125`), and 0xFF may be the last or the
  ninth-last byte of a cut rdb file (`validate.go:164`).
* A disk that fills up is an error to try again when the copy meets it
  (`backup.go:707`) and a permanent one when the compressor does at its end
  (`backup.go:693`; `mishap`).
* An environment read from a stream that was cut is cached (`docker.go:165`) for the
  life of the process: what was beyond the cut, `BACKUP_SQLITE_CMD` or a password, is
  not seen again (`env`). A container that is labelled sqlite and has no declared
  command takes its command from the cached image names (`provider.go:405`): after one
  failed inspection it is skipped in every later round, with a warning, though
  `README.md:259` has the image name as the fallback (`Equipped` in `Plans`).
* `BGSAVE` may not reach the server, which the script does not notice
  (`provider.go:121`): it then says that nothing new was saved, or takes another save
  for its own (`lost`).
* A manifest that cannot be read for a moment is skipped (`manifest.go:200`), and an
  error of the search leaves no baseline (`backup.go:145`): a container that drops out
  in that round is reported neither then nor later (`blind`).
* The test for an empty dump looks at the compressed size (`backup.go:725`), so
  that only validation catches it.
* Directory names are written in `BACKUP_TZ` and read in `TZ` (`backup.go:778`): with
  one day kept and `BACKUP_TZ` to the west of `TZ`, a round deletes the directory it
  has just written, and tells Healthchecks that all is well. `OwnDirectoryIsKept`
  says when it does not (`KeepsOwn` in `BackupRound`).
* `os.RemoveAll` (`backup.go:783`) may stop half way: `verify` then fails files of a
  directory that is on its way out, and a manifest without dumps is a baseline
  (`stale`, `torn`).
* `BACKUP_RETENTION_DAYS` of 106752 or more overflows (`backup.go:768`), and
  everything is deleted, the round's own directory included (`Fits`).
* A rerun replaces the day's manifest and forgets dumps that are still there
  (`backup.go:197`). A refused round's manifest lists nothing, so that the next
  estimate is zero: that, and nothing else, is why `BackupsGoOn` holds.
* A Postgres drill passes whatever the dump is, since `psql -f` exits 0 after
  errors (`restore.go:197`); `README.md:220` promises more. It fails, on the other
  hand, whatever the dump is, where `POSTGRES_DB` differs from `POSTGRES_USER`: the query
  names no database (`restore.go:211`; `HasDatabase`). So it does where the role of the
  setting `POSTGRES_BACKUP_USER` is not that of the image (`provider.go:269`; `LetIn`).
* `CopyToContainer` wants an existing directory, and nothing creates
  `/tmp/auto-backup-restore` (`restore.go:22`, `restore.go:254`); on an image without
  it every drill warns (`HasTarget`).
* A MySQL drill needs the root password in the container's environment and the
  same password in `MYSQL_BACKUP_PASSWORD` (`Secret`, `LetIn`), and with `MYSQL_USER` in
  it that user, who has rights on one database (`MayImport`). A compressed dump is
  imported as it is. The ready check may be answered by the temporary server that
  the image runs first (`restore.go:214`).
* A drill container left behind makes every later drill fail until somebody
  removes it, because its name is always the same (`restore.go:103`).

Seen, and in no model: a failed precheck returns before the gauge of the last
status is set (`backup.go:157`, `log.go:134`); a partial round sets the gauge of the
last complete success (`backup.go:242`); a database skipped while plans are built
does not lower the status (`backup.go:421`, `README.md:52`); a container whose server
lists nothing has no task and no warning (`backup.go:457`); a timed-out dump program
goes on in its container while the retry starts another (`backup.go:701`); with
`KOPIA_CREATE_REPOSITORY` left on, a lost connection file makes every round fail
at a repository that exists (`kopia.go:66`); a daily round finds the last
maintenance a little less than a day old (`kopia.go:146`).

## Theorems

All for every value of the constants; the assumptions on constants are the
named `ASSUME`s, and TLC evaluates them in every run. Each module's first theorem
is its type correctness.

* `RunLock_proofs`: `TypeCorrect`, `MutualExclusion`, `OwnLockFile`. The inductive
  invariant says, while nothing overlong or raced has happened: the lock file is the
  running process's and no older than its run, a verdict "stale" is still true, and
  at most one process holds one. Without the last two, the removal could hit a fresh
  lock. `ExclusiveWithoutFaults` drops the second proviso where nobody was killed
  and no removal failed (`CalmInv`: a lock file then means a run, so nobody judges
  one); `ExclusiveIfRunsAreShort` drops the first under `MaxRun <= StaleAfter`,
  which no code enforces. `LocksOnlyAge`: an orphaned lock is never refreshed.
* `Plans_proofs`: `TypeCorrect`, `HealthyRoundsPlan`, `CluesAreReported`,
  `TasksDoNotCollide`. The invariant adds `CachesSound` to the properties: a cached
  environment is the container's or that of a cut stream, and cached names contain
  the reference whenever they could have contained nothing else, and something
  whenever there is a name outside the image; a failure of an earlier round is visible
  only through the caches. For the files, `FilesApart` says that a path determines
  the container and the database, as validated names are single components.
* `TaskPool_proofs`: `TypeCorrect`, `PoolIsBounded`, `ListedFilesExist`,
  `FailuresAreJustified`, `VerdictEndsAttempts`, `PoolRefinesForkJoin`. The invariant
  ties `sem` and `wg` to the sets of goroutines they count, the results to the
  goroutines that have recorded, and outcomes to attempts; counting uses the
  library's theorems on finite sets. `PoolIsNeverStuck` and `TasksGoForward` are the
  two halves of `PoolReturns` (see below).
* `DumpAttempt_proofs`: `TypeCorrect`, `PublishedDumpIsWhole`, `AttemptsAreAtomic`
  (for every format and setting; that the dump is whole is part of `AtomicDump` only
  where the format tells), `TempIsCleanedUp`, `PermanentFailuresAreJustified`. The
  invariant follows the content from the stream to the file: an end of stream after
  exit code 0 carries a whole or an empty dump, a copy without an error holds what
  was sent, and what has passed the checks is whole where a cut can be told; a file
  that is not whole, without an error, has a mishap or the dump program behind it.
  `CopiesAreInterruptible` and `AttemptsGoForward` stand behind `AttemptEnds`.
* `BackupRound_proofs`: `RetentionIsSafe`, `HeartbeatsAreTrue`, `StartsAreAnswered`,
  `ManifestsAgree`, `SnapshotsVerify`, `PushesAreStored`, `SuccessIsListed`. `RoundInv`
  says what a round knows at each stage, whatever becomes of the manifests: its own
  files, its verdict, and that what it will call pushed is in a snapshot; `IInv`
  adds that after `Assess` the day's manifest is the round's own unless the day is
  stale, and that before the first dump the old one still agrees. What is said of the
  disk is said where `KeepsOwn` holds; `RetentionIsSafe` has
  the skew of the zones in its words. `VerifyOnlyReads`
  (`VerifySpec => Spec`) carries all of this over to the composition;
  `VerifyTypeCorrect` and `VerifyIsTrusted` are about it: until it is disturbed, the
  directory matches the manifest that was read. `RoundsGoForward` counts the stages,
  the dumps that are pending and what there is to delete.
* `DateDirs_proofs`: `TypeCorrect`, `OnlyOldIsDeleted`, `OldIsDeleted`,
  `OwnDirectoryIsKept`, for every pair of zones and every round that comes to retention
  within a day (`MaxLag`, which the code does not enforce). The
  invariant `Dated` places `runAt` within the round's date; the rest is the
  arithmetic of the cutoff below the overflow. Three more rest on sums over
  containers and days, or on the order of manifests:
  * `EstimateHolds`. `Budget` follows the bytes of a round from the precheck to the
    write that does not fit: what is free and what the round has placed cover the
    estimate, so a full disk means that the dumps have outgrown it.
  * `DropsReported`. `Chain`: a manifest has its directory (`Housed`), a round of
    yesterday is the only writer (`Alone`), and the baseline in hand is still the
    manifest before the round's own (`Based`) unless the round is blind, through reruns,
    kills, removals that stop half way and midnight.
  * `RefusalsDoNotRepeat`, the safety core of `BackupsGoOn`. `Room`: what others than the
    round take is at most a full day for each day kept and for each fault
    (`Bounded`). Its hypotheses are `Roomy`, as in the property, and `Regular`: the days
    kept do not overflow, are not 0, and the zones leave a round its own day.
  The library's `SumFunction` is a fold. That a sum grows, splits and is bounded is
  proved by induction over finite sets, for a set of good cases in place of an
  operator (`SetInduction`), from the library's well-founded order of their subsets.
* `RedisSnapshot_proofs`: `TypeCorrect`, `PrintsFreshSnapshot`, `RejectsForAReason`.
  The heart of the invariant is `Renewed`: unless a save was running at the start, a
  save that runs now holds what is wanted, and the file does or no save has ended
  since; `Accepted` says what a BGSAVE that arrived and was not refused leads to.
* `RestoreDrill_proofs`: `TypeCorrect`, `BoxesAreCleanedUp`, `PassesAreEarned`,
  `AlarmsAreJustified`. `Owned`: the program knows the container exactly from its
  creation to its removal, and one that it does not know was left behind; `Told`:
  what the exit codes say about the dump at each stage.

The assumptions are what the code makes sure of, but for `MaxLag`: bounds are
natural numbers, settings are of their type, and containers, plans and databases
are finitely many.

**Progress.** The prover does no liveness under fairness, so `BackupsKeepRunning`,
`PoolReturns`, `AttemptEnds`, `ScriptEnds`, `DrillEnds` and `BackupsGoOn` stay
with TLC. What can be proved of them is their core, for every value of the
constants: a natural number that no step of anybody raises, and that each step of
the program lowers (`TasksGoForward`, `AttemptsGoForward`, `RoundsGoForward`,
`ScriptGoesForward`, `DrillGoesForward`; `SleepsAreBounded` in seconds), that
something can always be done (`PoolIsNeverStuck`, `CopiesAreInterruptible`), and
that no state stands in the way for good (`LocksOnlyAge`, `RefusalsDoNotRepeat`).
What then remains to the fairness is that a step which can be taken is.

Only model-checked are these six liveness properties and the violated statements.
All other properties of the runs are theorems.

## Not modelled, and assumptions

* File systems do what POSIX says: exclusive create and rename are atomic. Loss
  of unsynced data on power failure is left out: the code never calls `fsync`.
* Docker is modelled by what the code observes. An exec goes on when its
  client is gone.
* A ping is sent once; its loss on the network is left out.
* Rounds of `BackupRound` and `DateDirs` do not overlap; what two overlapping rounds
  do to each other's `.tmp/` and manifest is not modelled, only how rarely they can.
* Zones are constant: daylight saving time is left out. `DateDirs.cfg` runs with
  `BACKUP_TZ` west of `TZ`; the theorems hold for every pair.
* `DateDirs` gives a container one dump and leaves Kopia and the drill out: neither
  touches a directory, but for the manifest that is written again.
* A `redis-cli` and a program in a drill's container that hang are assumed away by the
  fairness of `ScriptEnds` and `DrillEnds`.
* The databases that a server lists are a set (`FilesDistinct`): a name that is listed
  twice is not seen. An environment cut in the middle has lost everything there was to
  know.
* Kopia's connection, its arguments and its maintenance marker are left out:
  errors of maintenance are only logged.
* The scheduler is a loop around a library's next date, and the configuration is
  parsed once, before any of the modelled state exists: their part is the fairness
  and the constants. The text of reports, the HTTP calls, the codecs and the
  construction of shell commands other than the Redis script are left out.

## Plan

What could come next, in this order:

1. `OverlappingRuns`: `RunLock` composed with `.tmp/` and the manifest's temporary
   file; what two overlapping rounds do to each other.
2. `KopiaClient`: connection file, repository creation and maintenance over many
   rounds, with a shared repository.
3. `Scheduler`: timer, signal and overlong rounds; dates swallowed and repeated.
4. `ConfigParsing`, `Validation`: pure operators against reference definitions.
