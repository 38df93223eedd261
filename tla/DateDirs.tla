------------------------------ MODULE DateDirs ------------------------------
(***************************************************************************)
(* The backup directory over the days: what rounds of backup()             *)
(* (src/backup.go) write into date directories, how much space that takes, *)
(* which earlier manifest is the baseline of a round (src/manifest.go),    *)
(* when the space precheck refuses a round (src/disk.go), and what         *)
(* cleanOldBackups deletes.                                                *)
(*                                                                         *)
(* Time is relative, so that it need not end: a date directory is numbered *)
(* by how many days back its date is in BACKUP_TZ, hour is the time of day *)
(* there (DayLength units), and lag the time since the round's runAt.      *)
(* Zones do not change: daylight saving time is left out.  The size of a   *)
(* dump is a small number; a manifest lists a container if the size is not *)
(* zero.  Rounds do not overlap, and their stages are those of BackupRound;*)
(* a round that fails before its precheck changes nothing here.            *)
(***************************************************************************)
EXTENDS Integers, FiniteSetsExt, Functions

CONSTANTS
    Containers,
    MaxSize,     \* the largest dump
    Capacities,  \* sizes of the file system
    MinFree,     \* cfg.minFreeBytes
    Drift,       \* cfg.sizeDriftRatio in tenths
    DayLength,   \* units of time in a day
    Retentions,  \* values of cfg.retentionDays; 0 keeps everything
    Shifts,      \* values of BACKUP_TZ's offset minus TZ's
    Limit,       \* int64 nanoseconds overflow here (106751 days, really)
    MaxBack,     \* bound: directories of this age and older are merged
    MaxLag,      \* bound on the length of a round: less than a day
    MaxFaults    \* bound on kills and failing system calls

ASSUME DateDirsAssumption ==
    /\ IsFiniteSet(Containers)
    /\ {MaxSize, MinFree, MaxFaults, Drift} \cup Capacities \subseteq Nat
    /\ DayLength \in Nat \ {0} /\ Limit \in Nat \ {0} /\ MaxBack \in Nat \ {0}
    /\ MaxLag \in 0..(DayLength - 1)
    /\ Retentions \subseteq Nat /\ Shifts \subseteq Int
    /\ \A n \in Retentions, s \in Shifts :
           n * DayLength <= Limit => (MaxBack - 1) * DayLength > n * DayLength + s

VARIABLES
    capacity, days, shift,  \* the settings: disk, cfg.retentionDays and zones
    hour, lag,
    dirs,         \* days back that have a directory
    file, man,    \* the dumps and the manifest in each
    pc,           \* "idle", "dump", "clean"
    mine,         \* the round's directory
    prev,         \* its baseline
    blind,        \* history: that is not the latest manifest, for a fault
    want,         \* what each container's dump takes; zero: nothing to dump
    left, got,    \* containers whose dump has not ended, or is in place
    tight,        \* a dump has failed for lack of space
    checked,      \* the precheck could read the free space
    faults,
    torn          \* history: a directory has outlived the manifest of a younger one

setting == <<capacity, days, shift>>
time == <<hour, lag>>
disk == <<dirs, file, man>>
local == <<mine, prev, blind, want, left, got, tight, checked>>
vars == <<setting, time, disk, pc, local, faults, torn>>

Back == 0..MaxBack
Sizes == [Containers -> Nat]
Nothing == [c \in Containers |-> 0]

\* A manifest: of a round that was refused or of one that dumped, with the sizes
\* and the containers that its warnings name; and the history of its round.
Manifests == [kind : {"none", "refused", "assessed"}, size : Sizes,
              warned : SUBSET Containers, blind : BOOLEAN]
NoManifest == [kind |-> "none", size |-> Nothing, warned |-> {}, blind |-> FALSE]

TypeOK ==
    /\ capacity \in Capacities /\ days \in Retentions /\ shift \in Shifts
    /\ hour \in 0..(DayLength - 1) /\ lag \in 0..MaxLag
    /\ dirs \subseteq Back /\ file \in [Back -> Sizes] /\ man \in [Back -> Manifests]
    /\ pc \in {"idle", "dump", "clean"} /\ mine \in {0, 1}
    /\ prev \in Manifests /\ want \in Sizes
    /\ {left, got} \subseteq SUBSET Containers
    /\ {blind, tight, checked, torn} \subseteq BOOLEAN /\ faults \in 0..MaxFaults

Init ==
    /\ capacity \in Capacities /\ days \in Retentions /\ shift \in Shifts
    /\ hour = 0 /\ lag = 0
    /\ dirs = {} /\ file = [k \in Back |-> Nothing] /\ man = [k \in Back |-> NoManifest]
    /\ pc = "idle" /\ mine = 0 /\ prev = NoManifest /\ blind = FALSE
    /\ want = Nothing /\ left = {} /\ got = {} /\ tight = FALSE /\ checked = FALSE
    /\ faults = 0 /\ torn = FALSE

-----------------------------------------------------------------------------
(* Time                                                                    *)

Older(k) == IF k = MaxBack THEN {MaxBack - 1, MaxBack} ELSE {k - 1}

\* The date of the round stays that of its runAt.
RoundDate == IF pc = "idle" THEN 0 ELSE mine + 1

\* Midnight in BACKUP_TZ: every date is a day further back.
NewDay ==
    /\ hour = DayLength - 1 /\ hour' = 0
    /\ dirs' = {k \in Back : \E j \in Older(k) : j \in dirs}
    /\ file' = [k \in Back |-> [c \in Containers |->
                    IF k = 0 THEN 0 ELSE IF k < MaxBack THEN file[k - 1][c]
                    ELSE file[k - 1][c] + file[k][c]]]
    /\ man' = [k \in Back |-> IF k = 0 THEN NoManifest
                              ELSE IF k < MaxBack \/ man[k - 1].kind # "none" THEN man[k - 1]
                              ELSE man[k]]
    /\ mine' = RoundDate

Tick ==
    /\ \/ pc = "idle" /\ lag' = 0
       \/ pc # "idle" /\ lag < MaxLag /\ lag' = lag + 1
    /\ \/ NewDay
       \/ /\ hour < DayLength - 1 /\ hour' = hour + 1
          /\ UNCHANGED <<disk, mine>>
    /\ UNCHANGED <<setting, pc, prev, blind, want, left, got, tight, checked, faults, torn>>

-----------------------------------------------------------------------------
(* The round                                                               *)

Used == SumFunction([k \in Back |-> SumFunction(file[k])])
Free == capacity - Used

\* Mutant of Baseline: the day's own manifest counts.
BaselineToday(k) == k \in Back /\ man[k].kind # "none" /\ \A j \in Back : j < k => man[j].kind = "none"

\* findPreviousManifest, if all can be read: the latest earlier date with a manifest.
Baseline(k) == k \in 1..MaxBack /\ man[k].kind # "none" /\ \A j \in 1..(k - 1) : man[j].kind = "none"

Previous == IF \E k \in Back : Baseline(k) THEN man[CHOOSE k \in Back : Baseline(k)]
            ELSE NoManifest

\* What it may come to otherwise: an error, on which the round goes on without a
\* baseline, or an older manifest, as one that cannot be read is skipped.
Misread == {NoManifest} \cup {man[k] : k \in 1..MaxBack}

\* Mutant of Required: no allowance over the last backup, and rounded down.
RequiredHalf(m) == Max({MinFree, SumFunction(m.size) \div 2})

\* requiredSpaceFor, and the maximum that checkFreeSpace takes.
Required(m) == Max({MinFree, (12 * SumFunction(m.size)) \div 10})

\* A fault of the file system, from a bounded supply.
Fault == faults < MaxFaults /\ faults' = faults + 1

\* backup() up to hc.start(): the directory, the baseline, checkFreeSpace.  If
\* the free space cannot be read the check is skipped.
Begin ==
    /\ pc = "idle" /\ pc' = "dump" /\ lag' = 0
    /\ mine' = 0 /\ dirs' = dirs \cup {0}
    /\ \E base \in {Previous} \cup Misread :
          /\ prev' = base /\ blind' = (base # Previous)
          /\ \/ Free >= Required(base) /\ checked' = TRUE
             \/ checked' = FALSE
          /\ IF base = Previous /\ checked' THEN UNCHANGED faults ELSE Fault
    /\ want' \in [Containers -> 0..MaxSize]
    /\ left' = {c \in Containers : want'[c] > 0}
    /\ got' = {} /\ tight' = FALSE
    /\ UNCHANGED <<setting, hour, file, man, torn>>

\* writeManifestBestEffort: a full disk, or a fault, is logged and nothing else.
WriteManifest(m) ==
    \/ man' = [man EXCEPT ![mine] = m] /\ UNCHANGED faults
    \/ Free = 0 /\ UNCHANGED <<man, faults>>
    \/ Fault /\ UNCHANGED man

\* Mutant of Refuse: it returns without a manifest.
RefuseQuietly ==
    /\ pc = "idle" /\ Free < Required(Previous)
    /\ dirs' = dirs \cup {0}
    /\ UNCHANGED <<setting, time, file, man, pc, local, faults, torn>>

Refusal == [kind |-> "refused", size |-> Nothing, warned |-> {}, blind |-> FALSE]

\* Too little space: the early return, with a manifest that lists nothing.
Refuse ==
    /\ pc = "idle"
    /\ dirs' = dirs \cup {0}
    /\ \/ Free < Required(Previous) /\ WriteManifest(Refusal)
       \/ /\ \E base \in Misread : Free < Required(base)
          /\ Fault /\ man' \in {man, [man EXCEPT ![mine] = Refusal]}
    /\ UNCHANGED <<setting, time, file, pc, local, torn>>

\* The other dumps of the round may be as large as they get in .tmp/.
Pending == SumFunction([c \in Containers |-> IF c \in left THEN want[c] ELSE 0])

\* One task of the pool: its dump takes the place of an earlier one of the day,
\* or is removed again, for lack of space or for any other reason.
Dump(c) ==
    /\ pc = "dump" /\ c \in left /\ left' = left \ {c}
    /\ \/ /\ want[c] <= Free
          /\ file' = [file EXCEPT ![mine][c] = want[c]]
          /\ got' = got \cup {c} /\ UNCHANGED tight
       \/ /\ tight' \in {tight, tight \/ Pending > Free}
          /\ UNCHANGED <<file, got>>
    /\ UNCHANGED <<setting, time, dirs, man, pc, mine, prev, blind, want, checked, faults, torn>>

\* collector.finish: what the round has dumped.
Result == [c \in Containers |-> IF c \in got THEN want[c] ELSE 0]

\* detectAnomalies, for one container: missing, smaller or much larger.
Anomalous(c) ==
    LET was == prev.size[c]
        is  == Result[c]
    IN  /\ prev.kind # "none" /\ was > 0
        /\ is = 0 \/ 10 * (is - was) <= -Drift * was \/ 10 * (is - was) >= 4 * Drift * was

\* The pool has returned: anomalies, and the manifest of what was dumped.
Assess ==
    /\ pc = "dump" /\ left = {} /\ pc' = "clean"
    /\ WriteManifest([kind |-> "assessed", size |-> Result,
                      warned |-> {c \in Containers : Anomalous(c)}, blind |-> blind])
    /\ UNCHANGED <<setting, time, dirs, file, local, torn>>

\* int64 arithmetic.
Wrap(x) == ((x + Limit) % (2 * Limit)) - Limit

\* How long before runAt the name of a directory begins, read by
\* time.ParseInLocation(name, time.Local).
Age(k) == k * DayLength + hour - lag - shift

\* Mutants of Cutoff: a day less, and a day more.
CutoffEarly == Wrap(-((days - 1) * DayLength))
CutoffLate == Wrap(-((days + 1) * DayLength))

\* now.Add(-time.Duration(cfg.retentionDays) * 24 * time.Hour), from runAt.
Cutoff == Wrap(-(days * DayLength))

Expired(k) == days > 0 /\ -Age(k) < Cutoff

\* The locals of the round are gone.
Over ==
    /\ pc' = "idle" /\ lag' = 0 /\ mine' = 0 /\ prev' = NoManifest /\ blind' = FALSE
    /\ want' = Nothing /\ left' = {} /\ got' = {}
    /\ tight' = FALSE /\ checked' = FALSE

\* cleanOldBackups.  RemoveAll may fail, or the process is killed in it: directories
\* are kept, some without dumps or the manifest, and the next round tries again.
Clean ==
    /\ pc = "clean"
    /\ \E kept \in SUBSET {k \in dirs : Expired(k)} :
          LET gone == {k \in dirs : Expired(k)} \ kept
          IN  /\ IF kept = {} THEN UNCHANGED faults ELSE Fault
              /\ dirs' = dirs \ gone
              /\ \E bare \in SUBSET kept, lost \in SUBSET (kept \X Containers) :
                    /\ man' = [k \in Back |-> IF k \in gone \cup bare THEN NoManifest ELSE man[k]]
                    /\ file' = [k \in Back |-> [c \in Containers |->
                                    IF k \in gone \/ <<k, c>> \in lost THEN 0 ELSE file[k][c]]]
                    /\ torn' = (torn \/ \E j \in kept, k \in gone \cup bare : k < j)
    /\ Over
    /\ UNCHANGED <<setting, hour>>

\* The process is killed; Kill leaves what is on the disk.  Temporary files go
\* before the next precheck (cleanupStaleTempFiles).
Kill ==
    /\ pc # "idle" /\ Over /\ Fault
    /\ UNCHANGED <<setting, hour, disk, torn>>

Round == Begin \/ Refuse \/ (\E c \in Containers : Dump(c)) \/ Assess \/ Clean

Next == Tick \/ Round \/ Kill

Spec == Init /\ [][Next]_vars

\* Time passes, cron starts rounds, and a round that was started ends.
FairSpec == Spec /\ WF_vars(Tick) /\ WF_vars(Round)

-----------------------------------------------------------------------------
(* Properties                                                              *)

\* The days kept fit into a time.Duration.
Fits == days * DayLength <= Limit

\* What a round deletes is from a date more than RetentionDays - 1 days before the
\* round's (by the last unit of a date; give or take the difference of the zones),
\* wherever midnight falls in a round that gets there within a day: a directory is
\* judged by its midnight, and its newest dump may be from the end of that day.
DeletedAreOld ==
    [][Clean /\ Fits => \A k \in dirs \ dirs' :
           (k - mine + 1) * DayLength - 1 > days * DayLength + shift]_vars

\* Retention does its work: what a round leaves behind is from at most
\* RetentionDays days before (give or take the zones), unless a removal failed.
NothingKeptTooLong ==
    [][Clean /\ Fits /\ days > 0 /\ faults' = faults => \A k \in dirs' :
           (k - mine) * DayLength <= days * DayLength + shift]_vars

\* checkFreeSpace keeps its promise not to "fail only half way" (src/disk.go:12):
\* after a check, dumps run out of space only if the round needs more than a
\* fifth more than its baseline.
EstimateIsEnough ==
    tight /\ checked => 10 * SumFunction(want) > 12 * SumFunction(prev.size)

\* The date before k that has a manifest.
Before(j, k) == k < j /\ man[j].kind # "none" /\ \A i \in (k + 1)..(j - 1) : man[i].kind = "none"

\* "A smaller number of containers is reported, too" (src/README.md:85): read from
\* one date to the next, no manifest of a round that dumped drops a container
\* without a warning that names it, reruns, kills and midnight notwithstanding,
\* unless its round could not read the manifest before it.
DropsAreReported ==
    ~torn => \A j, k \in Back : \A c \in Containers :
        (/\ Before(j, k) /\ man[k].kind = "assessed" /\ ~man[k].blind
         /\ man[j].size[c] > 0 /\ man[k].size[c] = 0)
            => c \in man[k].warned

\* Rounds go on being more than refused, if the disk has room for the days that
\* retention keeps, a day for each fault, and MinFree besides.  The estimate cannot
\* stand in the way for ever: the manifest of a refused round is an empty baseline.
DaysKept == days + 1 + (shift \div DayLength)
Roomy == capacity >= (DaysKept + MaxFaults) * Cardinality(Containers) * MaxSize + MinFree
BackedUp == Roomy /\ days > 0 => pc = "clean"
BackupsGoOn == []<>BackedUp

-----------------------------------------------------------------------------
(* What the documentation says, and the code does not do                   *)

\* "Directories that exceed this number of days are deleted" (src/README.md:69):
\* time and again there is none that is more than a day beyond it.
ExpiredAreDeleted == []<>(days > 0 => \A k \in dirs : k <= days + 1)
=============================================================================
