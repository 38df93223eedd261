---------------------------- MODULE DumpAttempt ----------------------------
(***************************************************************************)
(* The attempts of one task: writeBackup of src/backup.go, with the docker *)
(* calls it makes (src/docker.go) and the clean-up of temporary files at   *)
(* the start of the next round (src/disk.go).                              *)
(*                                                                         *)
(* A dump program runs in the database container and its output arrives    *)
(* over a hijacked connection.  writeBackup copies it to a temporary file, *)
(* asks for the exit code, checks the file and renames it to its final     *)
(* path.  The context of the attempt may end at any time (BACKUP_TIMEOUT   *)
(* or a signal), and the process may be killed at any time.                *)
(*                                                                         *)
(* A file's content is how much of the dump it holds; "marked" is a part   *)
(* that validation takes for the whole.  Where a format puts its marker is *)
(* chosen at the start:                                                    *)
(*   "end"    once, at the end: mysqldump, pg_dump of one database;        *)
(*   "inner"  also before the end: pg_dumpall prints "dump complete" after *)
(*            each database (any in the last 64 KiB will do, so would such *)
(*            words in the data), and a byte 0xFF may be the last or the   *)
(*            ninth-last of a cut rdb file;                                *)
(*   "none"   nowhere: db and zip, of which only the beginning is checked. *)
(* The dump program, the connection and the daemon are external: they are  *)
(* modelled by what writeBackup can observe of them.                       *)
(***************************************************************************)
EXTENDS Naturals

CONSTANTS
    Validate,      \* cfg.backupValidate
    Compressed,    \* cfg.effectiveCompression() is not plain
    StreamMayEndEarly,  \* the connection may be closed, without an error, while
                        \* the dump still runs (a proxy before the docker socket)
    MaxAttempts,   \* bound on the attempts, over all rounds
    MaxCrashes     \* bound on the number of kills

ASSUME DumpAttemptAssumption ==
    /\ {Validate, Compressed, StreamMayEndEarly} \subseteq BOOLEAN
    /\ MaxAttempts \in Nat /\ MaxCrashes \in Nat

VARIABLES
    pc,       \* where writeBackup is; "idle" between attempts, "down" after a kill
    att,      \* attempts begun
    ctx,      \* execCtx: "live" or "ended"
    conn,     \* the attached stream: "none", "open", "eof", "broken"
    exec,     \* the dump program of this attempt
    sent,     \* how much of the dump it has put out
    marker,   \* where the format has its end marker
    tmp,      \* content of the last temporary file, or "absent"
    litter,   \* temporary files of earlier attempts are still there
    copyErr,  \* StdCopy returned an error
    exit,     \* what execExitCode returned: "zero", "nonzero", "error"
    final,    \* the file at the final path and the attempt that wrote it
    result,   \* what the last attempt returned
    crashes,
    \* History variables: what the properties accept as a reason.
    refused,  \* a file that is not wanted any more could not be removed
    mishap    \* in this attempt the stream was "cut", or the compressor or the
              \* reading of the "file" failed

vars == <<pc, att, ctx, conn, exec, sent, marker, tmp, litter, copyErr, exit, final,
          result, crashes, refused, mishap>>
remote == <<conn, exec, sent>>
answers == <<copyErr, exit>>
old == <<marker, litter, crashes>>      \* what an attempt leaves alone

Contents == {"empty", "part", "marked", "whole"}
Markers == {"none", "inner", "end"}
InFlight == {"temp", "copying", "copied", "inspected", "closed", "checked"}

\* The settings under which the code can tell: a stream that ends early needs a
\* marker at the end and nowhere else, which is checked, and an empty dump, when
\* compressed, a check.
Detectable ==
    /\ StreamMayEndEarly => Validate /\ marker = "end"
    /\ Compressed => Validate

AD == INSTANCE AtomicDump WITH final <- final, result <- result, telling <- Detectable

TypeOK ==
    /\ pc \in InFlight \cup {"idle", "down"}
    /\ att \in 0..MaxAttempts /\ crashes \in 0..MaxCrashes
    /\ ctx \in {"live", "ended"}
    /\ conn \in {"none", "open", "eof", "broken"}
    /\ exec \in {"none", "running", "exited0", "exitedN"}
    /\ marker \in Markers /\ litter \in BOOLEAN /\ refused \in BOOLEAN
    /\ mishap \in {"none", "cut", "file"}
    /\ sent \in Contents /\ tmp \in Contents \cup {"absent"}
    /\ copyErr \in BOOLEAN /\ exit \in {"zero", "nonzero", "error"}
    /\ final \in [att : 0..MaxAttempts, content : Contents \cup {"absent"}]
    /\ result \in {"none", "ok", "retryable", "permanent"}

\* A round may find the file of an earlier round of the same day.
Init ==
    /\ pc = "idle" /\ att = 0 /\ ctx = "live" /\ crashes = 0
    /\ conn = "none" /\ exec = "none" /\ sent = "empty"
    /\ marker \in Markers /\ tmp = "absent" /\ litter = FALSE
    /\ copyErr = FALSE /\ exit = "zero" /\ refused = FALSE /\ mishap = "none"
    /\ final \in {AD!NoDump, [att |-> 0, content |-> "whole"]}
    /\ result = "none"

-----------------------------------------------------------------------------
(* writeBackup                                                             *)

\* The deferred calls: the temporary file is removed, or stays where os.Remove
\* fails, which nobody looks at; the stream is closed.
Return(err) ==
    /\ pc' = "idle" /\ result' = err /\ conn' = "none"
    /\ \/ tmp' = "absent" /\ UNCHANGED refused
       \/ tmp' = tmp /\ refused' = TRUE

\* The deferred calls behind an error of the compressor or of the file itself.
ReturnForFile == Return("permanent") /\ mishap' = "file"

\* On to the next statement.
Proceed(stage) == pc' = stage /\ UNCHANGED <<tmp, result, conn, refused, mishap>>

\* os.CreateTemp, with a name of its own, and the context of the attempt.
CreateTemp ==
    /\ pc = "idle" /\ att < MaxAttempts
    /\ pc' = "temp" /\ att' = att + 1 /\ tmp' = "empty" /\ ctx' = "live"
    /\ litter' = (litter \/ tmp # "absent")
    /\ exec' = "none" /\ sent' = "empty" /\ conn' = "none"
    /\ result' = "none" /\ mishap' = "none"
    /\ UNCHANGED <<marker, answers, final, crashes, refused>>

\* startExec creates the exec and attaches to it, or a call up to here has failed;
\* a compressor that writes its header at once (xz) may fail with the dump running.
StartExec ==
    /\ pc = "temp"
    /\ \/ /\ ctx = "live" /\ pc' = "copying"
          /\ exec' = "running" /\ conn' = "open"
          /\ UNCHANGED <<tmp, result, refused, mishap>>
       \/ ctx = "live" /\ Compressed /\ ReturnForFile /\ exec' = "running"
       \/ Return("retryable") /\ UNCHANGED <<exec, mishap>>
    /\ UNCHANGED <<att, ctx, sent, answers, final, old>>

\* StdCopy returns at the end of the stream (with no error, wherever it ends),
\* or because the stream broke.
CopyEnds ==
    /\ pc = "copying" /\ conn \in {"eof", "broken"}
    /\ pc' = "copied"
    /\ copyErr' = (conn = "broken") /\ tmp' = sent
    /\ UNCHANGED <<att, ctx, remote, exit, final, result, old, refused, mishap>>

\* StdCopy fails because the local disk is full (what the file then holds does
\* not matter).
WriteFails ==
    /\ pc = "copying"
    /\ pc' = "copied"
    /\ copyErr' = TRUE
    /\ UNCHANGED <<att, ctx, remote, tmp, exit, final, result, old, refused, mishap>>

\* execExitCode reads ExitCode and does not look at Running: a dump that still
\* runs has exit code zero.  The call itself fails under an ended context.
Inspect ==
    /\ pc = "copied"
    /\ pc' = "inspected"
    /\ \/ exit' = "error"
       \/ ctx = "live" /\ exit' = IF exec = "exitedN" THEN "nonzero" ELSE "zero"
    /\ UNCHANGED <<att, ctx, remote, tmp, copyErr, final, result, old, refused, mishap>>

\* Mutant of Valid: the beginning is all that is looked at.
ValidBeginning(content) == content # "empty"

\* validateBackupFile: a marker near the end of sql and rdb, the beginning of db
\* and zip.
Valid(content) ==
    IF marker = "none" THEN content # "empty" ELSE content \in {"marked", "whole"}

\* An empty dump leaves an empty file unless a compressor wrote its header.
ZeroBytes(content) == content = "empty" /\ ~Compressed

\* The compressor is closed, then the file: a compressor that cannot flush is
\* permanent, the file is not.
Close ==
    /\ pc = "inspected"
    /\ \/ Compressed /\ ReturnForFile
       \/ Return("retryable") /\ UNCHANGED mishap
       \/ Proceed("closed")
    /\ UNCHANGED <<att, ctx, exec, sent, answers, final, old>>

Reject == exit = "nonzero" \/ ZeroBytes(tmp) \/ (Validate /\ ~Valid(tmp))

\* Mutant of Check: what is known of the dump comes before the context.
CheckDumpFirst ==
    /\ pc = "closed"
    /\ IF Reject THEN Return("permanent") /\ UNCHANGED mishap
       ELSE \/ Return("retryable") /\ UNCHANGED mishap
            \/ ctx = "live" /\ ~copyErr /\ exit # "error" /\ Proceed("checked")
    /\ UNCHANGED <<att, ctx, exec, sent, answers, final, old>>

\* The checks before the rename, in their order: the context, the copy and the
\* answer of the daemon (and any failing Stat), then what the dump itself tells,
\* for which the file is read again.
Check ==
    /\ pc = "closed"
    /\ \/ Return("retryable") /\ UNCHANGED mishap
       \/ /\ ctx = "live" /\ ~copyErr /\ exit # "error"
          /\ \/ Reject /\ Return("permanent") /\ UNCHANGED mishap
             \/ ~Reject /\ Proceed("checked")
             \/ Validate /\ exit = "zero" /\ ReturnForFile
    /\ UNCHANGED <<att, ctx, exec, sent, answers, final, old>>

\* Mutant of Publish: something that can fail comes after the rename.
PublishThenFail ==
    /\ pc = "checked"
    /\ Return("ok") \/ Return("retryable")
    /\ final' = [att |-> att, content |-> tmp]
    /\ UNCHANGED <<att, ctx, exec, sent, answers, old, mishap>>

\* os.Rename is the last thing writeBackup does; it takes the temporary file away.
Publish ==
    /\ pc = "checked"
    /\ \/ /\ Return("ok") /\ tmp' = "absent"
          /\ final' = [att |-> att, content |-> tmp]
       \/ Return("retryable") /\ UNCHANGED final
    /\ UNCHANGED <<att, ctx, exec, sent, answers, old, mishap>>

-----------------------------------------------------------------------------
(* The context, kills and restarts                                         *)

\* The timeout fires, or a signal cancels the parent context.
ContextEnds ==
    /\ pc \in InFlight /\ ctx = "live"
    /\ ctx' = "ended"
    /\ UNCHANGED <<pc, att, remote, tmp, answers, final, result, old, refused, mishap>>

\* Mutant of CloseOnCancel: the context is not watched while the copy runs.
CloseBeforeCopy ==
    /\ pc = "temp" /\ ctx = "ended" /\ conn = "open"
    /\ conn' = "broken"
    /\ UNCHANGED <<pc, att, ctx, exec, sent, tmp, answers, final, result, old, refused, mishap>>

\* context.AfterFunc(execCtx, attach.Close), on a goroutine of its own.
CloseOnCancel ==
    /\ ctx = "ended" /\ conn = "open"
    /\ conn' = "broken"
    /\ UNCHANGED <<pc, att, ctx, exec, sent, tmp, answers, final, result, old, refused, mishap>>

\* The process is killed: nothing deferred runs.
Crash ==
    /\ pc \in InFlight /\ crashes < MaxCrashes
    /\ crashes' = crashes + 1
    /\ pc' = "down" /\ conn' = "none"
    /\ UNCHANGED <<att, ctx, exec, sent, marker, tmp, litter, answers, final, result,
                   refused, mishap>>

\* A new round begins: after a kill, or with files that would not go before.
Resume ==
    /\ pc = "down" \/ (pc = "idle" /\ (litter \/ tmp # "absent"))
    /\ pc' = "idle"
    /\ UNCHANGED <<att, ctx, remote, marker, answers, final, result, crashes, mishap>>

\* Mutant of NextRound: nobody cleans up.
NextRoundKeepsTemp == Resume /\ UNCHANGED <<tmp, litter, refused>>

\* The next round: cleanupStaleTempFiles before any task starts.  A file that
\* cannot be removed is left for another time.
NextRound ==
    /\ Resume
    /\ \/ tmp' = "absent" /\ litter' = FALSE /\ refused' = FALSE
       \/ /\ tmp' \in {tmp, "absent"} /\ litter' \in {litter, FALSE} /\ refused' = TRUE
          /\ tmp' # "absent" \/ litter'

-----------------------------------------------------------------------------
(* The dump program and the connection (external)                          *)

\* Where a cut would leave the file: with nothing, with a part, with a part that
\* ends in what looks like the marker, or with everything.
DumpWrites ==
    /\ exec = "running" /\ conn = "open"
    /\ \/ sent = "empty" /\ sent' = "part"
       \/ sent = "part" /\ marker = "inner" /\ sent' = "marked"
       \/ sent \in {"part", "marked"} /\ sent' = "whole"
    /\ UNCHANGED <<pc, att, ctx, conn, exec, tmp, answers, final, result, old, refused, mishap>>

\* Status 0 after all its output, or after none (an export command that does
\* nothing), or when nobody listens any more; another status at any point.  The
\* daemon then ends the stream.
DumpExits ==
    /\ exec = "running"
    /\ \/ exec' = "exited0" /\ (conn = "open" => sent \in {"empty", "whole"})
       \/ exec' = "exitedN"
    /\ conn' = IF conn = "open" THEN "eof" ELSE conn
    /\ UNCHANGED <<pc, att, ctx, sent, tmp, answers, final, result, old, refused, mishap>>

ConnectionDrops ==
    /\ conn = "open" /\ exec = "running"
    /\ \/ conn' = "broken" /\ UNCHANGED mishap
       \/ StreamMayEndEarly /\ conn' = "eof" /\ mishap' = "cut"
    /\ UNCHANGED <<pc, att, ctx, exec, sent, tmp, answers, final, result, old, refused>>

WriteBackup == CreateTemp \/ StartExec \/ CopyEnds \/ Inspect \/ Close \/ Check \/ Publish
Environment == DumpWrites \/ DumpExits \/ ConnectionDrops \/ WriteFails

Next == WriteBackup \/ ContextEnds \/ CloseOnCancel \/ Crash \/ NextRound \/ Environment

Spec == Init /\ [][Next]_vars

\* writeBackup and the AfterFunc goroutine keep running and BACKUP_TIMEOUT is
\* set (60 minutes by default).  Nothing is assumed of the dump program, of the
\* connection or of the disk: a dump may hang for ever.
FairSpec ==
    /\ Spec
    /\ WF_vars(WriteBackup \/ NextRound)
    /\ WF_vars(ContextEnds) /\ WF_vars(CloseOnCancel)

-----------------------------------------------------------------------------
(* Properties                                                              *)

\* "... so that a truncated dump is never taken for a success"
\* (src/backup.go:714): the file at the final path is whole.
FinalIsWhole == final.content \in {"absent", "whole"}

\* What the code does keep of it: whole where a cut can be told (mysqldump and the
\* dump of one Postgres database, when validated), or where no stream ends early.
FinalIsWholeWhenDetectable == Detectable => FinalIsWhole

\* The attempts are atomic dumps: success and the new file come together, and
\* errors, timeouts and kills leave the old file alone; so with every format, and
\* with a whole dump where a cut can be told.
ImplementsAtomicDump == AD!Spec

\* No temporary file outlives its attempt, or, after a kill, the start of the next
\* round, but for what could not be removed; and that, too, is tried again.
NoStrayTemp == pc = "idle" /\ ~refused => tmp = "absent" /\ ~litter

\* A permanent failure, which is not tried again, is the dump program's, or comes of
\* a cut stream or the local file, and never of a timeout or a broken connection,
\* whatever these leave in the file and in the exit code.
PermanentForAReason ==
    result = "permanent" =>
        \/ exec = "exitedN" \/ (exec = "exited0" /\ sent = "empty")
        \/ mishap # "none"

\* A dump that hangs is interrupted: every attempt ends.
AttemptEnds == pc \in InFlight ~> pc = "idle"
=============================================================================
