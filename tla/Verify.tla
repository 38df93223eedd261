------------------------------- MODULE Verify -------------------------------
(***************************************************************************)
(* The command `verify <date>` (cmdVerify in src/cli.go), a process of its *)
(* own that takes no lock, beside the rounds of BackupRound.  It reads the *)
(* manifest of a date directory once, and then looks at the files that the *)
(* manifest lists, one after the other, while a round may replace them or  *)
(* retention may delete them.  `list` and `status` read manifests and      *)
(* nothing else.                                                           *)
(*                                                                         *)
(* A dump is replaced by a rename, so one look finds the old dump or the   *)
(* new one; a file other than the one the manifest was computed from fails *)
(* by its size, its checksum or its absence.  Both processes have the same *)
(* configuration: `verify` decompresses and validates as dumps are written.*)
(***************************************************************************)
EXTENDS BackupRound

VARIABLES
    reader,     \* the command: "idle", "files" (at work), "done"
    date,       \* the directory it looks at
    read,       \* the manifest it has read
    todo, fail, \* the listed files it has still to look at, those that failed
    disturbed   \* history: the manifest was behind the files when it was read,
                \* or files of the directory have changed since

command == <<reader, date, read, todo, fail>>
allvars == <<vars, command, disturbed>>

VerifyTypeOK ==
    /\ TypeOK
    /\ reader \in {"idle", "files", "done"}
    /\ date \in Days /\ read \in Manifests
    /\ todo \subseteq read.listed /\ fail \subseteq read.listed
    /\ disturbed \in BOOLEAN

VerifyInit ==
    /\ Init
    /\ reader = "idle" /\ date = 1 /\ read = NoManifest
    /\ todo = {} /\ fail = {} /\ disturbed = FALSE

\* readManifest.  Without a manifest the command ends at once.
ReadManifest ==
    /\ reader # "files"
    /\ \E d \in dirs :
          /\ man[d] # NoManifest
          /\ date' = d /\ read' = man[d] /\ todo' = man[d].listed
          /\ disturbed' = (d \in stale \/ (pc = "dump" /\ d = day /\ ok # {}))
    /\ reader' = "files" /\ fail' = {}
    /\ UNCHANGED vars

\* verifyOneFile: what is wrong with a file is printed, and the loop goes on.
VerifyOneFile(b) ==
    /\ reader = "files" /\ b \in todo
    /\ todo' = todo \ {b}
    /\ fail' = IF file[date][b] = read.run THEN fail ELSE fail \cup {b}
    /\ UNCHANGED <<vars, reader, date, read, disturbed>>

\* The count of failures is the exit code.
EndVerify ==
    /\ reader = "files" /\ todo = {}
    /\ reader' = "done"
    /\ UNCHANGED <<vars, date, read, todo, fail, disturbed>>

Reader == ReadManifest \/ (\E b \in Databases : VerifyOneFile(b)) \/ EndVerify

\* A step of the rounds does not touch the command, but may its files.
Rounds ==
    /\ Next
    /\ disturbed' = (disturbed \/ (reader = "files" /\ file'[date] # file[date]))
    /\ UNCHANGED command

VerifyNext == Rounds \/ Reader

VerifySpec == VerifyInit /\ [][VerifyNext]_allvars

-----------------------------------------------------------------------------
(* Properties                                                              *)

\* `verify` raises no false alarm (verifyOneFile, src/cli.go:163): whatever
\* rounds, reruns, kills and retention have done before, a file fails only if
\* the manifest was behind the files already (a round in its dumps, or killed
\* there, or unable to write its manifest), or a round changed the directory
\* while the command was at work.
AlarmsAreReal == fail # {} => disturbed

=============================================================================
