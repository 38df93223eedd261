--------------------------- MODULE RedisSnapshot ---------------------------
(***************************************************************************)
(* The dump of a Redis server: redisBGSaveScript (src/provider.go) asks    *)
(* for a background save, polls INFO until none is running, looks for      *)
(* evidence of a new snapshot and prints the file.  The script shares the  *)
(* server with its clients, its own save points and the rewriting of its   *)
(* append-only file.                                                       *)
(*                                                                         *)
(* The content of the server and of a snapshot is the number of writes it  *)
(* holds.  INFO tells seconds only.  redis-cli may fail (too many clients, *)
(* a server that is loading), which the script takes for empty output, and *)
(* of BGSAVE it does not even look at that.                                *)
(* Whoever ends the script from outside is in DumpAttempt.                 *)
(***************************************************************************)
EXTENDS Integers

CONSTANTS
    MaxPolls,   \* redisBGSaveTimeoutSeconds
    MayLose,    \* redis-cli may fail
    MaxWrites,  \* bound on the writes of clients
    MaxDelay    \* bound on the seconds that pass outside the script's sleeps

ASSUME RedisSnapshotAssumption ==
    {MaxPolls, MaxWrites, MaxDelay} \subseteq Nat /\ MayLose \in BOOLEAN

VARIABLES
    \* The server.
    data,      \* what it holds
    file,      \* what dbfilename holds; the difference is rdb_changes_since_last_save
    child,     \* its one child process: "none", "save" or "aof"
    snap,      \* what a running save had forked with
    status,    \* rdb_last_bgsave_status
    lastsave,  \* rdb_last_save_time
    now, delay,
    \* The script.
    pc,
    before,    \* $before
    polls,     \* $i
    served,    \* what cat printed
    result,    \* how it ended
    \* History.
    begun, began,  \* what the server held, and the time, when the script began
    busy,          \* a save was running then
    refused,       \* BGSAVE was refused
    lost           \* which deciding calls of redis-cli have failed

server == <<data, file, child, snap, status, lastsave>>
clock == <<now, delay>>
history == <<begun, began, busy, refused, lost>>
script == <<pc, before, polls, served, result>>
vars == <<server, clock, script, history>>

Versions == 0..MaxWrites
Times == 0..(MaxDelay + MaxPolls + 1)
Empty == -1  \* what grep finds in nothing

TypeOK ==
    /\ {data, file, snap, served, begun} \subseteq Versions
    /\ child \in {"none", "save", "aof"} /\ status \in {"ok", "err"}
    /\ {lastsave, now, began} \subseteq Times /\ delay \in 0..MaxDelay
    /\ pc \in {"begin", "bgsave", "sleep", "poll", "info", "cat", "done"}
    /\ before \in Times \cup {Empty} /\ polls \in 0..MaxPolls
    /\ result \in {"none", "ok", "err", "unchanged", "timeout", "failed"}
    /\ {busy, refused} \subseteq BOOLEAN /\ lost \subseteq {"before", "bgsave", "info", "path"}

Init ==
    /\ data = 0 /\ file = 0 /\ child = "none" /\ snap = 0 /\ status = "ok"
    /\ lastsave = 0 /\ now = 0 /\ delay = 0
    /\ pc = "begin" /\ before = Empty /\ polls = 0 /\ served = 0 /\ result = "none"
    /\ begun = 0 /\ began = 0 /\ busy = FALSE /\ refused = FALSE /\ lost = {}

-----------------------------------------------------------------------------
(* The server and its other clients                                        *)

Write ==
    /\ data < MaxWrites /\ data' = data + 1
    /\ UNCHANGED <<file, child, snap, status, lastsave, clock, script, history>>

\* A save begins, or the fork fails.
Fork ==
    /\ child = "none"
    /\ \/ child' = "save" /\ snap' = data /\ UNCHANGED status
       \/ status' = "err" /\ UNCHANGED <<child, snap>>
    /\ UNCHANGED <<data, file, lastsave>>

\* A save point, or another client's BGSAVE.
AutoSave == Fork /\ UNCHANGED <<clock, script, history>>

Rewrite ==
    /\ child = "none" /\ child' = "aof"
    /\ UNCHANGED <<data, file, snap, status, lastsave, clock, script, history>>

\* The temporary file is renamed to dbfilename, or the save has failed.
SaveEnds ==
    /\ child = "save" /\ child' = "none"
    /\ \/ file' = snap /\ status' = "ok" /\ lastsave' = now
       \/ status' = "err" /\ UNCHANGED <<file, lastsave>>
    /\ UNCHANGED <<data, snap, clock, script, history>>

RewriteEnds ==
    /\ child = "aof" /\ child' = "none"
    /\ UNCHANGED <<data, file, snap, status, lastsave, clock, script, history>>

Second ==
    /\ delay < MaxDelay /\ delay' = delay + 1 /\ now' = now + 1
    /\ UNCHANGED <<server, script, history>>

-----------------------------------------------------------------------------
(* The script                                                              *)

\* before=$(redis-cli INFO persistence | ...)
Before ==
    /\ pc = "begin" /\ pc' = "bgsave"
    /\ begun' = data /\ began' = now /\ busy' = (child = "save")
    /\ \/ before' = lastsave /\ UNCHANGED lost
       \/ MayLose /\ before' = Empty /\ lost' = {"before"}
    /\ UNCHANGED <<server, clock, polls, served, result, refused>>

\* redis-cli BGSAVE > /dev/null, whatever it says: it is refused while the server
\* has a child, and may not reach the server.
Bgsave ==
    /\ pc = "bgsave" /\ pc' = "sleep"
    /\ \/ Fork /\ UNCHANGED <<refused, lost>>
       \/ child # "none" /\ refused' = TRUE /\ UNCHANGED <<server, lost>>
       \/ MayLose /\ lost' = lost \cup {"bgsave"} /\ UNCHANGED <<server, refused>>
    /\ UNCHANGED <<clock, before, polls, served, result, begun, began, busy>>

Sleep ==
    /\ pc = "sleep" /\ pc' = "poll" /\ now' = now + 1
    /\ UNCHANGED <<server, delay, before, polls, served, result, history>>

\* Mutants of Poll: an answer is enough; it waits for the save without a limit.
PollOnce ==
    /\ pc = "poll" /\ pc' = "info"
    /\ UNCHANGED <<server, clock, before, polls, served, result, history>>

PollForever ==
    /\ pc = "poll" /\ child # "save" /\ pc' = "info"
    /\ UNCHANGED <<server, clock, before, polls, served, result, history>>

\* One turn of the loop, and what follows it: no answer counts as "in progress".
Poll ==
    /\ pc = "poll"
    /\ \/ /\ polls < MaxPolls /\ child # "save" /\ pc' = "info"
          /\ UNCHANGED <<polls, result>>
       \/ /\ polls < MaxPolls /\ (child = "save" \/ MayLose)
          /\ polls' = polls + 1 /\ pc' = "sleep" /\ UNCHANGED result
       \/ /\ polls = MaxPolls /\ result' = "timeout" /\ pc' = "done"
          /\ UNCHANGED polls
    /\ UNCHANGED <<server, clock, before, served, history>>

Reject(why) == pc' = "done" /\ result' = why

\* Mutant of Examine: the status does not matter.
ExamineTime(s, after, changed) ==
    IF after = before /\ changed THEN Reject("unchanged") ELSE pc' = "cat" /\ UNCHANGED result

\* The evidence: the status is not err, and the time of the last save has changed
\* unless there was nothing to save.
Examine(s, after, changed) ==
    \/ s = "err" /\ Reject("err")
    \/ s # "err" /\ after = before /\ changed /\ Reject("unchanged")
    \/ s # "err" /\ ~(after = before /\ changed) /\ pc' = "cat" /\ UNCHANGED result

\* info=$(redis-cli INFO persistence): an empty answer has no status, no time, and
\* a number of changes that is not "0".
Info ==
    /\ pc = "info"
    /\ \/ Examine(status, lastsave, data # file) /\ UNCHANGED lost
       \/ MayLose /\ Examine("none", Empty, TRUE) /\ lost' = lost \cup {"info"}
    /\ UNCHANGED <<server, clock, before, polls, served, begun, began, busy, refused>>

\* cat of the path that CONFIG GET has told, or of /data/dump.rdb if it could not:
\* there may be no such file, or one that the server has written before it had its
\* own path.
Cat ==
    /\ pc = "cat" /\ pc' = "done"
    /\ \/ served' = file /\ result' = "ok" /\ UNCHANGED lost
       \/ /\ MayLose /\ lost' = lost \cup {"path"}
          /\ served' \in 0..file /\ result' = "ok"
       \/ result' = "failed" /\ UNCHANGED <<served, lost>>
    /\ UNCHANGED <<server, clock, before, polls, begun, began, busy, refused>>

Script == Before \/ Bgsave \/ Sleep \/ Poll \/ Info \/ Cat

Next == Write \/ AutoSave \/ Rewrite \/ SaveEnds \/ RewriteEnds \/ Second \/ Script

Spec == Init /\ [][Next]_vars

\* The shell goes on and redis-cli returns, with an answer or without; the server
\* need not end a save.
FairSpec == Spec /\ WF_vars(Script)

-----------------------------------------------------------------------------
(* Properties                                                              *)

\* The script keeps its promise not to deliver "the old RDB of the last successful
\* save" (src/provider.go:117): what it prints holds every write that came before
\* it, unless a save was running already when it began, or the answer that decided
\* or the path of the file was lost, or the first answer was and BGSAVE was refused
\* or did not arrive.
Asked == ~refused /\ "bgsave" \notin lost
Decided == ~busy /\ lost \cap {"info", "path"} = {} /\ (Asked \/ "before" \notin lost)
FreshUnlessBusy == result = "ok" /\ Decided => served >= begun

\* ... and when BGSAVE was accepted it does not reject a new snapshot because of the
\* resolution of a second, unless the script began in the very second in which an
\* earlier save had ended, or the answer that decided was lost.
RejectedForAReason ==
    result = "unchanged" /\ Asked /\ "info" \notin lost => before = began

\* Whatever the server does, the script ends.
ScriptEnds == <>(pc = "done")

-----------------------------------------------------------------------------
(* What the documentation says, and the code does not do                   *)

\* "Otherwise it fails and refuses to deliver a stale file" (src/README.md:316).
FreshOnSuccess == result = "ok" => served >= begun
=============================================================================
