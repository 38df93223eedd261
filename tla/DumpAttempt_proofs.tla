------------------------- MODULE DumpAttempt_proofs -------------------------
(* Proofs about DumpAttempt for every format, every setting and any number *)
(* of attempts and kills.                                                  *)
EXTENDS DumpAttempt, TLAPS

-----------------------------------------------------------------------------
(* The inductive invariant                                                 *)

\* The types of the constants.
Settings == Validate \in BOOLEAN /\ Compressed \in BOOLEAN
            /\ StreamMayEndEarly \in BOOLEAN /\ MaxAttempts \in Nat /\ MaxCrashes \in Nat

\* A stream that ended without an error was cut, or ended by the dump's exit, and a
\* dump that ended it with status 0 has put out all or nothing; only a format with
\* inner markers ever looks whole before it is.
StreamEnds ==
    /\ mishap = "cut" => StreamMayEndEarly
    /\ conn = "eof" /\ mishap # "cut" => exec \in {"exited0", "exitedN"}
    /\ conn = "eof" /\ mishap # "cut" /\ exec = "exited0" => sent \in {"empty", "whole"}
    /\ pc \notin InFlight => conn = "none"
    /\ pc = "temp" => conn = "none" /\ mishap = "none"
    /\ conn \in {"open", "eof", "broken"} => mishap # "file"
    /\ "marked" \in {sent, tmp} => marker = "inner"

\* What the copy left behind, and what the exit code says about it.
CopyTells ==
    /\ pc \in {"copied", "inspected", "closed"} /\ ~copyErr => conn = "eof" /\ tmp = sent
    /\ pc \in {"inspected", "closed"} /\ exit = "nonzero" => exec = "exitedN"
    /\ pc \in {"inspected", "closed"} /\ ~copyErr /\ mishap # "cut" /\ exit = "zero" =>
           exec = "exited0"

\* A file that has passed the checks is whole, if the settings can tell.
CheckedIsWhole == pc = "checked" /\ Detectable => tmp = "whole"

\* The running attempt is newer than the published one and has no result yet.
AttemptIsNew == pc \in InFlight => att > final.att /\ result = "none"
FinalIsOlder == final.att <= att

IInv == /\ TypeOK /\ StreamEnds /\ CopyTells /\ CheckedIsWhole
        /\ AttemptIsNew /\ FinalIsOlder /\ FinalIsWholeWhenDetectable /\ PermanentForAReason

-----------------------------------------------------------------------------

LEMMA SettingsHold == Settings
  BY DumpAttemptAssumption DEF Settings

LEMMA InitTypeOK == Init => TypeOK
<1> SUFFICES ASSUME Init PROVE TypeOK
  OBVIOUS
<1> USE SettingsHold DEF Settings
<1>1. final \in [att : 0..MaxAttempts, content : Contents \cup {"absent"}]
  BY DEF Init, AD!NoDump, Contents
<1>2. copyErr \in BOOLEAN /\ litter \in BOOLEAN /\ refused \in BOOLEAN
  BY Zenon DEF Init
<1> QED BY <1>1, <1>2 DEF Init, TypeOK, InFlight, Contents, Markers

\* What is left behind, and why.
LEMMA LitterStep == TypeOK /\ [Next]_vars => litter' \in BOOLEAN /\ refused' \in BOOLEAN
<1> SUFFICES ASSUME TypeOK, [Next]_vars PROVE litter' \in BOOLEAN /\ refused' \in BOOLEAN
  OBVIOUS
<1>1. litter \in BOOLEAN /\ refused \in BOOLEAN
  BY DEF TypeOK
<1>2. CASE CreateTemp
  BY <1>1, <1>2, Zenon DEF CreateTemp
<1>3. CASE StartExec \/ CopyEnds \/ Inspect
  BY <1>1, <1>3, Zenon DEF StartExec, CopyEnds, Inspect, Return, ReturnForFile, old
<1>4. CASE Close \/ Check \/ Publish
  BY <1>1, <1>4, Zenon DEF Close, Check, Publish, Return, ReturnForFile, Proceed, old
<1>5. CASE ContextEnds \/ CloseOnCancel \/ Crash
  BY <1>1, <1>5, Zenon DEF ContextEnds, CloseOnCancel, Crash, old
<1>6. CASE NextRound
  <2>1. litter' = litter \/ litter' = FALSE
    BY <1>6, Zenon DEF NextRound
  <2>2. refused' = FALSE \/ refused' = TRUE
    BY <1>6, Zenon DEF NextRound
  <2> QED BY <1>1, <2>1, <2>2, Zenon
<1>7. CASE Environment
  BY <1>1, <1>7, Zenon DEF Environment, DumpWrites, DumpExits, ConnectionDrops, WriteFails, old
<1>8. CASE UNCHANGED vars
  BY <1>1, <1>8, Zenon DEF vars
<1> QED BY <1>2, <1>3, <1>4, <1>5, <1>6, <1>7, <1>8 DEF Next, WriteBackup

\* Each step keeps every variable within its type.
LEMMA TypeStep == TypeOK /\ [Next]_vars => TypeOK'
<1> SUFFICES ASSUME TypeOK, [Next]_vars PROVE TypeOK'
  OBVIOUS
<1> litter' \in BOOLEAN /\ refused' \in BOOLEAN
  BY LitterStep
<1> USE SettingsHold DEF Settings, TypeOK, InFlight, Contents, Markers
<1>1. CASE CreateTemp
  BY <1>1 DEF CreateTemp, answers
<1>2. CASE StartExec
  BY <1>2 DEF StartExec, Return, ReturnForFile, Proceed, answers, old
<1>3. CASE CopyEnds
  <2>1. copyErr' \in BOOLEAN
    BY <1>3 DEF CopyEnds
  <2> QED BY <1>3, <2>1 DEF CopyEnds, remote, old
<1>4. CASE Inspect
  BY <1>4 DEF Inspect, remote, old
<1>5. CASE Close \/ Check
  BY <1>5 DEF Close, Check, Return, ReturnForFile, Proceed, answers, old
<1>6. CASE Publish
  BY <1>6 DEF Publish, Return, ReturnForFile, Proceed, answers, old
<1>7. CASE ContextEnds \/ CloseOnCancel \/ Crash \/ NextRound
  <2>1. CASE NextRound
    <3>1. Resume /\ tmp' \in {tmp, "absent"}
      BY <2>1, Zenon DEF NextRound
    <3> QED BY <3>1 DEF Resume, answers, remote
  <2>2. CASE ContextEnds \/ CloseOnCancel \/ Crash
    BY <2>2 DEF ContextEnds, CloseOnCancel, Crash, answers, remote, old
  <2> QED BY <1>7, <2>1, <2>2
<1>8. CASE Environment
  <2>1. CASE WriteFails
    BY <2>1 DEF WriteFails, remote, old
  <2>2. CASE DumpWrites \/ DumpExits \/ ConnectionDrops
    BY <2>2 DEF DumpWrites, DumpExits, ConnectionDrops, answers, old
  <2> QED BY <1>8, <2>1, <2>2 DEF Environment
<1>9. CASE UNCHANGED vars
  BY <1>9 DEF vars
<1> QED BY <1>1, <1>2, <1>3, <1>4, <1>5, <1>6, <1>7, <1>8, <1>9 DEF Next, WriteBackup

\* The stream, the copy and the checks.
LEMMA StreamStep == IInv /\ [Next]_vars => StreamEnds' /\ CopyTells' /\ CheckedIsWhole'
<1> SUFFICES ASSUME IInv, [Next]_vars PROVE StreamEnds' /\ CopyTells' /\ CheckedIsWhole'
  OBVIOUS
<1> TypeOK /\ StreamEnds /\ CopyTells /\ CheckedIsWhole
  BY DEF IInv
<1> USE SettingsHold
    DEF Settings, TypeOK, InFlight, Contents, Markers, StreamEnds, CopyTells, CheckedIsWhole, Detectable
<1>1. CASE CreateTemp
  <2>1. /\ pc' = "temp" /\ conn' = "none" /\ exec' = "none" /\ sent' = "empty" /\ tmp' = "empty"
        /\ mishap' = "none" /\ UNCHANGED <<marker, copyErr, exit>>
    BY <1>1, Zenon DEF CreateTemp, answers
  <2> QED BY <2>1
<1>2. CASE StartExec
  BY <1>2 DEF StartExec, Return, ReturnForFile, Proceed, answers, old
<1>3. CASE CopyEnds
  BY <1>3 DEF CopyEnds, remote, old
<1>4. CASE Inspect
  BY <1>4 DEF Inspect, remote, old
<1>5. CASE Close \/ Check
  <2>1. CASE Close \/ pc' = "idle"
    BY <1>5, <2>1 DEF Close, Check, Return, ReturnForFile, Proceed, answers, old
  <2>2. CASE Check /\ pc' # "idle"
    <3>1. /\ ~copyErr /\ exit = "zero" /\ pc' = "checked" /\ pc = "closed"
          /\ UNCHANGED <<tmp, conn, exec, sent, marker, mishap, copyErr, exit>>
          /\ ~ZeroBytes(tmp) /\ (Validate => Valid(tmp))
      BY <2>2 DEF Check, Reject, Return, ReturnForFile, Proceed, answers, old
    <3>2. Detectable => tmp = "whole"
      BY <3>1 DEF ZeroBytes, Valid
    <3> QED BY <3>1, <3>2
  <2> QED BY <1>5, <2>1, <2>2
<1>6. CASE Publish
  BY <1>6 DEF Publish, Return, ReturnForFile, Proceed, answers, old
<1>7. CASE ContextEnds \/ CloseOnCancel \/ Crash \/ NextRound
  <2>1. CASE NextRound
    <3>1. Resume /\ tmp' \in {tmp, "absent"}
      BY <2>1, Zenon DEF NextRound
    <3> QED BY <3>1 DEF Resume, answers, remote
  <2>2. CASE ContextEnds \/ CloseOnCancel \/ Crash
    BY <2>2 DEF ContextEnds, CloseOnCancel, Crash, answers, remote, old
  <2> QED BY <1>7, <2>1, <2>2
<1>8. CASE Environment
  <2>1. CASE DumpWrites
    BY <2>1 DEF DumpWrites, answers, old
  <2>2. CASE DumpExits
    BY <2>2 DEF DumpExits, answers, old
  <2>3. CASE ConnectionDrops
    BY <2>3 DEF ConnectionDrops, answers, old
  <2>4. CASE WriteFails
    BY <2>4 DEF WriteFails, remote, old
  <2> QED BY <1>8, <2>1, <2>2, <2>3, <2>4 DEF Environment
<1>9. CASE UNCHANGED vars
  BY <1>9 DEF vars
<1> QED BY <1>1, <1>2, <1>3, <1>4, <1>5, <1>6, <1>7, <1>8, <1>9 DEF Next, WriteBackup

\* The published file: only Publish changes it, to the running attempt's file.
LEMMA FinalStep ==
    IInv /\ [Next]_vars => AttemptIsNew' /\ FinalIsOlder' /\ FinalIsWholeWhenDetectable'
<1> SUFFICES ASSUME IInv, [Next]_vars
             PROVE  AttemptIsNew' /\ FinalIsOlder' /\ FinalIsWholeWhenDetectable'
  OBVIOUS
<1> TypeOK /\ CheckedIsWhole /\ AttemptIsNew /\ FinalIsOlder /\ FinalIsWholeWhenDetectable
  BY DEF IInv
<1> USE SettingsHold
    DEF Settings, TypeOK, InFlight, AttemptIsNew, FinalIsOlder, FinalIsWholeWhenDetectable,
        FinalIsWhole, Detectable
<1>1. CASE CreateTemp
  BY <1>1 DEF CreateTemp
<1>2. CASE StartExec
  BY <1>2 DEF StartExec, Return, ReturnForFile, old
<1>3. CASE CopyEnds \/ Inspect
  BY <1>3 DEF CopyEnds, Inspect, old
<1>4. CASE Close \/ Check
  BY <1>4 DEF Close, Check, Return, ReturnForFile, Proceed, old
<1>5. CASE Publish
  BY <1>5 DEF Publish, Return, old, CheckedIsWhole
<1>6. CASE ContextEnds \/ CloseOnCancel \/ Crash \/ NextRound
  BY <1>6 DEF ContextEnds, CloseOnCancel, Crash, Resume, NextRound, old
<1>7. CASE Environment
  BY <1>7 DEF Environment, DumpWrites, DumpExits, ConnectionDrops, WriteFails, old
<1>8. CASE UNCHANGED vars
  BY <1>8 DEF vars
<1> QED BY <1>1, <1>2, <1>3, <1>4, <1>5, <1>6, <1>7, <1>8 DEF Next, WriteBackup

\* The reasons of a permanent failure.
LEMMA PermanentStep == IInv /\ [Next]_vars => PermanentForAReason'
<1> SUFFICES ASSUME IInv, [Next]_vars PROVE PermanentForAReason'
  OBVIOUS
<1> TypeOK /\ StreamEnds /\ CopyTells /\ AttemptIsNew /\ PermanentForAReason
  BY DEF IInv
<1> USE DEF TypeOK, InFlight, Contents, Markers, StreamEnds, AttemptIsNew, PermanentForAReason
<1>1. CASE CreateTemp
  BY <1>1 DEF CreateTemp
<1>2. CASE StartExec
  BY <1>2 DEF StartExec, Return, ReturnForFile
<1>3. CASE CopyEnds \/ Inspect
  BY <1>3 DEF CopyEnds, Inspect, remote
<1>4. CASE Close
  BY <1>4 DEF Close, Return, ReturnForFile, Proceed
<1>5. CASE Check
  <2>1. CASE result' = "permanent" /\ mishap' # "file"
    <3>1. /\ pc = "closed" /\ Reject /\ ~copyErr /\ exit # "error"
          /\ UNCHANGED <<exec, sent, mishap>>
      BY <1>5, <2>1 DEF Check, Return, ReturnForFile, Proceed
    <3>2. conn = "eof" /\ tmp = sent
      BY <3>1 DEF CopyTells
    <3>3. CASE exit = "nonzero"
      BY <3>1, <3>3 DEF CopyTells
    <3>4. CASE exit = "zero" /\ mishap # "cut"
      <4>1. exec = "exited0" /\ sent \in {"empty", "whole"}
        BY <3>1, <3>2, <3>4 DEF CopyTells
      <4>2. ZeroBytes(tmp) \/ ~Valid(tmp)
        BY <3>1, <3>4 DEF Reject
      <4>3. sent = "empty"
        BY <3>2, <4>1, <4>2 DEF ZeroBytes, Valid
      <4> QED BY <3>1, <4>1, <4>3
    <3>5. CASE mishap = "cut"
      BY <3>1, <3>5
    <3> QED BY <3>1, <3>3, <3>4, <3>5
  <2> QED BY <1>5, <2>1 DEF Check, Return, ReturnForFile, Proceed
<1>6. CASE Publish
  BY <1>6 DEF Publish, Return
<1>7. CASE ContextEnds \/ CloseOnCancel \/ Crash \/ NextRound
  BY <1>7 DEF ContextEnds, CloseOnCancel, Crash, Resume, NextRound, remote
<1>8. CASE Environment
  BY <1>8 DEF Environment, DumpWrites, DumpExits, ConnectionDrops, WriteFails, remote
<1>9. CASE UNCHANGED vars
  BY <1>9 DEF vars
<1> QED BY <1>1, <1>2, <1>3, <1>4, <1>5, <1>6, <1>7, <1>8, <1>9 DEF Next, WriteBackup

LEMMA IInvCorrect == Spec => []IInv
<1>1. Init => IInv
  <2> SUFFICES ASSUME Init PROVE IInv
    OBVIOUS
  <2>1. TypeOK
    BY InitTypeOK
  <2>2. pc = "idle" /\ final.att = 0 /\ att = 0 /\ final.content \in {"absent", "whole"}
    BY DEF Init, AD!NoDump
  <2>3. StreamEnds
    BY DEF Init, StreamEnds
  <2> QED BY <2>1, <2>2, <2>3 DEF IInv, CopyTells, CheckedIsWhole, AttemptIsNew,
             FinalIsOlder, FinalIsWholeWhenDetectable, FinalIsWhole, PermanentForAReason,
             Init, InFlight
<1>2. IInv /\ [Next]_vars => IInv'
  BY TypeStep, StreamStep, FinalStep, PermanentStep DEF IInv
<1> QED BY <1>1, <1>2, PTL DEF Spec

-----------------------------------------------------------------------------
(* The theorems                                                            *)

\* Every reachable state of the attempts has the declared shape.
THEOREM TypeCorrect == Spec => []TypeOK
  BY InitTypeOK, TypeStep, PTL DEF Spec

\* Whatever the dump, the connection, timeouts and kills do, the file at the
\* final path is whole, under the settings that make a cut detectable.
THEOREM PublishedDumpIsWhole == Spec => []FinalIsWholeWhenDetectable
<1>1. IInv => FinalIsWholeWhenDetectable
  BY DEF IInv
<1> QED BY <1>1, IInvCorrect, PTL

\* The attempts implement the abstract dump, with every format and setting: every
\* step begins an attempt, publishes a newer dump, fails, or stutters; and what is
\* published is whole where a cut can be told.
THEOREM AttemptsAreAtomic == Spec => ImplementsAtomicDump
<1>1. Init => AD!Init
  BY DEF Init, AD!Init, AD!NoDump
<1>2. IInv /\ [Next]_vars => [AD!Next]_<<final, result, Detectable>>
  <2> SUFFICES ASSUME IInv, [Next]_vars PROVE [AD!Next]_<<final, result, Detectable>>
    OBVIOUS
  <2> TypeOK /\ CheckedIsWhole /\ AttemptIsNew
    BY DEF IInv
  <2>0. Detectable' = Detectable
    <3>1. marker' = marker
      BY DEF Next, WriteBackup, CreateTemp, StartExec, CopyEnds, Inspect, Close, Check, Publish,
             ContextEnds, CloseOnCancel, Crash, Resume, NextRound, Environment, DumpWrites,
             DumpExits, ConnectionDrops, WriteFails, old, vars
    <3> QED BY <3>1 DEF Detectable
  <2> USE DEF AttemptIsNew, InFlight, AD!Next
  <2>1. CASE CreateTemp
    BY <2>0, <2>1 DEF CreateTemp, AD!Begin
  <2>2. CASE StartExec
    BY <2>0, <2>2 DEF StartExec, Return, ReturnForFile, AD!Fail
  <2>3. CASE CopyEnds \/ Inspect
    BY <2>0, <2>3 DEF CopyEnds, Inspect
  <2>4. CASE Close \/ Check
    BY <2>0, <2>4 DEF Close, Check, Return, ReturnForFile, Proceed, AD!Fail
  <2>5. CASE Publish
    <3>1. CASE result' = "ok"
      <4>1. /\ final' = [att |-> att, content |-> tmp] /\ result = "none"
            /\ Detectable => tmp = "whole"
        BY <2>5, <3>1 DEF Publish, Return, CheckedIsWhole
      <4>2. final'.att = att /\ att \in Nat /\ att > final.att
        BY <2>5, <4>1, SettingsHold DEF Publish, TypeOK, Settings
      <4> QED BY <2>0, <3>1, <4>1, <4>2 DEF AD!Succeed
    <3>2. CASE result' # "ok"
      BY <2>0, <2>5, <3>2 DEF Publish, Return, AD!Fail
    <3> QED BY <3>1, <3>2
  <2>6. CASE ContextEnds \/ CloseOnCancel \/ Crash \/ NextRound
    BY <2>0, <2>6 DEF ContextEnds, CloseOnCancel, Crash, Resume, NextRound
  <2>7. CASE Environment
    BY <2>0, <2>7 DEF Environment, DumpWrites, DumpExits, ConnectionDrops, WriteFails
  <2>8. CASE UNCHANGED vars
    BY <2>0, <2>8 DEF vars
  <2> QED BY <2>1, <2>2, <2>3, <2>4, <2>5, <2>6, <2>7, <2>8 DEF Next, WriteBackup
<1> QED BY <1>1, <1>2, IInvCorrect, PTL DEF Spec, ImplementsAtomicDump, AD!Spec

\* No attempt leaves a temporary file behind that can be removed, and a round that
\* follows a kill starts without one.
THEOREM TempIsCleanedUp == Spec => []NoStrayTemp
<1> DEFINE Clean == NoStrayTemp /\ (~refused => ~litter)
<1>1. Init => Clean
  BY DEF Init, NoStrayTemp
<1>2. TypeOK /\ Clean /\ [Next]_vars => Clean'
  <2> SUFFICES ASSUME TypeOK, Clean, [Next]_vars PROVE Clean'
    OBVIOUS
  <2> USE DEF NoStrayTemp, InFlight, TypeOK, old, remote
  <2>1. CASE CreateTemp \/ StartExec \/ CopyEnds \/ Inspect
    BY <2>1 DEF CreateTemp, StartExec, CopyEnds, Inspect, Return, ReturnForFile
  <2>2. CASE Close \/ Check \/ Publish
    BY <2>2 DEF Close, Check, Publish, Return, ReturnForFile, Proceed
  <2>3. CASE ContextEnds \/ CloseOnCancel \/ Crash \/ NextRound
    <3>1. CASE NextRound
      <4>1. CASE tmp' = "absent" /\ litter' = FALSE /\ refused' = FALSE
        BY <4>1, Zenon DEF NoStrayTemp
      <4>2. CASE refused' = TRUE
        BY <4>2, Zenon DEF NoStrayTemp
      <4> QED BY <3>1, <4>1, <4>2, Zenon DEF NextRound
    <3>2. CASE ContextEnds \/ CloseOnCancel \/ Crash
      BY <3>2 DEF ContextEnds, CloseOnCancel, Crash
    <3> QED BY <2>3, <3>1, <3>2
  <2>4. CASE Environment \/ UNCHANGED vars
    BY <2>4 DEF Environment, DumpWrites, DumpExits, ConnectionDrops, WriteFails, vars
  <2> QED BY <2>1, <2>2, <2>3, <2>4 DEF Next, WriteBackup
<1>3. Clean => NoStrayTemp
  OBVIOUS
<1> QED BY <1>1, <1>2, <1>3, TypeCorrect, PTL DEF Spec

\* A permanent failure has one of the reasons that the property names, so that a
\* timeout or a broken connection is always tried again.
THEOREM PermanentFailuresAreJustified == Spec => []PermanentForAReason
<1>1. IInv => PermanentForAReason
  BY DEF IInv
<1> QED BY <1>1, IInvCorrect, PTL
-----------------------------------------------------------------------------
(* Progress                                                                *)

\* A copy always has a stream, and once the context has ended either the stream is
\* over, so that the copy returns, or it is open, so that the context closes it.
Interruptible ==
    /\ pc = "copying" => conn \in {"open", "eof", "broken"}
    /\ conn = "open" => exec # "none"

\* No copy hangs beyond its context for want of something to interrupt.
THEOREM CopiesAreInterruptible == Spec => []Interruptible
<1>1. Init => Interruptible
  BY DEF Init, Interruptible
<1>2. TypeOK /\ Interruptible /\ [Next]_vars => Interruptible'
  BY DEF TypeOK, Interruptible, InFlight, Next, WriteBackup, CreateTemp, StartExec, CopyEnds,
         Inspect, Close, Check, Publish, Return, ReturnForFile, Proceed, ContextEnds, CloseOnCancel, Crash, Resume, NextRound,
         Environment, DumpWrites, DumpExits, ConnectionDrops, WriteFails, vars, remote, old
<1> QED BY <1>1, <1>2, TypeCorrect, PTL DEF Spec

\* How much can still happen in an attempt: the stages of writeBackup, the end of the
\* context, of the stream and of the dump program, and the output.
Stage ==
    IF pc = "temp" THEN 8 ELSE IF pc = "copying" THEN 5 ELSE IF pc = "copied" THEN 4
    ELSE IF pc = "inspected" THEN 3 ELSE IF pc = "closed" THEN 2 ELSE IF pc = "checked" THEN 1
    ELSE 0
Pending(condition) == IF condition THEN 1 ELSE 0
Output ==
    IF sent = "empty" THEN 3 ELSE IF sent = "part" THEN 2 ELSE IF sent = "marked" THEN 1 ELSE 0
Left == Stage + Pending(ctx = "live") + Pending(conn = "open") + Pending(exec = "running") + Output

\* Whatever happens while an attempt runs, less can happen after it.
Forward == pc \in InFlight => Left \in 1..14 /\ Left' < Left

\* An attempt is over after fourteen steps at most, whoever takes them: writeBackup,
\* the context, the dump program, the connection or a kill.
THEOREM AttemptsGoForward == Spec => [][Forward]_vars
<1> DEFINE c == Pending(ctx = "live")
           o == Pending(conn = "open")
           e == Pending(exec = "running")
<1>1. TypeOK /\ Next => Forward
  <2> SUFFICES ASSUME TypeOK, Next, pc \in InFlight PROVE Left \in 1..14 /\ Left' < Left
    BY DEF Forward
  <2>1. /\ Stage \in 1..8 /\ c \in 0..1 /\ o \in 0..1 /\ e \in 0..1 /\ Output \in 0..3
        /\ Stage' \in 0..8 /\ c' \in 0..1 /\ o' \in 0..1 /\ e' \in 0..1 /\ Output' \in 0..3
    BY DEF InFlight, Stage, Pending, Output
  <2>2. Stage' + c' + o' + e' + Output' < Stage + c + o + e + Output
    <3>1. CASE StartExec
      BY <3>1, SMT DEF StartExec, Return, ReturnForFile, TypeOK, InFlight, Contents, Stage, Pending, Output
    <3>2. CASE CopyEnds
      BY <3>2, SMT DEF CopyEnds, remote, old, TypeOK, InFlight, Contents, Stage, Pending, Output
    <3>3. CASE Inspect
      BY <3>3, SMT DEF Inspect, remote, old, TypeOK, InFlight, Contents, Stage, Pending, Output
    <3>4. CASE Close
      BY <3>4, SMT DEF Close, Return, ReturnForFile, Proceed, TypeOK, InFlight, Contents, Stage, Pending, Output
    <3>5. CASE Check
      BY <3>5, SMT DEF Check, Return, ReturnForFile, Proceed, TypeOK, InFlight, Contents, Stage, Pending, Output
    <3>6. CASE Publish
      BY <3>6, SMT DEF Publish, Return, TypeOK, InFlight, Contents, Stage, Pending, Output
    <3>7. CASE ContextEnds
      BY <3>7, SMT DEF ContextEnds, remote, old, TypeOK, InFlight, Contents, Stage, Pending, Output
    <3>8. CASE CloseOnCancel
      BY <3>8, SMT DEF CloseOnCancel, TypeOK, InFlight, Contents, Stage, Pending, Output
    <3>9. CASE Crash
      BY <3>9, SMT DEF Crash, TypeOK, InFlight, Contents, Stage, Pending, Output
    <3>10. CASE DumpWrites
      BY <3>10, SMT DEF DumpWrites, TypeOK, InFlight, Contents, Stage, Pending, Output
    <3>11. CASE DumpExits
      BY <3>11, SMT DEF DumpExits, TypeOK, InFlight, Contents, Stage, Pending, Output
    <3>12. CASE ConnectionDrops
      BY <3>12, SMT DEF ConnectionDrops, TypeOK, InFlight, Contents, Stage, Pending, Output
    <3>13. CASE WriteFails
      BY <3>13, SMT DEF WriteFails, remote, old, TypeOK, InFlight, Contents, Stage, Pending, Output
    <3> QED
      BY <3>1, <3>2, <3>3, <3>4, <3>5, <3>6, <3>7, <3>8, <3>9, <3>10, <3>11, <3>12, <3>13
         DEF Next, WriteBackup, Environment, CreateTemp, Resume, NextRound, InFlight
  <2> QED BY <2>1, <2>2 DEF Left
<1> QED BY <1>1, TypeCorrect, PTL DEF Spec
=============================================================================
