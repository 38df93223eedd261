----------------------- MODULE RedisSnapshot_proofs ------------------------
(* Proofs about RedisSnapshot for every limit of the polling, any number of *)
(* writes and seconds, with and without lost answers.                       *)
EXTENDS RedisSnapshot, TLAPS

LEMMA Constants == MaxPolls \in Nat /\ MaxWrites \in Nat /\ MaxDelay \in Nat
  BY RedisSnapshotAssumption

\* Every second is one of the script's sleeps or one of the delay.
Clocked == now <= delay + polls + (IF pc \in {"begin", "bgsave", "sleep"} THEN 0 ELSE 1)

\* What lies behind what: snapshots behind the server, what was seen behind the clock.
Ordered ==
    /\ file <= data /\ snap <= data /\ begun <= data
    /\ lastsave <= now /\ began <= now /\ before <= began
    /\ pc = "begin" => before = Empty /\ lost = {}
    /\ pc # "begin" /\ before = Empty => "before" \in lost
    /\ pc # "done" => result = "none"

\* A save that is running when none ran at the start holds what the script wants, so
\* the file does, or no save has ended since.
Renewed ==
    pc # "begin" /\ ~busy =>
        /\ child = "save" => snap >= begun
        /\ file >= begun \/ lastsave = before \/ before = Empty

\* What an accepted BGSAVE leads to.
Accepted ==
    /\ pc \in {"sleep", "poll"} /\ Asked =>
           child = "save" \/ status = "err" \/ (lastsave >= began /\ (busy \/ file >= begun))
    /\ pc = "info" /\ Asked =>
           status = "err" \/ (lastsave >= began /\ (busy \/ file >= begun))

\* What the evidence has shown.
Shown ==
    /\ pc = "cat" /\ Decided => file >= begun
    /\ FreshUnlessBusy
    /\ RejectedForAReason

IInv == TypeOK /\ Clocked /\ Ordered /\ Renewed /\ Accepted /\ Shown

-----------------------------------------------------------------------------
(* The invariant                                                            *)

LEMMA InitIInv == Init => IInv
<1> SUFFICES ASSUME Init PROVE IInv
  OBVIOUS
<1>1. {data, file, snap, served, begun} \subseteq Versions /\ {lastsave, now,
       began} \subseteq Times
  BY Constants DEF Init, Versions, Times
<1>2. {busy, refused} \subseteq BOOLEAN
  BY DEF Init
<1>3. TypeOK
  BY <1>1, <1>2, Constants DEF Init, TypeOK
<1>4. Clocked /\ Ordered /\ Renewed /\ Accepted /\ Shown
  BY DEF Init, Clocked, Ordered, Renewed, Accepted, Asked, Shown, Decided, FreshUnlessBusy,
         RejectedForAReason, Empty
<1> QED BY <1>3, <1>4 DEF IInv

\* The server alone: what it does to the parts of the invariant.
LEMMA ServerStep ==
    ASSUME IInv, Write \/ AutoSave \/ Rewrite \/ SaveEnds \/ RewriteEnds
    PROVE  IInv'
<1> USE Constants
<1>1. {data, file, snap, served, begun, data', file', snap'} \subseteq Versions
      /\ {lastsave, now, began, lastsave'} \subseteq Times
  BY DEF IInv, TypeOK, Write, AutoSave, Fork, Rewrite, SaveEnds, RewriteEnds, Versions
<1>2. UNCHANGED <<clock, script, history>>
  BY DEF Write, AutoSave, Rewrite, SaveEnds, RewriteEnds
<1>3. TypeOK'
  BY <1>1, <1>2 DEF IInv, TypeOK, Write, AutoSave, Fork, Rewrite, SaveEnds, RewriteEnds,
         clock, script, history
<1> USE DEF clock, script, history, Versions, Times
<1>4. Clocked'
  BY <1>2 DEF IInv, Clocked
<1>5. Ordered'
  BY <1>1, <1>2 DEF IInv, Ordered, Write, AutoSave, Fork, Rewrite, SaveEnds, RewriteEnds
<1>6. Renewed'
  BY <1>1, <1>2 DEF IInv, Ordered, Renewed, Write, AutoSave, Fork, Rewrite, SaveEnds,
         RewriteEnds
<1>7. Accepted'
  BY <1>1, <1>2 DEF IInv, Ordered, Renewed, Accepted, Asked, Write, AutoSave, Fork,
         Rewrite, SaveEnds,
         RewriteEnds
<1>8. Shown'
  BY <1>1, <1>2 DEF IInv, Ordered, Renewed, Shown, Decided, Asked, FreshUnlessBusy,
         RejectedForAReason,
         Write, AutoSave, Fork, Rewrite, SaveEnds, RewriteEnds
<1> QED BY <1>3, <1>4, <1>5, <1>6, <1>7, <1>8 DEF IInv

LEMMA TimePasses == ASSUME IInv, Second \/ Sleep PROVE IInv'
<1> USE Constants DEF server, clock, script, history
<1>1. {lastsave, now, began} \subseteq Times /\ delay \in Nat /\ polls \in 0..MaxPolls
  BY DEF IInv, TypeOK
<1>2. now' \in Times /\ delay' \in 0..MaxDelay /\ Clocked'
  BY <1>1 DEF IInv, TypeOK, Clocked, Second, Sleep, Times
<1>3. TypeOK'
  BY <1>1, <1>2 DEF IInv, TypeOK, Second, Sleep
<1>4. Ordered'
  BY <1>1 DEF IInv, Ordered, Second, Sleep, Times
<1>5. Renewed' /\ Accepted'
  BY DEF IInv, Renewed, Accepted, Asked, Second, Sleep
<1>6. Shown'
  BY DEF IInv, Shown, Decided, Asked, FreshUnlessBusy, RejectedForAReason, Second, Sleep
<1> QED BY <1>2, <1>3, <1>4, <1>5, <1>6 DEF IInv

LEMMA BeforeStep == ASSUME IInv, Before PROVE IInv'
<1> USE Constants DEF server, clock
<1>1. {data, file, snap} \subseteq Versions /\ {lastsave, now, began} \subseteq Times
  BY DEF IInv, TypeOK
<1>2. {busy', refused'} \subseteq BOOLEAN
  BY Zenon DEF IInv, TypeOK, Before
<1>3. TypeOK'
  BY <1>1, <1>2 DEF IInv, TypeOK, Before
<1>4. Clocked' /\ Ordered'
  BY <1>1 DEF IInv, Clocked, Ordered, Before, Times, Versions, Empty
<1>5. Renewed' /\ Accepted' /\ Shown'
  BY DEF IInv, Ordered, Renewed, Accepted, Asked, Shown, Decided, FreshUnlessBusy,
         RejectedForAReason, Before
<1> QED BY <1>3, <1>4, <1>5 DEF IInv

LEMMA BgsaveStep == ASSUME IInv, Bgsave PROVE IInv'
<1> USE Constants DEF server, clock, Versions, Times
<1>1. {data, file, snap, begun, snap'} \subseteq Versions /\ {lastsave, now,
       began} \subseteq Times
  BY DEF IInv, TypeOK, Bgsave, Fork
<1>2. {busy', refused'} \subseteq BOOLEAN
  BY DEF IInv, TypeOK, Bgsave
<1>3. TypeOK'
  BY <1>1, <1>2 DEF IInv, TypeOK, Bgsave, Fork
<1>4. Clocked' /\ Ordered'
  BY <1>1 DEF IInv, Clocked, Ordered, Bgsave, Fork
<1>5. Renewed' /\ Accepted'
  BY <1>1 DEF IInv, Ordered, Renewed, Accepted, Asked, Bgsave, Fork
<1>6. Shown'
  BY DEF IInv, Ordered, Shown, Asked, Decided, FreshUnlessBusy, RejectedForAReason, Bgsave, Fork
<1> QED BY <1>3, <1>4, <1>5, <1>6 DEF IInv

LEMMA PollStep == ASSUME IInv, Poll PROVE IInv'
<1> USE Constants DEF server, clock, history
<1>1. polls \in 0..MaxPolls /\ now \in Times /\ delay \in 0..MaxDelay
  BY DEF IInv, TypeOK
<1>2. polls' \in 0..MaxPolls /\ Clocked'
  BY <1>1 DEF IInv, Clocked, Poll, Times
<1>3. TypeOK'
  BY <1>2 DEF IInv, TypeOK, Poll
<1>4. Ordered' /\ Renewed' /\ Accepted'
  BY DEF IInv, Ordered, Renewed, Accepted, Asked, Poll
<1>5. Shown'
  BY DEF IInv, Ordered, Shown, Asked, Decided, FreshUnlessBusy, RejectedForAReason, Poll
<1> QED BY <1>2, <1>3, <1>4, <1>5 DEF IInv

LEMMA InfoStep == ASSUME IInv, Info PROVE IInv'
<1> USE Constants DEF server, clock, Examine, Reject
<1>1. {data, file, snap, begun} \subseteq Versions /\ {lastsave, now, began} \subseteq Times
  BY DEF IInv, TypeOK
<1>2. pc = "info" /\ pc' \in {"cat",
       "done"} /\ lost \subseteq lost' /\ result' \in {"none", "err", "unchanged"}
       /\ lost' \subseteq {"before", "bgsave", "info", "path"}
  BY DEF IInv, TypeOK, Ordered, Info
<1>3. TypeOK'
  BY <1>2 DEF IInv, TypeOK, Info
<1>4. Clocked' /\ Renewed' /\ Accepted'
  BY <1>2 DEF IInv, Clocked, Renewed, Accepted, Asked, Info
<1>5. Ordered'
  BY <1>2 DEF IInv, Ordered, Info
<1>6. Shown'
  <2>1. CASE Examine(status, lastsave, data # file) /\ UNCHANGED lost
    BY <1>1, <1>2, <2>1 DEF IInv, Ordered, Renewed, Accepted, Asked, Shown, Decided,
           FreshUnlessBusy, RejectedForAReason, Info, Versions, Times
  <2>2. CASE lost' = lost \cup {"info"}
    BY <1>2, <2>2 DEF Shown, Decided, Asked, FreshUnlessBusy, RejectedForAReason
  <2> QED BY <2>1, <2>2 DEF Info
<1> QED BY <1>3, <1>4, <1>5, <1>6 DEF IInv

LEMMA CatStep == ASSUME IInv, Cat PROVE IInv'
<1> USE DEF server, clock, history
<1>1. TypeOK'
  <2>1. file \in Nat /\ served' \in 0..file \cup {served, file}
    BY DEF IInv, TypeOK, Versions, Cat
  <2>2. served' \in Versions
    BY <2>1, Constants DEF IInv, TypeOK, Versions
  <2>3. lost' \subseteq {"before", "bgsave", "info", "path"} /\ result' \in {"ok",
         "failed", "none"}
    BY DEF IInv, TypeOK, Ordered, Cat
  <2> QED BY <2>2, <2>3 DEF IInv, TypeOK, Cat
<1>2. Clocked' /\ Ordered' /\ Renewed' /\ Accepted'
  BY DEF IInv, Clocked, Ordered, Renewed, Accepted, Asked, Cat
<1>3. Shown'
  BY DEF IInv, Shown, Decided, Asked, FreshUnlessBusy, RejectedForAReason, Cat
<1> QED BY <1>1, <1>2, <1>3 DEF IInv

LEMMA StepIInv == IInv /\ [Next]_vars => IInv'
<1> SUFFICES ASSUME IInv, [Next]_vars PROVE IInv'
  OBVIOUS
<1>1. CASE Write \/ AutoSave \/ Rewrite \/ SaveEnds \/ RewriteEnds
  BY <1>1, ServerStep
<1>2. CASE Second \/ Sleep
  BY <1>2, TimePasses
<1>3. CASE Before
  BY <1>3, BeforeStep
<1>4. CASE Bgsave
  BY <1>4, BgsaveStep
<1>5. CASE Poll
  BY <1>5, PollStep
<1>6. CASE Info
  BY <1>6, InfoStep
<1>7. CASE Cat
  BY <1>7, CatStep
<1>8. CASE UNCHANGED vars
  BY <1>8 DEF IInv, TypeOK, Clocked, Ordered, Renewed, Accepted, Asked, Shown, Decided,
         FreshUnlessBusy, RejectedForAReason, vars, server, clock, script, history
<1> QED BY <1>1, <1>2, <1>3, <1>4, <1>5, <1>6, <1>7, <1>8 DEF Next, Script

LEMMA Invariant == Spec => []IInv
<1> QED BY InitIInv, StepIInv, PTL DEF Spec

\* The states of the server and of the script have their types; the clock stays
\* within the seconds the script sleeps and the delay.
THEOREM TypeCorrect == Spec => []TypeOK
<1>1. IInv => TypeOK
  BY DEF IInv
<1> QED BY <1>1, Invariant, PTL

\* What the script prints holds every write that came before it, unless a save was
\* running when it began, or a deciding answer or the path was lost, or the first
\* answer was and BGSAVE was refused or did not arrive.
THEOREM PrintsFreshSnapshot == Spec => []FreshUnlessBusy
<1>1. IInv => FreshUnlessBusy
  BY DEF IInv, Shown
<1> QED BY <1>1, Invariant, PTL

\* When BGSAVE was accepted and the deciding answer came, "no new snapshot" is only said
\* by a script that began in the second in which an earlier save had ended.
THEOREM RejectsForAReason == Spec => []RejectedForAReason
<1>1. IInv => RejectedForAReason
  BY DEF IInv, Shown
<1> QED BY <1>1, Invariant, PTL

-----------------------------------------------------------------------------
(* Progress                                                                 *)

\* How many steps the script has before it at most.
Ahead ==
    IF pc = "begin" THEN 2 * MaxPolls + 6
    ELSE IF pc = "bgsave" THEN 2 * MaxPolls + 5
    ELSE IF pc = "sleep" THEN 2 * (MaxPolls - polls) + 4
    ELSE IF pc = "poll" THEN 2 * (MaxPolls - polls) + 3
    ELSE IF pc = "info" THEN 2 ELSE IF pc = "cat" THEN 1 ELSE 0

\* Whatever the server does and however many answers are lost, the script ends after
\* 2 * MaxPolls + 6 steps at most: nobody else's step takes it back, and each of its
\* own, which change pc, takes it forward.
THEOREM ScriptGoesForward ==
    Spec => [][/\ Ahead \in 0..(2 * MaxPolls + 6)
               /\ Ahead' <= Ahead /\ (pc' # pc => Ahead' < Ahead)
               /\ (Script => pc' # pc)]_vars
<1>1. IInv /\ Next => /\ Ahead \in 0..(2 * MaxPolls + 6)
                      /\ Ahead' <= Ahead /\ (pc' # pc => Ahead' < Ahead)
                      /\ (Script => pc' # pc)
  <2> SUFFICES ASSUME IInv, Next
               PROVE  /\ Ahead \in 0..(2 * MaxPolls + 6)
                      /\ Ahead' <= Ahead /\ (pc' # pc => Ahead' < Ahead)
                      /\ (Script => pc' # pc)
    OBVIOUS
  <2> DEFINE n == MaxPolls - polls
  <2>1. n \in 0..MaxPolls /\ MaxPolls \in Nat
    BY Constants DEF IInv, TypeOK
  <2>2. Ahead \in 0..(2 * MaxPolls + 6)
    BY <2>1 DEF Ahead
  <2>3. CASE Script
    <3>1. CASE Before \/ Bgsave \/ Sleep
      <4>1. polls' = polls
        BY <3>1 DEF Before, Bgsave, Sleep
      <4>2. \/ pc = "begin" /\ pc' = "bgsave"
            \/ pc = "bgsave" /\ pc' = "sleep"
            \/ pc = "sleep" /\ pc' = "poll"
        BY <3>1 DEF Before, Bgsave, Sleep
      <4> QED BY <2>1, <2>2, <4>1, <4>2 DEF Ahead
    <3>2. CASE Poll
      <4>1. /\ pc = "poll"
            /\ \/ pc' \in {"info", "done"}
               \/ pc' = "sleep" /\ MaxPolls - polls' = n - 1 /\ n >= 1
        BY <2>1, <3>2, Constants DEF Poll, IInv, TypeOK
      <4> QED BY <2>1, <2>2, <4>1 DEF Ahead
    <3>3. CASE Info \/ Cat
      <4>1. \/ pc = "info" /\ pc' \in {"cat", "done"}
            \/ pc = "cat" /\ pc' = "done"
        BY <3>3 DEF Info, Examine, Reject, Cat
      <4> QED BY <2>2, <4>1 DEF Ahead
    <3> QED BY <2>3, <3>1, <3>2, <3>3 DEF Script
  <2>4. CASE ~Script
    <3>1. pc' = pc /\ polls' = polls
      BY <2>4 DEF Next, Write, AutoSave, Rewrite, SaveEnds, RewriteEnds, Second, script
    <3>2. Ahead' = Ahead /\ Ahead \in Int
      BY <2>1, <2>2, <3>1 DEF Ahead
    <3>3. (Script => pc' # pc) /\ (pc' # pc => Ahead' < Ahead)
      BY <2>4, <3>1
    <3> QED BY <2>2, <3>2, <3>3
  <2> QED BY <2>3, <2>4
<1> QED BY <1>1, Invariant, PTL DEF Spec

\* The script sleeps for one second more than redisBGSaveTimeoutSeconds at most.
THEOREM SleepsAreBounded == Spec => [](now - delay <= MaxPolls + 1)
<1>1. IInv => now - delay <= MaxPolls + 1
  <2> SUFFICES ASSUME IInv PROVE now - delay <= MaxPolls + 1
    OBVIOUS
  <2>1. now \in Int /\ delay \in Int /\ polls \in Int /\ polls <= MaxPolls /\ MaxPolls \in Int
    BY Constants DEF IInv, TypeOK, Times
  <2> QED BY <2>1 DEF IInv, Clocked
<1> QED BY <1>1, Invariant, PTL
=============================================================================
