\* Three processes, kills, failed removals, runs that may outlast the staleness limit.  No
\* symmetry: it is not sound for liveness.
CONSTANTS
    Procs = {p1, p2, p3}
    StaleAfter = 2
    MaxRun = 3
    MaxFaults = 2
SPECIFICATION FairSpec
INVARIANTS
    ExclusiveUnlessOverlongOrRaced
    RunOwnsLockFile
PROPERTY BackupsKeepRunning
