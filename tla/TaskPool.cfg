\* Fewer workers than tasks, one retry.  The pool stops when it has returned;
\* that it does return is PoolReturns.
CONSTANTS
    NumTasks = 3
    Workers = 2
    Retries = 1
SPECIFICATION FairSpec
CHECK_DEADLOCK FALSE
INVARIANTS
    TypeOK
    WorkersBounded
    ListedWasPublished
    GivesUpForAReason
PROPERTIES
    NoAttemptAfterVerdict
    ImplementsForkJoin
    PoolReturns
