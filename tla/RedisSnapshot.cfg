CONSTANTS
    MaxPolls = 2
    MayLose = TRUE
    MaxWrites = 2
    MaxDelay = 2
SPECIFICATION FairSpec
CHECK_DEADLOCK FALSE
INVARIANTS
    FreshUnlessBusy
    RejectedForAReason
PROPERTY ScriptEnds
