\* Every answer arrives.
CONSTANTS
    MaxPolls = 2
    MayLose = FALSE
    MaxWrites = 2
    MaxDelay = 2
SPECIFICATION Spec
CHECK_DEADLOCK FALSE
INVARIANT FreshOnSuccess
