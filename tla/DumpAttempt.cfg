\* Compressed dumps of every format, validated; the stream may end early.
CONSTANTS
    Validate = TRUE
    Compressed = TRUE
    StreamMayEndEarly = TRUE
    MaxAttempts = 3
    MaxCrashes = 1
SPECIFICATION FairSpec
CHECK_DEADLOCK FALSE
INVARIANTS
    FinalIsWholeWhenDetectable
    NoStrayTemp
    PermanentForAReason
PROPERTIES
    ImplementsAtomicDump
    AttemptEnds
