\* One container is enough.
CONSTANTS
    Containers = {c1}
    Kinds <- SomeKinds
    DbKinds <- SomeDbs
    MaxRounds = 2
    SingleDbMode = FALSE
    IncludeList = FALSE
    LabelList = FALSE
SPECIFICATION Spec
CHECK_DEADLOCK FALSE
INVARIANT NoDatabaseSkippedSilently
