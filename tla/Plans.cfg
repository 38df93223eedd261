\* Two containers of eleven kinds, two rounds of one process, single-database mode.
CONSTANTS
    Containers = {c1, c2}
    Kinds <- SomeKinds
    DbKinds <- SomeDbs
    MaxRounds = 2
    SingleDbMode = TRUE
    IncludeList = FALSE
    LabelList = TRUE
SPECIFICATION Spec
SYMMETRY Symmetry
CHECK_DEADLOCK FALSE
INVARIANTS
    HealthyRoundPlans
    SilentSkipHasNoClue
    FilesDistinct
