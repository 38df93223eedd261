\* One day is kept, or three, which overflow; BACKUP_TZ is half a day west of TZ.
CONSTANTS
    Containers = {c1, c2}
    MaxSize = 1
    Capacities = {4, 5}
    MinFree = 1
    Drift = 5
    DayLength = 2
    Retentions = {1, 3}
    Shifts <- West
    Limit = 4
    MaxBack = 3
    MaxLag = 1
    MaxFaults = 1
SPECIFICATION FairSpec
INVARIANTS
    EstimateIsEnough
    DropsAreReported
PROPERTIES
    DeletedAreOld
    NothingKeptTooLong
    BackupsGoOn
