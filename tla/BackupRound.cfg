\* Two rounds over two days, one kill, `verify`, a repository that expires
\* snapshots, and zones a day apart: a round deletes the day before its own.
CONSTANTS
    Databases = {db1, db2}
    MaxDay = 2
    MaxRuns = 2
    MaxCrashes = 1
    RetentionDays = 2
    Limit = 2
    Skew = 1
    KopiaEnabled = TRUE
    KopiaRetention = TRUE
SPECIFICATION VerifySpec
SYMMETRY Symmetry
CHECK_DEADLOCK FALSE
INVARIANTS
    VerifyTypeOK
    ManifestMatchesFiles
    SnapshotIsVerifiable
    OkPingIsListed
    OkPingIsBacked
    StartIsAnswered
    PushedIsStored
    AlarmsAreReal
PROPERTY RecentDaysKept
