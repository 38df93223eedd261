CONSTANTS
    db = db
    my = my
    odd = odd
    Plans <- MCPlans
    Provider <- MCProvider
    Secret <- MCEquipped
    LetIn <- MCPlans
    MayImport <- MCEquipped
    HasDatabase <- MCEquipped
    HasTarget <- MCPlans
    MaxPings = 2
SPECIFICATION FairSpec
INVARIANTS
    BoxIsCleanedUp
    PassMeansImportable
    NoFalseAlarm
PROPERTY DrillEnds
