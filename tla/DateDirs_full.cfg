\* A disk with room for two days and less than MinFree besides.
CONSTANTS
    Containers = {c1}
    MaxSize = 2
    Capacities = {4}
    MinFree = 1
    Drift = 5
    DayLength = 2
    Retentions = {1}
    Shifts <- NoShift
    Limit = 4
    MaxBack = 3
    MaxLag = 1
    MaxFaults = 0
SPECIFICATION FairSpec
PROPERTY ExpiredAreDeleted
