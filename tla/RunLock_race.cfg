\* Short runs only (MaxRun <= StaleAfter): the takeover race alone.
CONSTANTS
    Procs = {p1, p2}
    StaleAfter = 1
    MaxRun = 1
    MaxFaults = 1
SPECIFICATION Spec
SYMMETRY Symmetry
INVARIANT AtMostOneRun
