SPECIFICATION NestedSpec
CONSTANTS
    MaxTimers = 2
    Delays = {0, 1}
    MaxTime = 2
    MaxNest = 2
INVARIANT
    FiredOneShotsRest
