SPECIFICATION Spec
CONSTANTS
    MaxTimers = 3
    Delays = {0, 1}
    MaxTime = 2
INVARIANTS
    TypeOK
    NoTimerLost
    AddedWaits
PROPERTIES
    OneShotOnce
    DueTimersFire
    ServiceSpec
