SPECIFICATION Spec
CONSTANTS
    Texts = {t1, t2}
    Watchers = {w}
    Builders = {b}
    None = none
    MaxEdits = 2
    MaxBuilds = 1
    MaxKills = 1
INVARIANTS
    TypeOK
    RecordedWasLinked
PROPERTIES
    WatcherCatchesUp
CHECK_DEADLOCK FALSE
