SPECIFICATION Spec
CONSTANTS
    Texts = {t1, t2}
    Watchers = {}
    Builders = {b}
    None = none
    MaxEdits = 2
    MaxBuilds = 3
    MaxKills = 0
PROPERTIES
    SkipLeavesOwnOutput
CHECK_DEADLOCK FALSE
