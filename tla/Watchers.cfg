SPECIFICATION Spec
CONSTANTS
    Fds = {3, 4}
    Events = {"read"}
    MaxWatchers = 3
    MaxReg = 4
    MaxNest = 2
INVARIANTS
    TypeOK
    TableConsistent
    HandlerSampled
    FlagRestored
PROPERTIES
    ReadyIsServed
