SPECIFICATION Spec
CONSTANTS
    Generators = {g}
    AsyncGenerators = {ag}
    AsyncFunctions = {f, h}
    Main = main
    MaxStacks = 3
    MaxTry = 1
INVARIANTS
    TypeOK
    LiveStacksScanned
    SwitchKeepsOwnState
CHECK_DEADLOCK FALSE
