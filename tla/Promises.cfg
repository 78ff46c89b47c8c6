SPECIFICATION Spec
CONSTANTS
    MaxCalls = 2
    MaxPromises = 3
    MaxStack = 3
    MaxHost = 1
    Reresolves = FALSE
INVARIANTS
    TypeOK
    UnhandledExact
    ReactionsFollowState
    OneWaker
    RejectionsReachSomeone
    ResultAfterBody
PROPERTIES
    SettledAwaitResumes
