SPECIFICATION Spec
CONSTANTS
    MaxCalls = 5
    MaxAwaits = 4
INVARIANTS
    TypeOK
    BodyEnteredOnce
    CallOrderKept
PROPERTIES
    RequestsSettle
CHECK_DEADLOCK FALSE
