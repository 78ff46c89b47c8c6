SPECIFICATION Spec
CONSTANTS
    MaxSlots = 2
    MaxInterfaces = 2
    MaxLines = 2
    MaxDepth = 2
INVARIANTS
    TypeOK
    LinesInOrder
CHECK_DEADLOCK FALSE
