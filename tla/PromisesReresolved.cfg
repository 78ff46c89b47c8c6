SPECIFICATION ReresolvingSpec
CONSTANTS
    MaxCalls = 0
    MaxPromises = 2
    MaxStack = 2
    MaxHost = 1
    Reresolves = TRUE
INVARIANT
    RejectionReportedOrSeen
