SPECIFICATION ThrowingSpec
CONSTANTS
    j1 = j1
    j2 = j2
    j3 = j3
    w1 = w1
    w2 = w2
    NoJob = NoJob
    Jobs = {j1, j2, j3}
    Workers = {w1, w2}
    Endless = {}
    Spawnable <- MCSpawnable
    PipeOutcomes = {TRUE, FALSE}
    LoopOutcomes = {TRUE, FALSE}
    PipeCap = 1
    MaxDepth = 2
INVARIANT
    PendingNeverStale
