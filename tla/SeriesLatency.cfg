\* One window, as the latency collector uses it.
SPECIFICATION Spec
CONSTANTS
    NumQueries = 1
    MaxPerBatch = 2
    Start = 0
    End = 3
    ChunkLen = 3
    Histories = {{}, {1, 3}, {0, 1, 2}}
    MaxRetries = 1
INVARIANTS
    LatencyComplete
CHECK_DEADLOCK FALSE
