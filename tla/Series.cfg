\* Three queries in two batches, a range of one whole and one short window.
SPECIFICATION FairSpec
CONSTANTS
    NumQueries = 3
    MaxPerBatch = 2
    Start = 0
    End = 3
    ChunkLen = 2
    Histories = {{}, {1, 3}, {0, 1, 2}}
    MaxRetries = 1
INVARIANTS
    IInv
    SeriesExact
PROPERTIES
    CollectionEnds
CHECK_DEADLOCK FALSE
