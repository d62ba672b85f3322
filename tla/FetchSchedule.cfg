\* One run over up to four clusters in two regions, two threads per pool.
SPECIFICATION FairSpec
CONSTANTS
    a1 = a1
    a2 = a2
    a3 = a3
    b1 = b1
    r1 = r1
    r2 = r2
    i1 = i1
    i2 = i2
    i3 = i3
    i4 = i4
    NoFile = NoFile
    Clusters = {a1, a2, a3, b1}
    Regions = {r1, r2}
    Ids = {i1, i2, i3, i4}
    RegionOf <- FourRegionOf
    IdOf <- FourIdOf
    Concurrency = 2
    MaxRuns = 1
INVARIANTS
    TypeOK
    ScheduleIndependent
    ExitCodeMeaning
PROPERTIES
    RunEnds
CHECK_DEADLOCK FALSE
