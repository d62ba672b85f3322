\* Two replication groups of the same name in two regions.
SPECIFICATION Spec
CONSTANTS
    a1 = a1
    a2 = a2
    a3 = a3
    b1 = b1
    r1 = r1
    r2 = r2
    i1 = i1
    i2 = i2
    i3 = i3
    i4 = i4
    NoFile = NoFile
    Clusters = {a1, b1}
    Regions = {r1, r2}
    Ids = {i1}
    RegionOf <- TwoRegionOf
    IdOf <- SameIdOf
    Concurrency = 2
    MaxRuns = 1
INVARIANTS
    NoSharedShardPath
CHECK_DEADLOCK FALSE
