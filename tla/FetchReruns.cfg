\* Two runs, each possibly killed, over up to three clusters in two regions,
\* one thread per pool.
SPECIFICATION Spec
CONSTANTS
    a1 = a1
    a2 = a2
    a3 = a3
    b1 = b1
    r1 = r1
    r2 = r2
    i1 = i1
    i2 = i2
    i3 = i3
    i4 = i4
    NoFile = NoFile
    Clusters = {a1, a2, b1}
    Regions = {r1, r2}
    Ids = {i1, i2, i3}
    RegionOf <- ThreeRegionOf
    IdOf <- ThreeIdOf
    Concurrency = 1
    MaxRuns = 2
INVARIANTS
    IInv
    ManifestTrustworthy
    ShardsMatchManifest
    HeldSeriesBounded
    NoTempLeft
PROPERTIES
    ManifestIsLast
    StoreSpec
CHECK_DEADLOCK FALSE
