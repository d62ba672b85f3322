\* A shard whose breach is current, listed before one that is not.
SPECIFICATION Spec
CONSTANTS
    c1 = c1
    c2 = c2
    c3 = c3
    c4 = c4
    c5 = c5
    n1 = n1
    n2 = n2
    Absent = Absent
    NoFile = NoFile
    NotJson = NotJson
    NoList = NoList
    Ids = {c1, c2, c3, c4, c5}
    Nodes = {n1, n2}
    PeriodMinutes = 40
    DaySlots = 2
    WindowSlots = 4
    FirstWeekday = 3
    MinPoints = 3
    MinTrendDays = 3
    LastDayPoints = 2
    BucketSlots = 3
    MaxRaised = 1
    Scenarios <- OneNodeBreaches
    Inventories <- FleetInventories
    MetricsFiles <- FleetMetrics
    Policies <- FleetPolicies
    Dates <- FleetDates
    Pricings <- FleetPricings
INVARIANT BreachIsCurrent
