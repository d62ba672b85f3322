---------------------------- MODULE ClusterModels ----------------------------
(***************************************************************************)
(* The models of analyze_metrics.py that relate several metrics of a       *)
(* cluster: efficiency ratios, balance of the shards, traffic pattern,     *)
(* steadiness of the load and correlations.                                *)
(***************************************************************************)
EXTENDS MetricModels

\* Where a ratio a/b lies, the bounds in thousandths; "not_applicable" when
\* there is nothing to divide by.
Below(a, b, thousandths) == 1000 * a < thousandths * b
AtMost(a, b, thousandths) == 1000 * a <= thousandths * b
WhenHigherIsBetter(a, b, healthy, medium) ==
  CASE b = 0 -> "not_applicable"
    [] ~AtMost(a, b, healthy) -> "HEALTHY"
    [] ~Below(a, b, medium) -> "MEDIUM"
    [] OTHER -> "HIGH"
WhenLowerIsBetter(a, b, healthy, medium) ==
  CASE b = 0 -> "not_applicable"
    [] Below(a, b, healthy) -> "HEALTHY"
    [] AtMost(a, b, medium) -> "MEDIUM"
    [] OTHER -> "HIGH"

-----------------------------------------------------------------------------
(* EfficiencyModel                                                         *)

MaxAcrossNodes(data, metric) ==
  LET points == Valid(Collect(NodesOnly(data), metric, "Maximum"))
  IN IF points = <<>> THEN 0 ELSE Max({Peak(points), 0})

HitRate(data) ==
  LET hits == SumAcrossNodes(data, "CacheHits")
  IN WhenHigherIsBetter(hits, hits + SumAcrossNodes(data, "CacheMisses"), 800, 600)
TtlCoverage(data) ==
  WhenHigherIsBetter(MaxAcrossNodes(data, "CurrVolatileItems"),
                     MaxAcrossNodes(data, "CurrItems"), 900, 500)
EvictionPressure(data) ==
  WhenLowerIsBetter(SumAcrossNodes(data, "Evictions"), MaxAcrossNodes(data, "CurrItems"), 1, 10)

DefaultMaxClients == 65000
MaxClients(c) ==
  IF c = Absent THEN DefaultMaxClients
  ELSE IF c.maxclients = Absent THEN DefaultMaxClients ELSE c.maxclients
ConnectionUtilization(data, c) ==
  LET used == MaxAcrossNodes(data, "CurrConnections")
  IN CASE MaxClients(c) = 0 -> "not_applicable"
       [] Below(used, MaxClients(c), 800) -> "HEALTHY"
       [] OTHER -> "HIGH"

\* The direction with the higher p95 is the one that is assessed.
BurstPoints(data) ==
  LET in == Valid(Collect(NodesOnly(data), "NetworkBaselineMaxUsageInPercentage", "Maximum"))
      out == Valid(Collect(NodesOnly(data), "NetworkBaselineMaxUsageOutPercentage", "Maximum"))
  IN IF P95(in) >= P95(out) THEN in ELSE out
NetworkBurstRisk(data) ==
  LET points == BurstPoints(data)
      over == Cardinality({i \in DOMAIN points : points[i].value > 100})
  IN CASE points = <<>> -> "not_applicable"
       [] P95(points) < 8000 /\ AtMost(over, Len(points), 10) -> "HEALTHY"
       [] P95(points) > 10000 -> "HIGH"
       [] OTHER -> "MEDIUM"
WriteAmplification(data) ==
  WhenLowerIsBetter(SumAcrossNodes(data, "ReplicationBytes"),
                    SumAcrossNodes(data, "NetworkBytesIn"), 3000, 5000)

\* Commands decide; without any, the ECPUs they used.
ReadWriteRatio(data) ==
  LET commands == SumAcrossNodes(data, "GetTypeCmds") + SumAcrossNodes(data, "SetTypeCmds")
      reads == SumAcrossNodes(data, IF commands > 0 THEN "GetTypeCmds" ELSE "GetTypeCmdsECPUs")
      writes == SumAcrossNodes(data, IF commands > 0 THEN "SetTypeCmds" ELSE "SetTypeCmdsECPUs")
  IN CASE reads + writes = 0 -> "not_measured"
       [] ~Below(reads, reads + writes, 660) -> "read-heavy"
       [] ~Below(writes, reads + writes, 660) -> "write-heavy"
       [] OTHER -> "balanced"

EfficiencyModel(data, c) ==
  [hit_rate |-> HitRate(data), ttl_coverage |-> TtlCoverage(data),
   eviction_pressure |-> EvictionPressure(data),
   connection_utilization |-> ConnectionUtilization(data, c),
   network_burst_risk |-> NetworkBurstRisk(data),
   write_amplification |-> WriteAmplification(data),
   read_write_ratio |-> ReadWriteRatio(data)]

-----------------------------------------------------------------------------
(* ShardBalanceModel.  Primaries are looked up under the record's "nodes", *)
(* a field no record of Stage 1 has (it writes "members"): every node with *)
(* measurements counts as a primary.                                       *)

PrimaryNodes(data) == NodesOnly(data).nodes
PerNode(data, metric, Stat(_)) ==
  [i \in DOMAIN PrimaryNodes(data) |->
     LET points == Valid(Points(PreferredOf(PrimaryNodes(data)[i], metric, PeakFirst)))
     IN IF points = <<>> THEN 0 ELSE Stat(points)]

BalanceMetrics == {"EngineCPUUtilization", "DatabaseMemoryUsagePercentage", "CacheHits"}
Sustained(data) == {PerNode(data, m, P95) : m \in BalanceMetrics}
Peaks(data) == {PerNode(data, m, Peak) : m \in BalanceMetrics}
AllBelow(variations, num, den) == \A v \in variations : VariationBelow(v, num, den)
\* Coefficients of variation 0.15, 0.30 and 0.50, squared.
BalanceClass(data) ==
  LET all == Sustained(data) \cup Peaks(data)
  IN CASE AllBelow(all, 9, 400) -> "well-balanced"
       [] AllBelow(all, 9, 100) -> "minor_imbalance"
       [] AllBelow(all, 1, 4) -> "significant_imbalance"
       [] OTHER -> "severe_imbalance"
ImbalanceType(data) ==
  CASE AllBelow(Peaks(data), 9, 400) -> "none"
    [] AllBelow(Sustained(data), 9, 400) -> "intermittent"
    [] OTHER -> "structural"

\* The first of the nodes with the highest p95 of CPU.
CpuP95(node) == P95(Valid(Points(SeriesOf(node, "EngineCPUUtilization", "Maximum"))))
HottestNode(data) ==
  LET nodes == PrimaryNodes(data)
      measured == {i \in DOMAIN nodes :
                     Valid(Points(SeriesOf(nodes[i], "EngineCPUUtilization", "Maximum"))) # <<>>}
      hottest == {i \in measured : \A j \in measured : CpuP95(nodes[j]) <= CpuP95(nodes[i])}
  IN IF measured = {} THEN Absent ELSE nodes[Min(hottest)].id

Sharded(c) == c # Absent /\ c.cluster_mode /\ c.shards >= 2
ShardBalanceModel(data, c) ==
  IF ~Sharded(c) \/ Len(PrimaryNodes(data)) < 2 THEN Absent
  ELSE [classification |-> BalanceClass(data), type |-> ImbalanceType(data),
        hottest |-> HottestNode(data)]

-----------------------------------------------------------------------------
(* TrafficPatternModel: commands by hour of the day.  A period stands for  *)
(* 24 / DaySlots hours.                                                    *)

\* Both kinds of commands are added per timestamp when both were collected.
Throughput(data) ==
  LET get == Dated(Collect(data, "GetTypeCmds", "Sum"))
      set == Dated(Collect(data, "SetTypeCmds", "Sum"))
      slots == {p.at : p \in Range(Valid(get \o set))}
      At(slot) == SelectSeq(Valid(get \o set), LAMBDA p : p.at = slot)
      order == Ordered(slots, <)
  IN CASE get # <<>> /\ set # <<>> ->
            [i \in DOMAIN order |-> [at |-> order[i], value |-> Total(At(order[i]))]]
       [] OTHER -> Valid(get \o set)

HourOf(slot) == (slot - 1) % DaySlots
OfHour(points, hour) == SelectSeq(points, LAMBDA p : HourOf(p.at) = hour)
HourlyAverages(points) ==
  [h \in 0..(DaySlots - 1) |->
     IF OfHour(points, h) = <<>> THEN 0
     ELSE (AverageScale * Total(OfHour(points, h))) \div Len(OfHour(points, h))]

Weekend(slot) == (DayOf(slot) + FirstWeekday) % 7 \in {5, 6}
\* The weekend's mean against the weekdays', compared with num/den.
WeekendAgainst(points, Compare(_, _), num, den) ==
  LET weekend == SelectSeq(points, LAMBDA p : Weekend(p.at))
      weekday == SelectSeq(points, LAMBDA p : ~Weekend(p.at))
  IN /\ weekend # <<>> /\ weekday # <<>> /\ Total(weekday) > 0
     /\ Compare(den * Total(weekend) * Len(weekday), num * Total(weekday) * Len(weekend))

TrafficPatternModel(data, c) ==
  LET points == Throughput(data)
      averages == HourlyAverages(points)
      peak == Max(Range(averages))
      trough == Max({Min(Range(averages)), AverageScale})
      idle == (24 * Cardinality({h \in DOMAIN averages : 5 * averages[h] < peak})) \div DaySlots
  IN CASE points = <<>> \/ Total(points) = 0 -> "unknown"
       [] WeekendAgainst(points, >, 3, 2) -> "weekend-heavy"
       [] WeekendAgainst(points, <, 3, 10) -> "weekday-only"
       [] peak > 5 * trough \/ idle > 16 -> "highly-variable"
       [] 2 * trough <= peak /\ 8 <= idle /\ idle <= 16 -> "business-hours"
       [] peak < 2 * trough /\ idle < 4 -> "steady"
       [] OTHER -> "moderate-variation"

-----------------------------------------------------------------------------
(* SteadinessModel: CPU and memory, of a cluster that does something.      *)

NodeValues(data, metric, stat) ==
  LET points == Valid(Collect(NodesOnly(data), metric, stat))
  IN [i \in DOMAIN points |-> points[i].value]
CapacityAxes(data) ==
  {v \in {NodeValues(data, "EngineCPUUtilization", "Average"),
          NodeValues(data, "DatabaseMemoryUsagePercentage", "Maximum")} :
     FoldLeft(+, 0, v) > 0}
Active(data) ==
  \/ \E m \in {"GetTypeCmds", "SetTypeCmds", "GetTypeCmdsECPUs", "SetTypeCmdsECPUs"} :
       SumAcrossNodes(data, m) > 0
  \/ LET cpu == NodeValues(data, "EngineCPUUtilization", "Average")
     IN FoldLeft(+, 0, cpu) > 5 * Len(cpu)
\* Coefficients of variation 0.30 and 0.75, squared; not rounded first.
SteadinessModel(data, c) ==
  CASE ~Active(data) \/ CapacityAxes(data) = {} -> "not_measured"
    [] AllBelow(CapacityAxes(data), 9, 100) -> "steady"
    [] AllBelow(CapacityAxes(data), 9, 16) -> "variable"
    [] OTHER -> "spiky"

-----------------------------------------------------------------------------
(* CorrelationModel                                                        *)

Pair(a, b, severity) == [a |-> a, b |-> b, severity |-> severity]
MetricPairs ==
  << Pair("EngineCPUUtilization", "SuccessfulReadRequestLatency", "MEDIUM"),
     Pair("EngineCPUUtilization", "NewConnections", "LOW"),
     Pair("SaveInProgress", "ReplicationLag", "MEDIUM"),
     Pair("Evictions", "CacheMisses", "MEDIUM"),
     Pair("NetworkBytesIn", "EngineCPUUtilization", "INFO"),
     Pair("CurrConnections", "EngineCPUUtilization", "LOW"),
     Pair("TrafficManagementActive", "SuccessfulReadRequestLatency", "HIGH") >>

\* One value per timestamp: that of the last node in the list.
ByTime(points) ==
  [at \in {p.at : p \in Range(points)} |->
     points[Max({i \in DOMAIN points : points[i].at = at})].value]
MostlyMeasured(f, times) ==
  5 * Cardinality({t \in times : ~Measured(f[t])}) <= Cardinality(times)

Correlated(data, pair) ==
  LET f == ByTime(Dated(Preferred(data, pair.a, PeakFirst)))
      g == ByTime(Dated(Preferred(data, pair.b, PeakFirst)))
      times == DOMAIN f \cap DOMAIN g
      both == Ordered({t \in times : Measured(f[t]) /\ Measured(g[t])}, <)
      a == [i \in DOMAIN both |-> f[both[i]]]
      b == [i \in DOMAIN both |-> g[both[i]]]
      Sum2(u, v) == FoldLeftDomain(LAMBDA acc, i : acc + u[i] * v[i], 0, both)
      Spread(u, v) == Len(both) * Sum2(u, v) - FoldLeft(+, 0, u) * FoldLeft(+, 0, v)
  IN /\ Len(both) >= MinPoints
     /\ MostlyMeasured(f, times) /\ MostlyMeasured(g, times)
     /\ Spread(a, a) > 0 /\ Spread(b, b) > 0
     \* r > 0.7: the opposite sign contradicts the mechanism and is dropped
     /\ Spread(a, b) > 0
     /\ 100 * Spread(a, b) * Spread(a, b) > 49 * Spread(a, a) * Spread(b, b)
CorrelationModel(data, c) ==
  Picked(MetricPairs, {i \in DOMAIN MetricPairs : Correlated(data, MetricPairs[i])})
=============================================================================
