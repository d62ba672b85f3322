----------------------------- MODULE MetricModels -----------------------------
(***************************************************************************)
(* The mathematical models of analyze_metrics.py: each maps a cluster's    *)
(* normalised series, and its inventory record, to a result.  Figures that *)
(* only appear in texts are left out.                                      *)
(***************************************************************************)
EXTENDS MetricSeries

CONSTANTS
  MinPoints,      \* measured values a statistic needs (10 in the code)
  MinTrendDays,   \* days a trend needs (7)
  LastDayPoints   \* values that make the last day of a breach (288)

ASSUME MinPointsAssumption == MinPoints \in Nat \ {0}
ASSUME MinTrendDaysAssumption == MinTrendDays \in Nat \ {0, 1}
ASSUME LastDayAssumption == LastDayPoints \in Nat \ {0}

-----------------------------------------------------------------------------
(* ThresholdRegistry.  ReplicationLag is in milliseconds here.             *)

Level(critical, high, medium, low) ==
  [critical |-> critical, high |-> high, medium |-> medium, low |-> low]
Thresholds ==
  [EngineCPUUtilization |-> Level(90, 70, 50, 20),
   DatabaseMemoryUsagePercentage |-> Level(90, 80, Absent, 30),
   CacheHitRate |-> Level(40, 60, 80, Absent),
   ReplicationLag |-> Level(5000, 1000, 100, Absent),
   EvictionsPerMinute |-> Level(Absent, 200, 20, Absent),
   SuccessfulReadRequestLatency |-> Level(Absent, 10000, 5000, Absent),
   NewConnectionsPerMinute |-> Level(Absent, 5000, 1000, Absent),
   ThrottledCmdsPerMinute |-> Level(0, Absent, Absent, Absent),
   ECPUUtilizationPercent |-> Level(Absent, 80, 50, Absent),
   BytesUsedForCachePercent |-> Level(90, 70, Absent, Absent)]

Inverted(metric) == metric = "CacheHitRate"
\* Is a figure, in hundredths of a value of the metric, on the wrong side of a bound?
Scaled(metric, bound) == 100 * UnitOf(metric) * bound
Exceeds(metric, figure, bound) ==
  /\ bound # Absent
  /\ IF Inverted(metric) THEN figure < Scaled(metric, bound) ELSE figure > Scaled(metric, bound)
ClassifyValue(metric, figure) ==
  IF metric \notin DOMAIN Thresholds THEN "HEALTHY"
  ELSE LET level == Thresholds[metric]
       IN CASE Exceeds(metric, figure, level.critical) -> "CRITICAL"
            [] Exceeds(metric, figure, level.high) -> "HIGH"
            [] Exceeds(metric, figure, level.medium) -> "MEDIUM"
            [] level.low # Absent /\ figure < Scaled(metric, level.low) -> "LOW"
            [] OTHER -> "HEALTHY"

-----------------------------------------------------------------------------
(* PercentileModel: every metric and statistic.                            *)

StoredKeys(data) == UNION {DOMAIN data.nodes[i].series : i \in DOMAIN data.nodes}
SpikeClass(points) ==
  LET peak == 100 * Peak(points)
  IN CASE P95(points) = 0 \/ peak < 2 * P95(points) -> "stable"
       [] peak <= 3 * P95(points) -> "notable"
       [] peak <= 5 * P95(points) -> "significant"
       [] OTHER -> "severe"
PercentileOf(points) ==
  IF Len(points) < MinPoints THEN [status |-> "insufficient_data"]
  ELSE [status |-> "ok", p95 |-> P95(points), spike |-> SpikeClass(points)]
PercentileModel(data, c) ==
  [k \in StoredKeys(data) |-> PercentileOf(Valid(Collect(data, k[1], k[2])))]

-----------------------------------------------------------------------------
(* WorkloadModel                                                           *)

Families == {"StringBasedCmds", "HashBasedCmds", "SortedSetBasedCmds", "ListBasedCmds",
             "SetBasedCmds", "StreamBasedCmds", "PubSubBasedCmds"}
SumAcrossNodes(data, metric) == Total(Valid(Collect(NodesOnly(data), metric, "Sum")))

WorkloadClass(data) ==
  LET commands == MapThenSumSet(LAMBDA f : SumAcrossNodes(data, f), Families)
      Above(family, percent) == 100 * SumAcrossNodes(data, family) > percent * commands
      gets == SumAcrossNodes(data, "GetTypeCmds")
      sets == Max({SumAcrossNodes(data, "SetTypeCmds"), 1})
  IN CASE commands = 0 -> "unknown"
       [] Above("StringBasedCmds", 60) /\ gets > 4 * sets -> "cache-aside"
       [] Above("HashBasedCmds", 35) /\ sets <= gets /\ gets <= 4 * sets -> "session-store"
       [] Above("SortedSetBasedCmds", 25) -> "leaderboard"
       [] Above("StringBasedCmds", 60) /\ gets < 2 * sets -> "rate-limiter"
       [] Above("StreamBasedCmds", 15) -> "event-stream"
       [] Above("PubSubBasedCmds", 10) -> "real-time-messaging"
       [] Above("ListBasedCmds", 20) -> "queue"
       [] OTHER -> "general-purpose"

-----------------------------------------------------------------------------
(* TrendModel: a straight line through the daily averages.                 *)

Trendable == {"DatabaseMemoryUsagePercentage", "BytesUsedForCache", "CurrItems",
              "CurrConnections", "Evictions", "CacheHitRate", "ReplicationLag"}
MeaningfulSlope(metric) ==
  CASE metric = "DatabaseMemoryUsagePercentage" -> 2
    [] metric = "CacheHitRate" -> 5
    [] OTHER -> 0

DayOf(slot) == (slot - 1) \div DaySlots
OfDay(points, day) == SelectSeq(points, LAMBDA p : DayOf(p.at) = day)
AverageScale == 12  \* daily averages are kept in twelfths: exact for up to four values
DailyAverages(points) ==
  LET days == Ordered({DayOf(p.at) : p \in Range(points)}, <)
  IN [i \in DOMAIN days |->
        (AverageScale * Total(OfDay(points, days[i]))) \div Len(OfDay(points, days[i]))]

\* Sums of the regression: slope = sxy / sxx and r^2 = sxy^2 / (sxx * syy).
Regression(y) ==
  LET n == Len(y)
      x == [i \in DOMAIN y |-> i - 1]
      Sum2(a, b) == FoldLeftDomain(LAMBDA acc, i : acc + a[i] * b[i], 0, y)
      SumOf(a) == FoldLeftDomain(LAMBDA acc, i : acc + a[i], 0, y)
      Spread(a, b) == n * Sum2(a, b) - SumOf(a) * SumOf(b)
  IN [sxy |-> Spread(x, y), sxx |-> Spread(x, x), syy |-> Spread(y, y)]

\* Does the slope, per week and unsigned, exceed a bound?
SteeperThan(line, bound) ==
  Max({line.sxy, -line.sxy}) * 7 > bound * line.sxx * AverageScale
TrendOf(metric, points) ==
  LET y == DailyAverages(points)
      line == Regression(y)
      fits == 10 * line.sxy * line.sxy > 4 * line.sxx * line.syy
      direction == CASE fits /\ line.sxy > 0 -> "rising"
                     [] fits /\ line.sxy < 0 -> "declining"
                     [] OTHER -> "stable"
      wanted == IF metric = "CacheHitRate" THEN "declining" ELSE "rising"
  IN IF Len(y) < MinTrendDays THEN [status |-> "insufficient_data"]
     ELSE [status |-> "ok", direction |-> direction, line |-> line,
           is_finding |-> direction = wanted /\ SteeperThan(line, MeaningfulSlope(metric))]
TrendModel(data, c) ==
  [m \in Trendable |-> TrendOf(m, Valid(Dated(Preferred(data, m, AverageFirst))))]

-----------------------------------------------------------------------------
(* UtilizationModel: levels of CPU, memory and network over the window.    *)

Window(data, metric, stat) == Valid(LastWindow(Collect(data, metric, stat)))
PeakScore(points) == IF points = <<>> THEN 0 ELSE 100 * Peak(points)

\* A level from a score, in hundredths of the unit.
LevelOf(score, unit, low, high) ==
  CASE score < 100 * unit * low -> "Low" [] score <= 100 * unit * high -> "Medium" [] OTHER -> "High"

NetworkScore(data) ==
  Max({P95(Window(data, "NetworkBaselineUsageInPercentage", "Average")),
       P95(Window(data, "NetworkBaselineUsageOutPercentage", "Average"))})

\* For serverless, the share of periods with throttled commands.
ThrottleScore(data) ==
  LET periods == Window(data, "ThrottledCmds", "Sum")
      throttled == SelectSeq(periods, LAMBDA p : p.value > 0)
  IN CASE throttled = <<>> -> 0
       [] 100 * Len(throttled) > 5 * Len(periods) -> 9000
       [] OTHER -> 5000

\* No series, no level: a serverless cache without a limit has no percentage.
Available(data, metric, stat) == LastWindow(Collect(data, metric, stat)) # <<>>
Levels(data, serverless) ==
  IF serverless
  THEN [cpu |-> IF Available(data, "ECPUUtilizationPercent", "Sum")
                THEN LevelOf(P95(Window(data, "ECPUUtilizationPercent", "Sum")), 100, 20, 70)
                ELSE "Unknown",
        memory |-> IF Available(data, "BytesUsedForCachePercent", "Maximum")
                   THEN LevelOf(PeakScore(Window(data, "BytesUsedForCachePercent", "Maximum")), 100, 30, 70)
                   ELSE "Unknown",
        network |-> LevelOf(ThrottleScore(data), 1, 40, 80)]
  ELSE [cpu |-> LevelOf(P95(Window(data, "EngineCPUUtilization", "Maximum")), 1, 20, 70),
        memory |-> LevelOf(PeakScore(Window(data, "DatabaseMemoryUsagePercentage", "Maximum")), 1, 30, 70),
        network |-> LevelOf(NetworkScore(data), 1, 40, 80)]

TrafficCounters == {"CacheHits", "CacheMisses", "GetTypeCmds", "SetTypeCmds",
                    "ElastiCacheProcessingUnits"}
TrafficSeen(data) == [m \in TrafficCounters |-> Window(data, m, "Sum")]
HasTrafficInLookups(data) ==
  LET Seen(m) == TrafficSeen(data)[m]
  IN \/ \A m \in TrafficCounters : Seen(m) = <<>>
     \/ \E m \in {"CacheHits", "CacheMisses"} : Total(Seen(m)) > 0
HasTraffic(data) ==
  \/ \A m \in TrafficCounters : TrafficSeen(data)[m] = <<>>
  \/ \E m \in TrafficCounters : Total(TrafficSeen(data)[m]) > 0

ClassifyCombination(l, traffic) ==
  LET high == {axis \in DOMAIN l : l[axis] = "High"}
  IN CASE {"cpu", "memory"} \subseteq high -> "SATURATED"
       [] ~traffic -> "IDLE"
       [] l.cpu = "Low" /\ l.memory = "Low" /\ "network" \notin high -> "OVER-PROVISIONED"
       [] "network" \in high -> IF Cardinality(high) >= 2 THEN "HEAVY" ELSE "NETWORK-BOUND"
       [] "cpu" \in high -> "CPU-BOUND"
       [] "memory" \in high -> "MEMORY-BOUND"
       [] OTHER -> "BALANCED"
UtilizationModel(data, c) ==
  LET levels == Levels(data, data.serverless)
  IN [levels |-> levels, classification |-> ClassifyCombination(levels, HasTraffic(data))]

-----------------------------------------------------------------------------
(* BreachModel: how long a metric was beyond its critical threshold.       *)

BreachMetrics == {"EngineCPUUtilization", "DatabaseMemoryUsagePercentage", "CacheHitRate",
                  "ReplicationLag", "BytesUsedForCachePercent", "ThrottledCmdsPerMinute"}
Breaches(metric, value) ==
  Measured(value) /\ Exceeds(metric, 100 * value, Thresholds[metric].critical)

\* The loop over the values: an incident opens at the first breaching value
\* and closes before the next one that is missing or within the threshold.
CloseLate(acc, i) ==
  IF acc.start = 0 THEN acc
  ELSE [start |-> 0, list |-> Append(acc.list, [start |-> acc.start, length |-> i - acc.start + 1])]
Close(acc, i) ==
  IF acc.start = 0 THEN acc
  ELSE [start |-> 0, list |-> Append(acc.list, [start |-> acc.start, length |-> i - acc.start])]
Incidents(metric, values) ==
  LET Step(acc, i) == IF Breaches(metric, values[i])
                      THEN IF acc.start = 0 THEN [acc EXCEPT !.start = i] ELSE acc
                      ELSE Close(acc, i)
  IN Close(FoldLeftDomain(Step, [start |-> 0, list |-> <<>>], values), Len(values) + 1).list
TopIncidents(incidents) ==
  LET order == Ordered(DOMAIN incidents, LAMBDA i, j :
                 \/ incidents[i].length > incidents[j].length
                 \/ incidents[i].length = incidents[j].length /\ i < j)
  IN [i \in 1..Min({3, Len(order)}) |-> incidents[order[i]]]

LastPart(points, n) == IF Len(points) < n THEN points
                       ELSE SubSeq(points, Len(points) - n + 1, Len(points))
CurrentlyBreaching(metric, points) ==
  LET last == Valid(LastPart(points, LastDayPoints))
  IN last # <<>> /\ Exceeds(metric, P95(last), Thresholds[metric].critical)
BreachSeverity(current, minutes, spiky) ==
  CASE current /\ minutes > 240 -> "CRITICAL"
    [] current \/ minutes > 120 -> "HIGH"
    [] minutes > 30 -> "MEDIUM"
    [] spiky -> "LOW"
    [] OTHER -> "HEALTHY"
BreachOf(metric, points) ==
  LET values == [i \in DOMAIN points |-> points[i].value]
      valid == Valid(points)
      current == CurrentlyBreaching(metric, points)
      minutes == PeriodMinutes * Cardinality({i \in DOMAIN values : Breaches(metric, values[i])})
  IN [minutes |-> minutes, incidents |-> TopIncidents(Incidents(metric, values)),
      current |-> current,
      severity |-> BreachSeverity(current, minutes, SpikeClass(valid) = "severe")]
BreachPoints(data, metric) == Preferred(data, metric, PeakFirst)
BreachModel(data, c) ==
  [m \in {m \in BreachMetrics : Len(Valid(BreachPoints(data, m))) >= MinPoints} |->
     BreachOf(m, BreachPoints(data, m))]
=============================================================================
