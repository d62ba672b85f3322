----------------------------- MODULE MetricSeries -----------------------------
(***************************************************************************)
(* The series of one cluster as analyze_metrics.py handles them: what      *)
(* Stage 2 stored, its normalisation, the ways a model collects values     *)
(* from the nodes, and the statistics the models compute.                  *)
(*                                                                         *)
(* A cluster has one list of timestamps, its grid; a series is a list of   *)
(* values, Absent when there was none (None, NaN), and the i-th value is   *)
(* taken to be of the i-th timestamp.  Values are integers, those of the   *)
(* derived series in hundredths, percentiles are in hundredths of a value, *)
(* and ratios are compared by cross-multiplication.                        *)
(***************************************************************************)
EXTENDS Fleet, Positions

CONSTANTS
  PeriodMinutes,  \* minutes a value stands for (5 in the code)
  DaySlots,       \* periods in a day (288)
  WindowSlots,    \* periods in the utilization window (7 days)
  FirstWeekday    \* weekday of period 1, 0 for Monday

ASSUME PeriodAssumption == PeriodMinutes \in Nat \ {0} /\ DaySlots \in Nat \ {0}
ASSUME WindowAssumption == WindowSlots \in Nat /\ FirstWeekday \in 0..6

Stats == {"Average", "Maximum", "Sum"}

-----------------------------------------------------------------------------
(* What Stage 2 stored for a cluster: the grid, and a list of nodes, each  *)
(* with a series per metric and statistic; a serverless cache has one      *)
(* entry and no "nodes" level.                                             *)

HasSeries(node, metric, stat) == <<metric, stat>> \in DOMAIN node.series
SeriesOf(node, metric, stat) ==
  IF HasSeries(node, metric, stat) THEN node.series[<<metric, stat>>] ELSE <<>>

Measured(value) == value # Absent
MapSeries(series, Op(_)) ==
  [i \in DOMAIN series |-> IF Measured(series[i]) THEN Op(series[i]) ELSE Absent]

StorageMaximum(c) == c.limits["data_storage"]
EcpuMaximum(c) ==
  IF c.limits["ecpu_per_second"] = 0 THEN Absent ELSE c.limits["ecpu_per_second"]

\* Series derived from one that is there: <<from, stat>> -> <<to, stat>>.
Derive(node, from, stats, to, Op(_)) ==
  [k \in {<<to, s>> : s \in {s \in stats : HasSeries(node, from, s)}} |->
     MapSeries(node.series[<<from, k[2]>>], Op)]
Merge(f, g) == [k \in DOMAIN f \cup DOMAIN g |-> IF k \in DOMAIN g THEN g[k] ELSE f[k]]

MeasuredSum(series) ==
  FoldLeft(LAMBDA acc, v : IF Measured(v) THEN acc + v ELSE acc, 0, series)
MetricTotal(node, metric) ==
  MapThenSumSet(LAMBDA s : MeasuredSum(SeriesOf(node, metric, s)), Stats)

\* CloudWatch reports a hit rate of 0 for periods without lookups; the series
\* says nothing when the counters are there and count nothing.
HitRateUndefined(node) ==
  /\ \E s \in Stats : HasSeries(node, "CacheHits", s) \/ HasSeries(node, "CacheMisses", s)
  /\ MetricTotal(node, "CacheHits") = 0 /\ MetricTotal(node, "CacheMisses") = 0
DropUndefinedHitRate(node) ==
  IF ~HitRateUndefined(node) THEN node
  ELSE [node EXCEPT !.series = [k \in {k \in DOMAIN node.series : k[1] # "CacheHitRate"} |->
                                  node.series[k]]]

\* Per-period sums become per-minute rates, bytes and ECPUs percentages of
\* their limits, all with two decimals.
DerivedMetrics == {"EvictionsPerMinute", "NewConnectionsPerMinute", "ThrottledCmdsPerMinute",
                   "BytesUsedForCachePercent", "ECPUUtilizationPercent"}
UnitOf(metric) == IF metric \in DerivedMetrics THEN 100 ELSE 1
Nearest(a, b) == (2 * a + b) \div (2 * b)

PerMinute(value) == Nearest(100 * value, PeriodMinutes)
PerMinuteSeries(node) ==
  Merge(Derive(node, "Evictions", {"Sum"}, "EvictionsPerMinute", PerMinute),
        Merge(Derive(node, "NewConnections", {"Sum"}, "NewConnectionsPerMinute", PerMinute),
              Derive(node, "ThrottledCmds", {"Sum"}, "ThrottledCmdsPerMinute", PerMinute)))
StoragePercentSeries(node, c) ==
  Derive(node, "BytesUsedForCache",
         IF c = Absent THEN {} ELSE IF StorageMaximum(c) \in {Absent, 0} THEN {} ELSE Stats,
         "BytesUsedForCachePercent", LAMBDA v : Nearest(100 * 100 * v, StorageMaximum(c)))
EcpuPercentSeries(node, c) ==
  Derive(node, "ElastiCacheProcessingUnits",
         IF c = Absent THEN {} ELSE IF EcpuMaximum(c) = Absent THEN {} ELSE {"Sum"},
         "ECPUUtilizationPercent",
         LAMBDA v : Nearest(100 * 100 * v, EcpuMaximum(c) * 60 * PeriodMinutes))

NormalizeNode(raw, c, serverless) ==
  LET node == DropUndefinedHitRate(raw)
      derived == Merge(PerMinuteSeries(node), StoragePercentSeries(node, c))
  IN [node EXCEPT !.series =
        Merge(node.series, IF serverless THEN Merge(derived, EcpuPercentSeries(node, c))
                           ELSE derived)]

Normalize(raw, c) ==
  [raw EXCEPT !.nodes =
     [i \in DOMAIN raw.nodes |-> NormalizeNode(raw.nodes[i], c, raw.serverless)]]

-----------------------------------------------------------------------------
(* Collecting values.  A point is a value and the timestamp it is paired   *)
(* with, Absent when there is none left for it.                            *)

\* The grid, cut to the length of the series (_normalize_metrics).
Times(data, series) == SubSeq(data.timestamps, 1, Min({Len(data.timestamps), Len(series)}))
Zipped(times, values) ==
  [i \in DOMAIN values |->
     [at |-> IF i \in DOMAIN times THEN times[i] ELSE Absent, value |-> values[i]]]

\* One node after the other.  Timestamps and values are appended to a list of
\* their own: values of a node beyond the grid take the timestamps of the next.
Concatenated(data, SeriesFrom(_)) ==
  Zipped(FlattenSeq([i \in DOMAIN data.nodes |-> Times(data, SeriesFrom(data.nodes[i]))]),
         FlattenSeq([i \in DOMAIN data.nodes |-> SeriesFrom(data.nodes[i])]))
Collect(data, metric, stat) == Concatenated(data, LAMBDA node : SeriesOf(node, metric, stat))

\* The first statistic of the preference each node has.
FirstStat(node, metric, preference) ==
  SelectSeq(preference, LAMBDA s : HasSeries(node, metric, s))
PreferredOf(node, metric, preference) ==
  LET stats == FirstStat(node, metric, preference)
  IN IF stats = <<>> THEN <<>> ELSE SeriesOf(node, metric, stats[1])
Preferred(data, metric, preference) ==
  Concatenated(data, LAMBDA node : PreferredOf(node, metric, preference))
PeakFirst == <<"Maximum", "Average", "Sum">>
AverageFirst == <<"Average", "Maximum", "Sum">>

\* The values of one series, their timestamps not read; what zip yields; what
\* was measured.
Points(series) == Zipped(<<>>, series)
Dated(points) == Picked(points, {i \in DOMAIN points : points[i].at # Absent})
Valid(points) == Picked(points, {i \in DOMAIN points : Measured(points[i].value)})
LastWindow(points) ==
  LET dated == Dated(points)
      last == Max({p.at : p \in Range(dated)})
  IN IF dated = <<>> THEN <<>> ELSE Picked(dated, {i \in DOMAIN dated : dated[i].at >= last - WindowSlots})

\* Only entries of a "nodes" level are read; a serverless cache has none.
NodesOnly(data) == IF data.serverless THEN [data EXCEPT !.nodes = <<>>] ELSE data

-----------------------------------------------------------------------------
(* Statistics of sequences of measured points.                             *)

Total(points) == FoldLeft(LAMBDA acc, p : acc + p.value, 0, points)
Peak(points) == Max({p.value : p \in Range(points)})

Smaller(points, v) == Cardinality({i \in DOMAIN points : points[i].value < v})
NotGreater(points, v) == Cardinality({i \in DOMAIN points : points[i].value <= v})
Kth(points, k) ==
  CHOOSE v \in {p.value : p \in Range(points)} : Smaller(points, v) < k /\ k <= NotGreater(points, v)

\* numpy's default interpolation between the two nearest ranks, in hundredths.
Percentile(points, p) ==
  LET rank == p * (Len(points) - 1)
      low == Kth(points, rank \div 100 + 1)
      high == IF rank % 100 = 0 THEN low ELSE Kth(points, rank \div 100 + 2)
  IN 100 * low + (rank % 100) * (high - low)
P95(points) == IF points = <<>> THEN 0 ELSE Percentile(points, 95)

\* The coefficient of variation std/mean is below the square root of num/den;
\* a mean of 0 counts as no variation.
VariationBelow(values, num, den) ==
  LET n == Len(values)
      sum == FoldLeft(+, 0, values)
      squares == FoldLeft(LAMBDA acc, v : acc + v * v, 0, values)
  IN sum = 0 \/ n * squares - sum * sum < CeilDiv(num * sum * sum, den)
=============================================================================
