----------------------------- MODULE AnalyzeFleet -----------------------------
(***************************************************************************)
(* scripts/analyze_metrics.py: Stage 3.  For every cluster with metrics    *)
(* the orchestrator runs the models one after the other, each behind its   *)
(* own handler: one that raises costs its own result, except the first,    *)
(* PercentileModel, which costs all that follow.  The findings generator   *)
(* turns what is there into findings.                                      *)
(*                                                                         *)
(* Which exception a model can meet depends on data this model does not    *)
(* have, so a model may raise at any time, MaxRaised times in a run.       *)
(***************************************************************************)
EXTENDS ClusterModels

CONSTANTS
  MetricsFiles,  \* what metrics.json and its shards can hold
  MaxRaised      \* bound: how many models raise in a run

ASSUME MaxRaisedAssumption == MaxRaised \in Nat

\* Stage 2 keeps the timestamps of one series as those of the cluster: the first
\* that is not empty, of the first node that has one.  (Which metric comes first in
\* a dict is left open.)
Grids(nodes) ==
  LET Filled(node) == {key \in DOMAIN node.series : node.series[key] # <<>>}
      with == {i \in DOMAIN nodes : Filled(nodes[i]) # {}}
      first == nodes[Min(with)]
  IN IF with = {} THEN {<<>>} ELSE {first.measuredAt[key] : key \in Filled(first)}

\* What Stage 2 stores for a cluster, a dict of nodes each with a dict of series by
\* metric and statistic; Absent if its shard cannot be read.  When each value was
\* measured is history: measuredAt is not in the file, and no model reads it.
IsStored(raw) ==
  /\ raw = [serverless |-> raw.serverless, timestamps |-> raw.timestamps, nodes |-> raw.nodes]
  /\ raw.timestamps \in Seq(Nat) /\ raw.timestamps \in Grids(raw.nodes)
  /\ raw.serverless \in BOOLEAN /\ raw.nodes \in Seq(Range(raw.nodes))
  /\ \A i, j \in DOMAIN raw.nodes : raw.nodes[i].id = raw.nodes[j].id => i = j
  /\ \A i \in DOMAIN raw.nodes :
       /\ raw.nodes[i] = [id |-> raw.nodes[i].id, series |-> raw.nodes[i].series,
                          measuredAt |-> raw.nodes[i].measuredAt]
       /\ IsFiniteSet(DOMAIN raw.nodes[i].series)
       /\ \A key \in DOMAIN raw.nodes[i].series :
            /\ key = <<key[1], key[2]>>
            /\ raw.nodes[i].series[key] \in Seq(Int \cup {Absent})
            /\ raw.nodes[i].measuredAt[key] \in Seq(Nat)
            /\ Len(raw.nodes[i].measuredAt[key]) = Len(raw.nodes[i].series[key])
ASSUME MetricsFilesAssumption ==
  \A file \in MetricsFiles \ {NoFile, NotJson} :
    /\ IsFiniteSet(DOMAIN file)
    /\ \A id \in DOMAIN file : file[id] = Absent \/ IsStored(file[id])

\* Counts of requests: a cluster has served what they add up to.
ASSUME CountersAssumption ==
  \A file \in MetricsFiles \ {NoFile, NotJson} : \A id \in DOMAIN file :
    file[id] # Absent =>
      \A i \in DOMAIN file[id].nodes, m \in TrafficCounters :
        \A value \in Range(SeriesOf(file[id].nodes[i], m, "Sum")) : Measured(value) => value >= 0

VARIABLES
  metricsFile,   \* NoFile, NotJson or cluster id -> stored series, Absent if unreadable
  pending,       \* clusters with metrics still to analyse
  cluster,       \* the one under analysis, Absent between two
  data,          \* its normalised series
  position,      \* position in Models of the next model
  outputs,       \* model -> its result, Absent without one
  failed,        \* the models listed under "errors"
  analyzed,      \* cluster id -> what was kept for it
  raised,        \* how many models have raised
  analysisFile,  \* analysis.json
  analyzeExit    \* exit code, -1 while running

analyzeVars == <<metricsFile, pending, cluster, data, position, outputs, failed, analyzed,
                 raised, analysisFile, analyzeExit>>
analysisInputs == <<metricsFile, inventory>>

-----------------------------------------------------------------------------
(* FindingsGenerator.  A conclusion keeps what it is about (one metric, or *)
(* the pair of a correlation), its dedup key, and the variable part of its *)
(* title.                                                                  *)

SeverityRank == [HEALTHY |-> 0, INFO |-> 0, LOW |-> 1, MEDIUM |-> 2, HIGH |-> 3, CRITICAL |-> 4]

Conclusion(model, severity, metric, detail) ==
  [id |-> Absent, model |-> model, severity |-> severity, metric |-> metric, about |-> {metric},
   key |-> metric, title |-> <<model, metric, detail>>]
Listed(set, Op(_)) == LET order == SetToSeq(set) IN [i \in DOMAIN order |-> Op(order[i])]

PercentileFindings(result) ==
  LET Severity(k) == ClassifyValue(k[1], result[k].p95)
      reported == {k \in DOMAIN result : /\ result[k].status = "ok"
                                         /\ Severity(k) \notin {"HEALTHY", "LOW"}}
  IN Listed(reported, LAMBDA k : Conclusion("percentile", Severity(k), k[1], Severity(k)))

TrendSeverity(metric, line) ==
  LET bound == CASE metric = "DatabaseMemoryUsagePercentage" -> 5
                 [] metric = "CacheHitRate" -> 10
                 [] metric = "ReplicationLag" -> 1000
                 [] OTHER -> Absent
  IN IF bound = Absent THEN "MEDIUM" ELSE IF SteeperThan(line, bound) THEN "HIGH" ELSE "MEDIUM"
TrendFindings(result) ==
  LET reported == {m \in DOMAIN result : result[m].status = "ok" /\ result[m].is_finding}
  IN Listed(reported, LAMBDA m :
       Conclusion("trend", TrendSeverity(m, result[m].line), m, result[m].direction))

UtilizationSeverity(classification) ==
  CASE classification = "SATURATED" -> "CRITICAL"
    [] classification \in {"CPU-BOUND", "MEMORY-BOUND", "NETWORK-BOUND"} -> "HIGH"
    [] classification = "HEAVY" -> "MEDIUM"
    [] OTHER -> "LOW"
DominantMetric(classification) ==
  CASE classification = "MEMORY-BOUND" -> "DatabaseMemoryUsagePercentage"
    [] classification = "NETWORK-BOUND" -> "NetworkBandwidth"
    [] OTHER -> "EngineCPUUtilization"
UtilizationFindings(result) ==
  IF result.classification = "BALANCED" THEN <<>>
  ELSE << Conclusion("utilization", UtilizationSeverity(result.classification),
                     DominantMetric(result.classification), result.classification) >>

BreachFindings(result) ==
  LET reported == {m \in DOMAIN result : SeverityRank[result[m].severity] >= SeverityRank["MEDIUM"]}
  IN Listed(reported, LAMBDA m : Conclusion("breach", result[m].severity, m, "breach"))

RatioMetric ==
  [hit_rate |-> "CacheHitRate", ttl_coverage |-> "TTLCoverage", eviction_pressure |-> "Evictions",
   connection_utilization |-> "CurrConnections", network_burst_risk |-> "NetworkBandwidth",
   write_amplification |-> "ReplicationBytes", read_write_ratio |-> "ReadWriteRatio"]
EfficiencyFindings(result) ==
  LET reported == {r \in DOMAIN result : result[r] \in {"MEDIUM", "HIGH"}}
  IN Listed(reported, LAMBDA r : Conclusion("efficiency", result[r], RatioMetric[r], r))

ImbalanceSeverity(class) ==
  CASE class = "minor_imbalance" -> "LOW"
    [] class = "significant_imbalance" -> "MEDIUM"
    [] OTHER -> "HIGH"
ShardBalanceFindings(result) ==
  IF result.classification = "well-balanced" THEN <<>>
  ELSE << Conclusion("shard_balance", ImbalanceSeverity(result.classification), "ShardBalance",
                     result.classification) >>

\* Pairs that describe normal operation (INFO) are not findings.
CorrelationFindings(result) ==
  LET reported == Picked(result, {i \in DOMAIN result : result[i].severity # "INFO"})
  IN [i \in DOMAIN reported |->
        [Conclusion("correlation", reported[i].severity, reported[i].a, reported[i].b)
           EXCEPT !.key = <<reported[i].a, reported[i].b>>,
                  !.about = {reported[i].a, reported[i].b}]]

\* In the generator's order; a model without a result contributes nothing.
Conclusions(out) ==
  LET From(model, Findings(_)) == IF out[model] = Absent THEN <<>> ELSE Findings(out[model])
  IN From("percentile", PercentileFindings) \o From("trend", TrendFindings)
       \o From("utilization", UtilizationFindings) \o From("breach", BreachFindings)
       \o From("efficiency", EfficiencyFindings) \o From("shard_balance", ShardBalanceFindings)
       \o From("correlation", CorrelationFindings)

\* _next_finding_id: the counter starts again with every cluster, whose name
\* is part of the id.
Numbered(conclusions, id) ==
  [i \in DOMAIN conclusions |->
     [conclusions[i] EXCEPT !.id = <<id, conclusions[i].model, i>>]]

Expected(finding, workload) ==
  /\ finding.severity = "MEDIUM"
  /\ \/ workload = "rate-limiter" /\ finding.metric = "CacheHitRate"
     \/ workload = "session-store" /\ finding.metric = "EvictionsPerMinute"
Upgraded(finding, workload) ==
  IF workload = "cache-aside" /\ finding.metric = "CacheHitRate" /\ finding.severity = "MEDIUM"
  THEN [finding EXCEPT !.severity = "HIGH"] ELSE finding
ApplyWorkloadContext(findings, workload) ==
  LET kept == Picked(findings, {i \in DOMAIN findings : ~Expected(findings[i], workload)})
  IN [i \in DOMAIN kept |-> Upgraded(kept[i], workload)]

\* Per model and key the first of the most severe findings.
SameGroup(f, g) == f.model = g.model /\ f.key = g.key
SupersedesStrictly(f, i, g, j) == SeverityRank[f.severity] > SeverityRank[g.severity]
Supersedes(f, i, g, j) ==
  \/ SeverityRank[f.severity] > SeverityRank[g.severity]
  \/ SeverityRank[f.severity] = SeverityRank[g.severity] /\ i < j
Deduplicate(findings) ==
  Picked(findings,
         {i \in DOMAIN findings : \A j \in DOMAIN findings :
            SameGroup(findings[i], findings[j]) /\ i # j =>
              Supersedes(findings[i], i, findings[j], j)})

GenerateFindings(out, workload, id) ==
  Deduplicate(ApplyWorkloadContext(Numbered(Conclusions(out), id), workload))

-----------------------------------------------------------------------------
(* AnalysisOrchestrator                                                    *)

Models == << "percentile", "workload", "trend", "utilization", "breach", "efficiency",
             "shard_balance", "traffic_pattern", "steadiness", "correlation" >>
ModelNames == Range(Models)

\* The record of a cluster: the last one of its name, Absent without one.
InventoryRecord(id) ==
  IF id \in Named(Records) THEN LastRecordOf(Records, id) ELSE Absent

ResultOf(model, series, c) ==
  CASE model = "percentile" -> PercentileModel(series, c)
    [] model = "workload" -> WorkloadClass(series)
    [] model = "trend" -> TrendModel(series, c)
    [] model = "utilization" -> UtilizationModel(series, c)
    [] model = "breach" -> BreachModel(series, c)
    [] model = "efficiency" -> EfficiencyModel(series, c)
    [] model = "shard_balance" -> ShardBalanceModel(series, c)
    [] model = "traffic_pattern" -> TrafficPatternModel(series, c)
    [] model = "steadiness" -> SteadinessModel(series, c)
    [] model = "correlation" -> CorrelationModel(series, c)
Compute(model) == ResultOf(model, data, InventoryRecord(cluster))

\* A result is never mistaken for none: every model but one returns something.
ASSUME ResultsAssumption ==
  \A file \in MetricsFiles \ {NoFile, NotJson} : \A id \in DOMAIN file :
    \A c \in {Absent} \cup UNION {Range(records) : records \in Inventories \ BadFiles} :
      file[id] # Absent =>
        \A m \in ModelNames \ {"shard_balance"} : ResultOf(m, Normalize(file[id], c), c) # Absent

NoOutputs == [m \in ModelNames |-> Absent]
BadMetrics == {NoFile, NotJson}

AnalyzeInit ==
  /\ pending = IF metricsFile \in BadMetrics THEN {} ELSE DOMAIN metricsFile
  /\ cluster = Absent /\ data = Absent /\ position = 1 /\ outputs = NoOutputs /\ failed = {}
  /\ analyzed = [id \in {} |-> Absent] /\ raised = 0
  /\ analysisFile = Absent /\ analyzeExit = -1

Analyzing == analyzeExit = -1
NoRun == UNCHANGED <<pending, cluster, data, position, outputs, failed, analyzed, raised>>

\* Files that cannot be read, or nothing to analyse: exit 1.  A record without
\* a cluster_id, and a shard that is not there, end the process with an
\* exception: exit 1 too.
Unreadable ==
  \/ metricsFile \in BadMetrics \/ inventory \in {NoFile, NotJson}
  \/ \E i \in DOMAIN Records : Records[i].cluster_id = Absent
  \/ metricsFile \notin BadMetrics /\ DOMAIN metricsFile = {}
RefuseInput ==
  /\ Analyzing /\ Unreadable
  /\ analyzeExit' = 1
  /\ NoRun /\ UNCHANGED <<analysisInputs, analysisFile>>

Ready == Analyzing /\ ~Unreadable

\* Clusters are taken in a fixed order.
StartCluster ==
  /\ Ready /\ cluster = Absent /\ pending # {}
  /\ LET id == CHOOSE i \in pending : TRUE
     IN /\ metricsFile[id] # Absent
        /\ cluster' = id /\ pending' = pending \ {id}
        /\ data' = Normalize(metricsFile[id], InventoryRecord(id))
  /\ UNCHANGED <<analysisInputs, position, outputs, failed, analyzed, raised, analysisFile,
                 analyzeExit>>
ShardMissing ==
  /\ Ready /\ cluster = Absent /\ pending # {}
  /\ metricsFile[CHOOSE i \in pending : TRUE] = Absent
  /\ analyzeExit' = 1
  /\ NoRun /\ UNCHANGED <<analysisInputs, analysisFile>>

Running == Ready /\ cluster # Absent /\ position <= Len(Models)
Model == Models[position]
PercentileFailed == "percentile" \in failed
Skipped == position > 2 /\ PercentileFailed

ModelSucceeds ==
  /\ Running /\ ~Skipped
  /\ outputs' = [outputs EXCEPT ![Model] = Compute(Model)]
  /\ position' = position + 1
  /\ UNCHANGED <<analysisInputs, pending, cluster, data, failed, analyzed, raised, analysisFile,
                 analyzeExit>>

\* A failed workload model leaves the class "unknown".
Fallback == IF Model = "workload" THEN "unknown" ELSE Absent
ModelFails ==
  /\ outputs' = [outputs EXCEPT ![Model] = Fallback]
  /\ failed' = failed \cup {Model}
  /\ position' = position + 1
  /\ UNCHANGED <<analysisInputs, pending, cluster, data, analyzed, analysisFile, analyzeExit>>
ModelRaises == Running /\ ~Skipped /\ raised < MaxRaised /\ ModelFails /\ raised' = raised + 1
ModelSkippedFromStart ==
  /\ Running /\ Skipped /\ UNCHANGED raised
  /\ outputs' = [outputs EXCEPT ![Model] = Fallback]
  /\ failed' = failed \cup {Model} /\ position' = 1
  /\ UNCHANGED <<analysisInputs, pending, cluster, data, analyzed, analysisFile, analyzeExit>>
ModelSkipped == Running /\ Skipped /\ ModelFails /\ UNCHANGED raised

Kept(findings, errors) ==
  [id \in DOMAIN analyzed \cup {cluster} |->
     IF id = cluster THEN [outputs |-> outputs, findings |-> findings, errors |-> errors]
     ELSE analyzed[id]]
FinishCluster ==
  /\ Ready /\ cluster # Absent /\ position > Len(Models)
  /\ cluster' = Absent /\ data' = Absent /\ position' = 1 /\ outputs' = NoOutputs /\ failed' = {}
  /\ UNCHANGED <<analysisInputs, pending, analysisFile, analyzeExit>>
KeepFindings ==
  /\ FinishCluster
  /\ analyzed' = Kept(GenerateFindings(outputs, outputs["workload"], cluster), failed)
  /\ UNCHANGED raised
GeneratorRaises ==
  /\ FinishCluster
  /\ raised < MaxRaised /\ raised' = raised + 1
  /\ analyzed' = Kept(<<>>, failed \cup {"findings"})

AllAnalyzed == Ready /\ cluster = Absent /\ pending = {}
WriteAnalysis ==
  /\ AllAnalyzed
  /\ analysisFile' = analyzed
  /\ analyzeExit' = 0
  /\ NoRun /\ UNCHANGED analysisInputs
WriteAnalysisFails ==
  /\ AllAnalyzed
  /\ analyzeExit' = 1
  /\ NoRun /\ UNCHANGED <<analysisInputs, analysisFile>>

AnalyzeNext ==
  \/ RefuseInput \/ StartCluster \/ ShardMissing
  \/ ModelSucceeds \/ ModelRaises \/ ModelSkipped
  \/ KeepFindings \/ GeneratorRaises
  \/ WriteAnalysis \/ WriteAnalysisFails

AnalyzeSpec ==
  /\ inventory \in Inventories /\ metricsFile \in MetricsFiles /\ AnalyzeInit
  /\ [][AnalyzeNext]_<<inventory, analyzeVars>>

-----------------------------------------------------------------------------
(* Properties                                                              *)

\* A model without a result is listed under "errors" (only the balance of shards
\* has nothing to say of some clusters), and unless the generator itself failed
\* no conclusion of a model is lost on the way through workload context and
\* deduplication: it is normal for the workload, or a finding of the same model
\* about the same thing, at least as severe, is kept, and only one.
AnalysisIsAccountedFor ==
  \A id \in DOMAIN analyzed :
    LET kept == analyzed[id]
        Covers(f, q) == /\ f.model = q.model /\ f.about = q.about
                        /\ SeverityRank[f.severity] >= SeverityRank[q.severity]
    IN /\ \A m \in ModelNames \ kept.errors : kept.outputs[m] # Absent \/ m = "shard_balance"
       /\ \/ "findings" \in kept.errors
          \/ /\ \A q \in Range(Conclusions(kept.outputs)) :
                  \/ Expected(q, kept.outputs["workload"])
                  \/ \E f \in Range(kept.findings) : Covers(f, q)
             /\ \A i, j \in DOMAIN kept.findings :
                  SameGroup(kept.findings[i], kept.findings[j]) => i = j

\* Of a cluster of one node the incidents reported for a metric are maximal
\* uninterrupted stretches beyond the critical threshold, the longest three of
\* them, and the minutes in breach count every stretch.
Stretches(metric, values) ==
  UNION {{<<i, j>> : j \in {j \in i..Len(values) :
             /\ \A k \in i..j : Breaches(metric, values[k])
             /\ i > 1 => ~Breaches(metric, values[i - 1])
             /\ j < Len(values) => ~Breaches(metric, values[j + 1])}} : i \in DOMAIN values}
IncidentsAreRuns ==
  \A id \in DOMAIN analyzed :
    (Len(metricsFile[id].nodes) = 1 /\ analyzed[id].outputs["breach"] # Absent) =>
      LET normalized == Normalize(metricsFile[id], InventoryRecord(id))
          breaches == analyzed[id].outputs["breach"]
      IN \A m \in DOMAIN breaches :
           LET points == BreachPoints(normalized, m)
               runs == Stretches(m, [i \in DOMAIN points |-> points[i].value])
               listed == {<<x.start, x.start + x.length - 1>> : x \in Range(breaches[m].incidents)}
           IN /\ listed \subseteq runs
              /\ Cardinality(listed) = Min({3, Cardinality(runs)})
              /\ \A l \in listed, r \in runs \ listed : r[2] - r[1] <= l[2] - l[1]
              /\ breaches[m].minutes = PeriodMinutes * Cardinality(UNION {r[1]..r[2] : r \in runs})

\* BreachModel: "currently_breaching: Whether metric is currently above
\* threshold".  When the last day of one of the nodes is beyond the threshold,
\* the cluster's breach is current.
BreachIsCurrent ==
  \A id \in DOMAIN analyzed :
    analyzed[id].outputs["breach"] # Absent =>
      LET normalized == Normalize(metricsFile[id], InventoryRecord(id))
          breaches == analyzed[id].outputs["breach"]
      IN \A m \in DOMAIN breaches, i \in DOMAIN normalized.nodes :
           CurrentlyBreaching(m, Points(PreferredOf(normalized.nodes[i], m, PeakFirst)))
             => breaches[m].current

\* UtilizationModel._has_traffic: "the IDLE verdict (which recommends *decommission*)
\* must rest on traffic".  A cluster classified IDLE has served nothing in the
\* window: of each traffic counter, whatever any node measured at most WindowSlots
\* before the last measurement of it is 0, by the dates CloudWatch gave.
SumsOn(raw, i, m) == SeriesOf(raw.nodes[i], m, "Sum")
DatesOn(raw, i, m) ==
  IF HasSeries(raw.nodes[i], m, "Sum") THEN raw.nodes[i].measuredAt[<<m, "Sum">>] ELSE <<>>
\* (When every counter was measured at the timestamps of the grid, from the first on,
\* the dates of the analysis are those.)
OnGrid(raw) ==
  \A m \in TrafficCounters, i \in DOMAIN raw.nodes :
    /\ Len(DatesOn(raw, i, m)) <= Len(raw.timestamps)
    /\ \A k \in DOMAIN DatesOn(raw, i, m) : DatesOn(raw, i, m)[k] = raw.timestamps[k]
RecentOn(raw, m, date) ==
  \A i \in DOMAIN raw.nodes : \A k \in DOMAIN DatesOn(raw, i, m) :
    date >= DatesOn(raw, i, m)[k] - WindowSlots
ServedNothing(raw) ==
  \A m \in TrafficCounters, i \in DOMAIN raw.nodes : \A k \in DOMAIN SumsOn(raw, i, m) :
    Measured(SumsOn(raw, i, m)[k]) /\ RecentOn(raw, m, DatesOn(raw, i, m)[k])
      => SumsOn(raw, i, m)[k] = 0
IdleRestsOnTraffic ==
  \A id \in DOMAIN analyzed :
    LET result == analyzed[id].outputs["utilization"]
    IN (result # Absent /\ result.classification = "IDLE") => ServedNothing(metricsFile[id])
=============================================================================
