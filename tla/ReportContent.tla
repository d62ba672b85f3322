---------------------------- MODULE ReportContent ----------------------------
(***************************************************************************)
(* scripts/generate_html_report.py: what a report says.  The reduction of  *)
(* the metrics to chart bundles, the gates that the notes of the agent     *)
(* must pass, and the payload: rows, findings, scores, savings, coverage.  *)
(*                                                                         *)
(* Layout, formatting and the order of lists are left out.  The overall    *)
(* scores and the means are in tenths, to which the code rounds them (of a *)
(* tie, which its binary fractions decide, the upper one is taken).        *)
(***************************************************************************)
EXTENDS AnalyzeFleet, CheckConfiguration

CONSTANTS
  BucketSlots,  \* values per point of a chart (SAMPLES_PER_HOUR, 12)
  Pricings      \* what pricing.json can hold: cluster id -> price, or Absent

ASSUME BucketAssumption == BucketSlots \in Nat \ {0}
ASSUME CoverageAssumption ==
  Absent \notin [skipped : SUBSET (CheckIds \X Ids), unchecked : SUBSET Ids]

\* What the agent writes (references/report-generation.md): for each cluster the
\* cost of its nodes and the options with an estimate.  Without a node type
\* there is nothing to price, and a move to Graviton commits to nothing.
ASSUME PricingsAssumption ==
  \A prices \in Pricings \ {Absent} :
    /\ IsFiniteSet(DOMAIN prices)
    /\ \A id \in DOMAIN prices :
         /\ prices[id].node_type \in BOOLEAN /\ prices[id].current \in Nat \cup {Absent}
         /\ IsFiniteSet(prices[id].options)
         /\ ~prices[id].node_type => prices[id].current = Absent /\ prices[id].options = {}
         /\ \A option \in prices[id].options :
              /\ option.eligible \in BOOLEAN /\ option.commitment \in BOOLEAN
              /\ option.saving \in Int \cup {Absent}
              /\ option.key = "graviton" => ~option.commitment

VARIABLES
  reportData,   \* report_data.json: cluster id -> bundle, Absent before it is there
  pricing,      \* pricing.json, Absent without one
  notes,        \* notes.json, Absent without one
  report,       \* the payload of report.html, Absent without one
  renderExit    \* exit code of the render, -1 before it

reportVars == <<reportData, pricing, notes, report, renderExit>>

-----------------------------------------------------------------------------
(* The reduction: one bundle of charts per cluster.                        *)

MaxOrAbsent(values) ==
  LET measured == {v \in Range(values) : Measured(v)}
  IN IF measured = {} THEN Absent ELSE Max(measured)
\* The buckets are those of the grid; a slice of a series that is shorter holds
\* what is there, and nothing is read beyond the last bucket.
Slice(series, first, last) == SubSeq(series, first, Min({last, Len(series)}))
BucketizeFull(series, grid) ==
  [b \in 1..(Len(grid) \div BucketSlots) |->
     MaxOrAbsent(Slice(series, (b - 1) * BucketSlots + 1, b * BucketSlots))]
Bucketize(series, grid) ==
  [b \in 1..CeilDiv(Len(grid), BucketSlots) |->
     MaxOrAbsent(Slice(series, (b - 1) * BucketSlots + 1, b * BucketSlots))]

\* One curve per node that has any value of the metric.
NodeSeries(raw, key) ==
  LET with == Picked(raw.nodes, {i \in DOMAIN raw.nodes :
                                   SeriesOf(raw.nodes[i], key[1], key[2]) # <<>>})
  IN [i \in DOMAIN with |->
        [node |-> with[i].id,
         values |-> Bucketize(SeriesOf(with[i], key[1], key[2]), raw.timestamps)]]
ChartPeak(curves) ==
  Max({0} \cup ((UNION {Range(curves[i].values) : i \in DOMAIN curves}) \ {Absent}))

PanelMetrics ==
  {<<"EngineCPUUtilization", "Maximum">>, <<"DatabaseMemoryUsagePercentage", "Maximum">>,
   <<"NetworkBaselineUsageInPercentage", "Maximum">>, <<"CacheHitRate", "Average">>,
   <<"CurrConnections", "Maximum">>, <<"Evictions", "Sum">>, <<"ReplicationLag", "Maximum">>,
   <<"IsMaster", "Maximum">>, <<"BytesUsedForCache", "Maximum">>,
   <<"ElastiCacheProcessingUnits", "Sum">>, <<"ThrottledCmds", "Sum">>}

PanelMetricsBundle(raw) ==
  LET reported == {key \in StoredKeys(raw) : NodeSeries(raw, key) # <<>>}
      charted == {key \in reported : ChartPeak(NodeSeries(raw, key)) > 0}
  IN [charts |-> [key \in charted |-> NodeSeries(raw, key)],
      flat_zero |-> reported \ charted,
      not_reported |-> PanelMetrics \ reported,
      metrics_reported |-> TRUE]
EmptyBundle ==
  [charts |-> [key \in {} |-> <<>>], flat_zero |-> {}, not_reported |-> PanelMetrics,
   metrics_reported |-> FALSE]
BuildReportData == [id \in DOMAIN metricsFile |-> PanelMetricsBundle(metricsFile[id])]

-----------------------------------------------------------------------------
(* What the report is made of: the files, keyed by cluster.                *)

InventoryIds == Named(Records)
AnalysisOf(id) == IF id \in DOMAIN analysisFile THEN analysisFile[id] ELSE Absent
AnalysisFindings(id) ==
  IF AnalysisOf(id) = Absent THEN {} ELSE Range(analysisFile[id].findings)
CheckedIds == IF findingsFile = Absent THEN {} ELSE DOMAIN findingsFile.clusters
ConfigFindings(id) ==
  IF id \in CheckedIds THEN Range(findingsFile.clusters[id].findings) ELSE {}
Output(id, model) == IF AnalysisOf(id) = Absent THEN Absent ELSE analysisFile[id].outputs[model]
ClassificationOf(id) ==
  IF Output(id, "utilization") = Absent THEN "unknown" ELSE Output(id, "utilization").classification
SteadinessOf(id) == Output(id, "steadiness")

\* A finding as the report lists it, before the notes.
ShownAnalysis(id, f) ==
  [cluster |-> id, id |-> f.id, severity |-> f.severity, key |-> f.title, check |-> "none",
   verdict |-> "none", note |-> FALSE]
ShownConfig(id, f) ==
  [cluster |-> id, id |-> <<id, "configuration", f.number>>, severity |-> f.severity,
   key |-> <<"check", f.check, "">>, check |-> f.check, verdict |-> "none", note |-> FALSE]
ListedFindings ==
  UNION ({{ShownAnalysis(id, f) : f \in AnalysisFindings(id)} : id \in DOMAIN analysisFile}
         \cup {{ShownConfig(id, f) : f \in ConfigFindings(id)} : id \in CheckedIds})

-----------------------------------------------------------------------------
(* The gates for the notes.  A note is about a finding; its reasoning      *)
(* quotes figures that its citations support, or does not.                 *)

Verdicts == {"confirmed", "false_positive", "needs_data"}
NotedIds == {notes.findings[i].id : i \in DOMAIN notes.findings}
Reasoned == {i \in DOMAIN notes.findings : notes.findings[i].reasoning}
HasProse == notes.assessment # "none" \/ Reasoned # {}

\* verify_notes: without prose there is nothing to verify, the ids included.
NotesVerified(findings) ==
  HasProse =>
    /\ notes.assessment # "unsupported"
    /\ \A i \in Reasoned : notes.findings[i].supported
    /\ NotedIds \subseteq {f.id : f \in findings}

\* fleet_wide_patterns: FLEET_PATTERN_FRACTION is one half, and two at least.
PatternThreshold(clusters) == Max({2, CeilDiv(clusters, 2)})
ClustersWith(findings, key) == {f.cluster : f \in {f \in findings : f.key = key}}
FleetWidePatterns(findings, clusters) ==
  IF clusters < 2 THEN {}
  ELSE {key \in {f.key : f \in findings} :
          Cardinality(ClustersWith(findings, key)) >= PatternThreshold(clusters)}
AddressedByAnyNote(findings, key) == \E f \in findings : f.key = key /\ f.id \in NotedIds
Addressed(findings, key) ==
  \E f \in findings : f.key = key /\ f.id \in {notes.findings[i].id : i \in Reasoned}
CoverageVerified(findings, clusters) ==
  \A key \in FleetWidePatterns(findings, clusters) : Addressed(findings, key)

\* _build_notes: the last note about a finding is the one shown.
Annotated(f) ==
  LET about == {i \in DOMAIN notes.findings : notes.findings[i].id = f.id}
      last == notes.findings[Max(about)]
  IN IF about = {} THEN f
     ELSE [f EXCEPT !.note = last.reasoning,
                    !.verdict = IF last.verdict \in Verdicts THEN last.verdict ELSE "none"]

-----------------------------------------------------------------------------
(* Scores                                                                  *)

PillarWeights ==
  [reliability |-> 25, performance |-> 25, security |-> 20, cost_optimization |-> 15,
   operational_excellence |-> 10, sustainability |-> 5]
Pillars == DOMAIN PillarWeights
ScorePenalty == [CRITICAL |-> 25, HIGH |-> 15, MEDIUM |-> 8, LOW |-> 3]

\* A correlation explains another finding and is not scored; waste counts
\* against sustainability.
AnalysisPillarOfAll(f) ==
  IF f.model = "utilization" /\ f.title[3] \in {"IDLE", "OVER-PROVISIONED"}
  THEN "sustainability" ELSE "performance"
AnalysisPillar(f) ==
  CASE f.model = "correlation" -> "none"
    [] f.model = "utilization" /\ f.title[3] \in {"IDLE", "OVER-PROVISIONED"} -> "sustainability"
    [] OTHER -> "performance"
ConfigPillar(f) == (CHOOSE k \in Range(Checks) : k.id = f.check).pillar

Penalty(findings, PillarOf(_), pillar) ==
  MapThenSumSet(LAMBDA f : ScorePenalty[f.severity], {f \in findings : PillarOf(f) = pillar})
PillarScore(id, pillar) ==
  Max({0, 100 - Penalty(AnalysisFindings(id), AnalysisPillar, pillar)
              - Penalty(ConfigFindings(id), ConfigPillar, pillar)})
ScoreCluster(id) ==
  LET scores == [p \in Pillars |-> PillarScore(id, p)]
  IN [pillars |-> scores,
      overall |-> Nearest(MapThenSumSet(LAMBDA p : PillarWeights[p] * scores[p], Pillars), 10)]

\* The fleet's scores are the means of its clusters' scores in tenths, 100 without
\* clusters.
MeanOver(ids, TenthsOf(_)) ==
  IF ids = {} THEN 1000 ELSE Nearest(MapThenSumSet(TenthsOf, ids), Cardinality(ids))
BuildScores ==
  [clusters |-> [id \in InventoryIds |-> ScoreCluster(id)],
   pillars |-> [p \in Pillars |-> MeanOver(InventoryIds, LAMBDA id : 10 * PillarScore(id, p))],
   overall |-> MeanOver(InventoryIds, LAMBDA id : ScoreCluster(id).overall)]

-----------------------------------------------------------------------------
(* Savings: the priced options that are honest to show.                    *)

Choice(key, saving, commitment, risk, decommission) ==
  [key |-> key, saving |-> saving, commitment |-> commitment, risk |-> risk,
   is_decommission |-> decommission]
WithoutSaving(option) ==
  \/ ~option.eligible
  \/ option.key = "graviton" /\ (option.saving = Absent \/ option.saving <= 0)
GateOption(option, steadiness) ==
  IF WithoutSaving(option) THEN Choice(option.key, Absent, option.commitment, FALSE, FALSE)
  ELSE Choice(option.key, option.saving, option.commitment,
              option.commitment /\ steadiness \in {"variable", "spiky"}, FALSE)
GateOptions(price, classification, steadiness) ==
  CASE ~price.node_type -> {}
    [] price.node_type /\ classification = "IDLE" ->
         {Choice("decommission", price.current, FALSE, FALSE, TRUE)}
    [] OTHER -> {GateOption(option, steadiness) : option \in price.options}

IdleIds == {id \in DOMAIN pricing : ClassificationOf(id) = "IDLE" /\ pricing[id].current # Absent}
IdleRecoverable ==
  LET spent == MapThenSumSet(LAMBDA id : pricing[id].current, IdleIds)
  IN IF spent > 0 THEN spent ELSE Absent
\* Commitments only of a cluster that is kept and steady.
CommittedSavings ==
  {option.saving : option \in
     UNION {{o \in pricing[id].options : o.eligible /\ o.commitment /\ o.saving # Absent} :
              id \in {id \in DOMAIN pricing : /\ ClassificationOf(id) \notin {"unknown", "IDLE"}
                                              /\ SteadinessOf(id) = "steady"}}}
BuildSavings ==
  IF pricing = Absent THEN Absent
  ELSE [options |-> [id \in DOMAIN pricing |->
                       GateOptions(pricing[id], ClassificationOf(id), SteadinessOf(id))],
        idle_recoverable |-> IdleRecoverable,
        best_committed |-> IF CommittedSavings = {} THEN Absent ELSE Max(CommittedSavings)]

-----------------------------------------------------------------------------
(* build_payload                                                           *)

\* Which checks did not run on which clusters, and which clusters had none.
ConfigCoverage ==
  IF findingsFile = Absent THEN Absent
  ELSE [skipped |-> UNION {{<<check_id, id>> : check_id \in findingsFile.clusters[id].skipped} :
                             id \in CheckedIds},
        unchecked |-> InventoryIds \ CheckedIds]

Row(id) ==
  LET c == LastRecordOf(Records, id)
  IN [type |-> c.cluster_type, tls |-> c.tls, at_rest |-> c.at_rest,
      auth |-> IF c.auth_mode = Absent THEN "none" ELSE c.auth_mode,
      multi_az |-> c.multi_az, failover |-> c.failover, backups |-> c.retention,
      tags |-> c.tags, classification |-> ClassificationOf(id)]

OwnFindings(findings, id) == {f \in findings : f.cluster = id}
WorstSeverity(findings) ==
  IF findings = {} THEN "none"
  ELSE CHOOSE s \in {f.severity : f \in findings} :
         \A f \in findings : SeverityRank[f.severity] <= SeverityRank[s]
Bundles == IF reportData = Absent THEN BuildReportData ELSE reportData
ClusterPanel(id, findings) ==
  [worst_severity |-> WorstSeverity(OwnFindings(findings, id)),
   finding_count |-> Cardinality(OwnFindings(findings, id)),
   bundle |-> IF id \in DOMAIN Bundles THEN Bundles[id] ELSE EmptyBundle]

NotesSection(findings) ==
  IF notes = Absent THEN Absent
  ELSE [annotated |-> Cardinality({i \in DOMAIN notes.findings :
                                     notes.findings[i].id \in {f.id : f \in findings}}),
        coverage |-> FleetWidePatterns(findings, Cardinality(InventoryIds))]

BuildPayload(findings) ==
  [rows |-> [id \in InventoryIds |-> Row(id)],
   findings |-> IF notes = Absent THEN findings ELSE {Annotated(f) : f \in findings},
   panels |-> [id \in InventoryIds |-> ClusterPanel(id, findings)],
   config |-> ConfigCoverage, scores |-> BuildScores, savings |-> BuildSavings,
   notes |-> NotesSection(findings)]

-----------------------------------------------------------------------------
(* main: with --emit-report-data the reduction, without it the render.     *)

ReportInit ==
  /\ reportData = Absent /\ notes = Absent /\ report = Absent /\ renderExit = -1

EmitReportData ==
  /\ metricsFile \notin BadMetrics /\ Absent \notin Range(metricsFile)
  /\ reportData' = BuildReportData
  /\ UNCHANGED <<pricing, notes, report, renderExit>>

NotesPassGates(findings) ==
  notes # Absent =>
    NotesVerified(findings) /\ CoverageVerified(findings, Cardinality(InventoryIds))

\* Inventory and analysis are required, the other files are read if they are
\* there.
RenderRefused ==
  /\ analysisFile = Absent \/ inventory \in {NoFile, NotJson}
  /\ renderExit' = 1
  /\ UNCHANGED <<reportData, pricing, notes, report>>

\* A NotesError: no report is written.
RenderRejectsNotes ==
  /\ analysisFile # Absent /\ inventory \notin {NoFile, NotJson}
  /\ ~NotesPassGates(ListedFindings)
  /\ renderExit' = 1
  /\ UNCHANGED <<reportData, pricing, notes, report>>

Render ==
  /\ analysisFile # Absent /\ inventory \notin {NoFile, NotJson}
  /\ NotesPassGates(ListedFindings)
  /\ report' = BuildPayload(ListedFindings)
  /\ renderExit' = 0
  /\ UNCHANGED <<reportData, pricing, notes>>
RenderFails ==
  /\ analysisFile # Absent /\ inventory \notin {NoFile, NotJson}
  /\ NotesPassGates(ListedFindings)
  /\ renderExit' = 1
  /\ UNCHANGED <<reportData, pricing, notes, report>>
=============================================================================
