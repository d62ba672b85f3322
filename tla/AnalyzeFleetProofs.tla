-------------------------- MODULE AnalyzeFleetProofs --------------------------
(***************************************************************************)
(* Proofs about AnalyzeFleet for any metrics, inventory and outcome of the *)
(* models.                                                                 *)
(***************************************************************************)
EXTENDS AnalyzeFleet, PositionsProofs

-----------------------------------------------------------------------------
(* What is left to analyse                                                 *)

AnalysisBounds == IsFiniteSet(pending) /\ position \in 1..11

\* The models of the orchestrator are ten.
LEMMA ModelCount == Len(Models) = 10 /\ DOMAIN Models = 1..10
  BY DEF Models

\* The bounds of the analysis hold at its start.
LEMMA BoundsInit ==
  ASSUME metricsFile \in MetricsFiles, AnalyzeInit
  PROVE  AnalysisBounds
  <1>1. IsFiniteSet(pending)
    <2>1. CASE metricsFile \in BadMetrics
      BY <2>1, FS_EmptySet DEF AnalyzeInit
    <2>2. CASE metricsFile \notin BadMetrics
      BY <2>2, MetricsFilesAssumption DEF AnalyzeInit, BadMetrics
    <2> QED
      BY <2>1, <2>2
  <1> QED
    BY <1>1 DEF AnalysisBounds, AnalyzeInit

\* A step that does not end the stage takes a cluster off the list or a model
\* off the cluster.
AnalysisLess ==
  \/ /\ cluster = Absent /\ position' = position
     /\ \E id \in pending : pending' = pending \ {id}
  \/ cluster # Absent /\ pending' = pending /\ cluster' = cluster /\ position' = position + 1
  \/ cluster # Absent /\ pending' = pending /\ cluster' = Absent /\ position' = 1

\* A step of the analysis ends it or leaves less to do.
LEMMA AnalysisSteps ==
  ASSUME AnalysisBounds, AnalyzeNext
  PROVE  \/ analyzeExit' \in {0, 1} /\ UNCHANGED <<pending, cluster, position>>
         \/ analyzeExit' = -1 /\ AnalysisLess /\ AnalysisBounds'
  <1>1. CASE RefuseInput \/ ShardMissing \/ WriteAnalysis \/ WriteAnalysisFails
    BY <1>1 DEF RefuseInput, ShardMissing, WriteAnalysis, WriteAnalysisFails, NoRun
  <1>2. CASE StartCluster
    <2>1. \E id \in pending : pending' = pending \ {id}
      BY <1>2 DEF StartCluster
    <2>2. IsFiniteSet(pending')
      BY <2>1, FS_RemoveElement DEF AnalysisBounds
    <2> QED
      BY <1>2, <2>1, <2>2 DEF StartCluster, Ready, Analyzing, AnalysisLess, AnalysisBounds
  <1>3. CASE ModelSucceeds \/ ModelRaises \/ ModelSkipped
    BY <1>3, ModelCount
    DEF ModelSucceeds, ModelRaises, ModelSkipped, ModelFails, Running, Ready, Analyzing,
        AnalysisLess, AnalysisBounds
  <1>4. CASE KeepFindings \/ GeneratorRaises
    BY <1>4 DEF KeepFindings, GeneratorRaises, FinishCluster, Ready, Analyzing, AnalysisLess,
                AnalysisBounds
  <1> QED
    BY <1>1, <1>2, <1>3, <1>4, Zenon DEF AnalyzeNext

-----------------------------------------------------------------------------
(* Lists of conclusions                                                    *)

\* A conclusion has a severity that counts, its key says what it is about, and its
\* title names the model.
Penalised == {"LOW", "MEDIUM", "HIGH", "CRITICAL"}
Fields == {"id", "model", "severity", "metric", "about", "key", "title"}
IsConclusion(q) ==
  /\ DOMAIN q = Fields
  /\ q.severity \in Penalised
  /\ q.about = IF q.model = "correlation" THEN {q.key[1], q.key[2]} ELSE {q.key}
  /\ q.title = <<q.model, q.title[2], q.title[3]>>
IsList(s) == s \in Seq(Range(s)) /\ \A i \in DOMAIN s : IsConclusion(s[i])

\* Every severity a finding can have is ranked.
LEMMA Ranks ==
  /\ DOMAIN SeverityRank = {"HEALTHY", "INFO", "LOW", "MEDIUM", "HIGH", "CRITICAL"}
  /\ \A severity \in DOMAIN SeverityRank : SeverityRank[severity] \in 0..4
  /\ Penalised \subseteq DOMAIN SeverityRank
  BY DEF SeverityRank, Penalised

\* What Conclusion makes is a conclusion.
LEMMA ConclusionMade ==
  ASSUME NEW model, NEW severity \in Penalised, NEW metric, NEW detail,
         model # "correlation"
  PROVE  IsConclusion(Conclusion(model, severity, metric, detail))
  BY DEF IsConclusion, Conclusion, Fields

\* Lists joined are a list of everything in them.
LEMMA ListsJoined ==
  ASSUME NEW s, NEW t, IsList(s), IsList(t)
  PROVE  IsList(s \o t)
  <1>1. s \in Seq(Range(s)) /\ t \in Seq(Range(t))
    BY DEF IsList
  <1>2. s \o t \in Seq(Range(s \o t)) /\ Range(s \o t) = Range(s) \cup Range(t)
    BY <1>1, EntriesJoined
  <1>3. \A q \in Range(s) \cup Range(t) : IsConclusion(q)
    BY DEF IsList, Range
  <1> DEFINE joined == s \o t
  <1> HIDE DEF joined
  <1>4. \A i \in DOMAIN joined : joined[i] \in Range(joined)
    BY DEF Range
  <1>5. IsList(joined)
    BY <1>2, <1>3, <1>4 DEF IsList, joined
  <1> QED
    BY <1>5 DEF joined

\* A model without a result contributes an empty list.
LEMMA EmptyList == IsList(<<>>)
  BY DEF IsList

\* One conclusion is a list.
LEMMA OneConclusion ==
  ASSUME NEW q, IsConclusion(q)
  PROVE  IsList(<<q>>)
  BY DEF IsList, Range

\* What SetToSeq lists is a list of conclusions if each of its entries is one.
LEMMA ListMade ==
  ASSUME NEW S, IsFiniteSet(S), NEW s,
         s = [i \in DOMAIN SetToSeq(S) |-> s[i]],
         \A i \in DOMAIN SetToSeq(S) : SetToSeq(S)[i] \in S => IsConclusion(s[i])
  PROVE  IsList(s)
  <1>1. /\ DOMAIN SetToSeq(S) = 1..Cardinality(S) /\ Cardinality(S) \in Nat
        /\ \A i \in DOMAIN SetToSeq(S) : SetToSeq(S)[i] \in S
    BY SetListed
  <1>2. s \in Seq(Range(s)) /\ DOMAIN s = 1..Cardinality(S)
    BY <1>1, IsSequence
  <1> QED
    BY <1>1, <1>2 DEF IsList

\* The findings of each model are a list of conclusions: of percentiles,
LEMMA PercentileList ==
  ASSUME NEW result, IsFiniteSet(DOMAIN result)
  PROVE  IsList(PercentileFindings(result))
  <1> DEFINE Severity(k) == ClassifyValue(k[1], result[k].p95)
             reported == {k \in DOMAIN result : /\ result[k].status = "ok"
                                                /\ Severity(k) \notin {"HEALTHY", "LOW"}}
             list == PercentileFindings(result)
  <1>1. IsFiniteSet(reported)
    BY FS_Subset
  <1>2. \A k \in reported : IsConclusion(Conclusion("percentile", Severity(k), k[1], Severity(k)))
    <2> TAKE k \in reported
    <2>1. Severity(k) \in Penalised
      BY DEF ClassifyValue, Penalised
    <2> HIDE DEF Severity
    <2> QED
      BY <2>1, ConclusionMade
  <1>3. list = [i \in DOMAIN SetToSeq(reported) |->
                  LET k == SetToSeq(reported)[i]
                  IN Conclusion("percentile", Severity(k), k[1], Severity(k))]
    BY DEF PercentileFindings, Listed
  <1> HIDE DEF list, reported, Severity
  <1>4. \A i \in DOMAIN SetToSeq(reported) :
          SetToSeq(reported)[i] \in reported => IsConclusion(list[i])
    BY <1>2, <1>3
  <1>5. list = [i \in DOMAIN SetToSeq(reported) |-> list[i]]
    BY <1>3
  <1>6. IsList(list)
    BY <1>1, <1>4, <1>5, ListMade
  <1> QED
    BY <1>6 DEF list

\* of trends,
LEMMA TrendList ==
  ASSUME NEW result, IsFiniteSet(DOMAIN result)
  PROVE  IsList(TrendFindings(result))
  <1> DEFINE reported == {m \in DOMAIN result : result[m].status = "ok" /\ result[m].is_finding}
             list == TrendFindings(result)
             Made(m) == Conclusion("trend", TrendSeverity(m, result[m].line), m, result[m].direction)
  <1>1. IsFiniteSet(reported)
    BY FS_Subset
  <1>2. \A m : IsConclusion(Made(m))
    <2> TAKE m
    <2>1. TrendSeverity(m, result[m].line) \in Penalised
      BY DEF TrendSeverity, Penalised
    <2> QED
      BY <2>1, ConclusionMade
  <1>3. list = [i \in DOMAIN SetToSeq(reported) |-> Made(SetToSeq(reported)[i])]
    BY DEF TrendFindings, Listed
  <1> HIDE DEF list, reported, Made
  <1>4. \A i \in DOMAIN SetToSeq(reported) : IsConclusion(list[i])
    BY <1>2, <1>3
  <1>5. list = [i \in DOMAIN SetToSeq(reported) |-> list[i]]
    BY <1>3
  <1>6. IsList(list)
    BY <1>1, <1>4, <1>5, ListMade
  <1> QED
    BY <1>6 DEF list

\* of breaches,
LEMMA BreachList ==
  ASSUME NEW series, NEW c
  PROVE  IsList(BreachFindings(BreachModel(series, c)))
  <1> DEFINE result == BreachModel(series, c)
             reported == {m \in DOMAIN result :
                            SeverityRank[result[m].severity] >= SeverityRank["MEDIUM"]}
             list == BreachFindings(result)
             Made(m) == Conclusion("breach", result[m].severity, m, "breach")
  <1>1. DOMAIN result \subseteq BreachMetrics
    BY DEF BreachModel
  <1>2. IsFiniteSet(reported)
    <2>1. IsFiniteSet(BreachMetrics)
      <3> DEFINE names == <<"EngineCPUUtilization", "DatabaseMemoryUsagePercentage", "CacheHitRate",
                            "ReplicationLag", "BytesUsedForCachePercent", "ThrottledCmdsPerMinute">>
      <3>1. BreachMetrics = {names[i] : i \in 1..6}
        BY DEF BreachMetrics
      <3> HIDE DEF names
      <3> QED
        BY <3>1, PositionsCounted, ImageFinite
    <2>2. reported \in SUBSET BreachMetrics
      BY <1>1
    <2> QED
      BY <2>1, <2>2, FS_Subset
  <1>3. \A m \in reported : IsConclusion(Made(m))
    <2> TAKE m \in reported
    <2>1. \A points : BreachOf(m, points).severity \in Penalised \cup {"HEALTHY"}
      BY DEF BreachOf, BreachSeverity, Penalised
    <2>2. result[m] = BreachOf(m, BreachPoints(series, m))
      BY DEF BreachModel
    <2>3. SeverityRank["HEALTHY"] = 0 /\ SeverityRank["MEDIUM"] = 2
      BY DEF SeverityRank
    <2>4. SeverityRank[result[m].severity] >= SeverityRank["MEDIUM"]
      OBVIOUS
    <2> HIDE DEF result
    <2>5. result[m].severity \in Penalised
      BY <2>1, <2>2, <2>3, <2>4
    <2> QED
      BY <2>5, ConclusionMade
  <1>4. list = [i \in DOMAIN SetToSeq(reported) |-> Made(SetToSeq(reported)[i])]
    BY DEF BreachFindings, Listed
  <1> HIDE DEF list, reported, Made, result
  <1>5. \A i \in DOMAIN SetToSeq(reported) :
          SetToSeq(reported)[i] \in reported => IsConclusion(list[i])
    BY <1>3, <1>4
  <1>6. list = [i \in DOMAIN SetToSeq(reported) |-> list[i]]
    BY <1>4
  <1>7. IsList(list)
    BY <1>2, <1>5, <1>6, ListMade
  <1> QED
    BY <1>7 DEF list, result

\* of ratios,
LEMMA EfficiencyList ==
  ASSUME NEW result, IsFiniteSet(DOMAIN result)
  PROVE  IsList(EfficiencyFindings(result))
  <1> DEFINE reported == {r \in DOMAIN result : result[r] \in {"MEDIUM", "HIGH"}}
             list == EfficiencyFindings(result)
             Made(r) == Conclusion("efficiency", result[r], RatioMetric[r], r)
  <1>1. IsFiniteSet(reported)
    BY FS_Subset
  <1>2. \A r \in reported : IsConclusion(Made(r))
    BY ConclusionMade DEF Penalised
  <1>3. list = [i \in DOMAIN SetToSeq(reported) |-> Made(SetToSeq(reported)[i])]
    BY DEF EfficiencyFindings, Listed
  <1> HIDE DEF list, reported, Made
  <1>4. \A i \in DOMAIN SetToSeq(reported) :
          SetToSeq(reported)[i] \in reported => IsConclusion(list[i])
    BY <1>2, <1>3
  <1>5. list = [i \in DOMAIN SetToSeq(reported) |-> list[i]]
    BY <1>3
  <1>6. IsList(list)
    BY <1>1, <1>4, <1>5, ListMade
  <1> QED
    BY <1>6 DEF list

\* of the utilization,
LEMMA UtilizationList ==
  ASSUME NEW result
  PROVE  IsList(UtilizationFindings(result))
  <1>1. UtilizationSeverity(result.classification) \in Penalised
    BY DEF UtilizationSeverity, Penalised
  <1>2. IsConclusion(Conclusion("utilization", UtilizationSeverity(result.classification),
                                DominantMetric(result.classification), result.classification))
    BY <1>1, ConclusionMade
  <1> QED
    BY <1>2, OneConclusion, EmptyList DEF UtilizationFindings

\* of the balance of the shards,
LEMMA ShardBalanceList ==
  ASSUME NEW result
  PROVE  IsList(ShardBalanceFindings(result))
  <1>1. ImbalanceSeverity(result.classification) \in Penalised
    BY DEF ImbalanceSeverity, Penalised
  <1> QED
    BY <1>1, ConclusionMade, OneConclusion, EmptyList DEF ShardBalanceFindings

\* and of the pairs that are out of the ordinary.
LEMMA CorrelationList ==
  ASSUME NEW series, NEW c
  PROVE  IsList(CorrelationFindings(CorrelationModel(series, c)))
  <1> DEFINE result == CorrelationModel(series, c)
             reported == Picked(result, {i \in DOMAIN result : result[i].severity # "INFO"})
             list == CorrelationFindings(result)
  <1>1. \E n \in Nat : DOMAIN MetricPairs = 1..n
                       /\ \A i \in 1..n : MetricPairs[i].severity \in Penalised \cup {"INFO"}
    <2>1. DOMAIN MetricPairs = 1..7
          /\ \A i \in 1..7 : MetricPairs[i].severity \in Penalised \cup {"INFO"}
      BY DEF MetricPairs, Pair, Penalised
    <2> QED
      BY <2>1
  <1>2. \E n \in Nat : DOMAIN result = 1..n
                       /\ \A i \in 1..n : result[i].severity \in Penalised \cup {"INFO"}
    <2> DEFINE P == {i \in DOMAIN MetricPairs : Correlated(series, MetricPairs[i])}
    <2>1. PICK n \in Nat : DOMAIN MetricPairs = 1..n
                           /\ \A i \in 1..n : MetricPairs[i].severity \in Penalised \cup {"INFO"}
      BY <1>1
    <2>2. P \in SUBSET (1..n) /\ result = Picked(MetricPairs, P)
      BY <2>1 DEF CorrelationModel
    <2> HIDE DEF P, result
    <2> DEFINE from == Sorted(P)
    <2>3. /\ Cardinality(P) \in Nat /\ DOMAIN Picked(MetricPairs, P) = 1..Cardinality(P)
          /\ \A i \in 1..Cardinality(P) :
               from[i] \in P /\ Picked(MetricPairs, P)[i] = MetricPairs[from[i]]
      BY <2>2, EntriesPicked
    <2> HIDE DEF from
    <2> QED
      BY <2>1, <2>2, <2>3
  <1>3. \E n \in Nat : DOMAIN reported = 1..n
                       /\ \A i \in 1..n : reported[i].severity \in Penalised
    <2> DEFINE P == {i \in DOMAIN result : result[i].severity # "INFO"}
    <2>1. PICK n \in Nat : DOMAIN result = 1..n
                           /\ \A i \in 1..n : result[i].severity \in Penalised \cup {"INFO"}
      BY <1>2
    <2>2. /\ P \in SUBSET (1..n) /\ reported = Picked(result, P)
          /\ \A i \in P : result[i].severity # "INFO"
      BY <2>1
    <2> HIDE DEF P, result, reported
    <2> DEFINE from == Sorted(P)
    <2>3. /\ Cardinality(P) \in Nat /\ DOMAIN Picked(result, P) = 1..Cardinality(P)
          /\ \A i \in 1..Cardinality(P) :
               from[i] \in P /\ Picked(result, P)[i] = result[from[i]]
      BY <2>2, EntriesPicked
    <2> HIDE DEF from
    <2>4. \A i \in P : result[i].severity \in Penalised
      BY <2>1, <2>2
    <2> QED
      BY <2>2, <2>3, <2>4
  <1>4. list = [i \in DOMAIN reported |->
                  [Conclusion("correlation", reported[i].severity, reported[i].a, reported[i].b)
                     EXCEPT !.key = <<reported[i].a, reported[i].b>>,
                            !.about = {reported[i].a, reported[i].b}]]
    BY DEF CorrelationFindings
  <1> HIDE DEF list, reported, result
  <1>5. \A severity \in Penalised : \A a, b :
          IsConclusion([Conclusion("correlation", severity, a, b)
                          EXCEPT !.key = <<a, b>>, !.about = {a, b}])
    BY DEF IsConclusion, Conclusion, Fields
  <1>6. \A i \in DOMAIN list : IsConclusion(list[i])
    BY <1>3, <1>4, <1>5
  <1>7. list \in Seq(Range(list))
    <2>1. PICK n \in Nat : DOMAIN reported = 1..n
      BY <1>3
    <2>2. list = [i \in 1..n |-> list[i]]
      BY <1>4, <2>1
    <2> QED
      BY <2>1, <2>2, IsSequence
  <1>8. IsList(list)
    BY <1>6, <1>7 DEF IsList
  <1> QED
    BY <1>8 DEF list, result

-----------------------------------------------------------------------------
(* The metrics of a cluster                                                *)

\* Series merged have finitely many keys,
LEMMA MergedKeys ==
  ASSUME NEW f, NEW g, IsFiniteSet(DOMAIN f), IsFiniteSet(DOMAIN g)
  PROVE  IsFiniteSet(DOMAIN Merge(f, g))
  <1>1. DOMAIN Merge(f, g) = DOMAIN f \cup DOMAIN g
    BY DEF Merge
  <1> QED
    BY <1>1, FS_Union

KeysFrom(node, from, stats, to) == {<<to, s>> : s \in {s \in stats : HasSeries(node, from, s)}}

\* series derived have,
LEMMA DerivedKeys ==
  ASSUME NEW node, NEW from, NEW stats \in SUBSET Stats, NEW to
  PROVE  IsFiniteSet(KeysFrom(node, from, stats, to))
  <1> DEFINE names == <<"Average", "Maximum", "Sum">>
  <1>1. Stats = {names[i] : i \in 1..3}
    BY DEF Stats
  <1>2. IsFiniteSet(Stats)
    <2> HIDE DEF names
    <2> QED
      BY <1>1, PositionsCounted, ImageFinite
  <1>3. IsFiniteSet({to} \X Stats)
    BY <1>2, FS_Singleton, FS_Product
  <1>4. KeysFrom(node, from, stats, to) \in SUBSET ({to} \X Stats)
    BY DEF KeysFrom
  <1> QED
    BY <1>3, <1>4, FS_Subset

\* Normalisation keeps finitely many series per node.
LEMMA NodeKeys ==
  ASSUME NEW raw, NEW c, NEW serverless, IsFiniteSet(DOMAIN raw.series),
         raw = [id |-> raw.id, series |-> raw.series, measuredAt |-> raw.measuredAt]
  PROVE  IsFiniteSet(DOMAIN NormalizeNode(raw, c, serverless).series)
  <1> DEFINE node == DropUndefinedHitRate(raw)
             storage == StoragePercentSeries(node, c)
             ecpu == EcpuPercentSeries(node, c)
             minute == PerMinuteSeries(node)
  <1>1. DOMAIN node.series \in SUBSET DOMAIN raw.series /\ "series" \in DOMAIN node
    BY DEF DropUndefinedHitRate
  <1>2. IsFiniteSet(DOMAIN node.series)
    BY <1>1, FS_Subset
  <1> HIDE DEF node
  <1>3. {"Sum"} \in SUBSET Stats
    BY DEF Stats
  <1>4. \A from, to : IsFiniteSet(KeysFrom(node, from, {"Sum"}, to))
    BY <1>3, DerivedKeys
  <1>5. IsFiniteSet(DOMAIN minute)
    <2> DEFINE a == Derive(node, "Evictions", {"Sum"}, "EvictionsPerMinute", PerMinute)
               b == Derive(node, "NewConnections", {"Sum"}, "NewConnectionsPerMinute", PerMinute)
               d == Derive(node, "ThrottledCmds", {"Sum"}, "ThrottledCmdsPerMinute", PerMinute)
    <2>1. DOMAIN a = KeysFrom(node, "Evictions", {"Sum"}, "EvictionsPerMinute")
      BY DEF Derive, KeysFrom
    <2>2. DOMAIN b = KeysFrom(node, "NewConnections", {"Sum"}, "NewConnectionsPerMinute")
      BY DEF Derive, KeysFrom
    <2>3. DOMAIN d = KeysFrom(node, "ThrottledCmds", {"Sum"}, "ThrottledCmdsPerMinute")
      BY DEF Derive, KeysFrom
    <2>4. minute = Merge(a, Merge(b, d))
      BY DEF PerMinuteSeries
    <2> HIDE DEF a, b, d, minute
    <2> QED
      BY <1>4, <2>1, <2>2, <2>3, <2>4, MergedKeys
  <1>6. IsFiniteSet(DOMAIN storage)
    <2> DEFINE stats == IF c = Absent THEN {}
                        ELSE IF StorageMaximum(c) \in {Absent, 0} THEN {} ELSE Stats
    <2>1. stats \in SUBSET Stats
      OBVIOUS
    <2>2. DOMAIN storage
            = KeysFrom(node, "BytesUsedForCache", stats, "BytesUsedForCachePercent")
      BY DEF StoragePercentSeries, Derive, KeysFrom
    <2> HIDE DEF stats, storage
    <2> QED
      BY <2>1, <2>2, DerivedKeys
  <1>7. IsFiniteSet(DOMAIN ecpu)
    <2> DEFINE stats == IF c = Absent THEN {}
                        ELSE IF EcpuMaximum(c) = Absent THEN {} ELSE {"Sum"}
    <2>1. stats \in SUBSET Stats
      BY <1>3
    <2>2. DOMAIN ecpu
            = KeysFrom(node, "ElastiCacheProcessingUnits", stats, "ECPUUtilizationPercent")
      BY DEF EcpuPercentSeries, Derive, KeysFrom
    <2> HIDE DEF stats, ecpu
    <2> QED
      BY <2>1, <2>2, DerivedKeys
  <1> DEFINE derived == Merge(minute, storage)
             all == IF serverless THEN Merge(derived, ecpu) ELSE derived
  <1>8. NormalizeNode(raw, c, serverless).series = Merge(node.series, all)
    <2>1. NormalizeNode(raw, c, serverless) = [node EXCEPT !.series = Merge(node.series, all)]
      BY DEF NormalizeNode, node
    <2> HIDE DEF all
    <2> QED
      BY <1>1, <2>1
  <1> HIDE DEF minute, storage, ecpu
  <1>9. IsFiniteSet(DOMAIN derived)
    BY <1>5, <1>6, MergedKeys
  <1> HIDE DEF derived
  <1>10. IsFiniteSet(DOMAIN all)
    BY <1>7, <1>9, MergedKeys
  <1> HIDE DEF all
  <1> QED
    BY <1>2, <1>8, <1>10, MergedKeys

\* and so has a cluster after its normalisation.
LEMMA ClusterKeys ==
  ASSUME NEW raw, IsStored(raw), NEW c
  PROVE  IsFiniteSet(StoredKeys(Normalize(raw, c)))
  <1> DEFINE data0 == Normalize(raw, c)
             keysOf == [i \in DOMAIN raw.nodes |-> DOMAIN data0.nodes[i].series]
             n == Len(raw.nodes)
  <1>1. DOMAIN raw.nodes = 1..n /\ n \in Nat
    BY DEF IsStored
  <1>2. data0.nodes = [i \in DOMAIN raw.nodes |-> NormalizeNode(raw.nodes[i], c, raw.serverless)]
    BY DEF Normalize, IsStored
  <1>3. \A i \in 1..n : IsFiniteSet(keysOf[i])
    <2> TAKE i \in 1..n
    <2>1. /\ IsFiniteSet(DOMAIN raw.nodes[i].series)
          /\ raw.nodes[i] = [id |-> raw.nodes[i].id, series |-> raw.nodes[i].series,
                           measuredAt |-> raw.nodes[i].measuredAt]
      BY <1>1 DEF IsStored
    <2>2. IsFiniteSet(DOMAIN NormalizeNode(raw.nodes[i], c, raw.serverless).series)
      BY <2>1, NodeKeys
    <2>3. keysOf[i] = DOMAIN NormalizeNode(raw.nodes[i], c, raw.serverless).series
      BY <1>1, <1>2
    <2> QED
      BY <2>2, <2>3
  <1>4. StoredKeys(data0) = UNION {keysOf[i] : i \in 1..n}
    BY <1>1, <1>2 DEF StoredKeys
  <1> HIDE DEF keysOf, data0, n
  <1>5. IsFiniteSet({keysOf[i] : i \in 1..n})
    BY <1>1, PositionsCounted, ImageFinite
  <1>6. IsFiniteSet(UNION {keysOf[i] : i \in 1..n})
    BY <1>3, <1>5, FS_UNION
  <1> QED
    BY <1>4, <1>6 DEF data0

-----------------------------------------------------------------------------
(* The series of a cluster                                                 *)

SeriesIn(f) == \A k \in DOMAIN f : f[k] \in Seq(Range(f[k]))
\* Series that are there under names of their own.
NewSeries(f) == SeriesIn(f) /\ \A k \in DOMAIN f : k[1] \in DerivedMetrics

\* Series merged are still series,
LEMMA MergedSeries ==
  ASSUME NEW f, NEW g, SeriesIn(f), SeriesIn(g)
  PROVE  /\ SeriesIn(Merge(f, g)) /\ DOMAIN Merge(f, g) = DOMAIN f \cup DOMAIN g
         /\ \A k \in DOMAIN f : k \notin DOMAIN g => Merge(f, g)[k] = f[k]
  BY DEF Merge, SeriesIn

LEMMA MergedNew ==
  ASSUME NEW f, NEW g, NewSeries(f), NewSeries(g)
  PROVE  NewSeries(Merge(f, g))
  <1>1. SeriesIn(Merge(f, g)) /\ DOMAIN Merge(f, g) = DOMAIN f \cup DOMAIN g
    BY MergedSeries DEF NewSeries
  <1> QED
    BY <1>1 DEF NewSeries

\* and so is one derived value by value.
DerivedFrom(f, node, to) ==
  \A k \in DOMAIN f : /\ k[1] = to
                      /\ \E from \in DOMAIN node.series :
                           f[k] = [i \in DOMAIN node.series[from] |-> f[k][i]]
LEMMA DerivedNew ==
  ASSUME NEW node, SeriesIn(node.series), NEW to \in DerivedMetrics, NEW f, DerivedFrom(f, node, to)
  PROVE  NewSeries(f)
  <1>1. ASSUME NEW k \in DOMAIN f
        PROVE  f[k] \in Seq(Range(f[k])) /\ k[1] \in DerivedMetrics
    <2>1. PICK from \in DOMAIN node.series : f[k] = [i \in DOMAIN node.series[from] |-> f[k][i]]
      BY DEF DerivedFrom
    <2> DEFINE s == node.series[from]
               d == f[k]
    <2>2. s \in Seq(Range(s))
      BY DEF SeriesIn
    <2>3. d = [i \in DOMAIN s |-> d[i]]
      BY <2>1
    <2> HIDE DEF s, d
    <2>4. DOMAIN s = 1..Len(s) /\ Len(s) \in Nat
      BY <2>2
    <2>5. d \in Seq(Range(d))
      BY <2>3, <2>4, IsSequence
    <2> QED
      BY <2>5 DEF d, DerivedFrom
  <1> QED
    BY <1>1 DEF NewSeries, SeriesIn

LEMMA DerivedShape ==
  ASSUME NEW node, NEW from, NEW stats, NEW to, NEW f,
         DOMAIN f = KeysFrom(node, from, stats, to),
         \A k \in DOMAIN f :
           f[k] = [i \in DOMAIN node.series[<<from, k[2]>>] |-> f[k][i]]
  PROVE  DerivedFrom(f, node, to)
  <1>1. ASSUME NEW k \in DOMAIN f
        PROVE  k[1] = to /\ <<from, k[2]>> \in DOMAIN node.series
    <2>1. PICK s \in stats : k = <<to, s>> /\ HasSeries(node, from, s)
      BY DEF KeysFrom
    <2> QED
      BY <2>1 DEF HasSeries
  <1> QED
    BY <1>1, Zenon DEF DerivedFrom

\* Normalisation drops hit rates and adds metrics of its own.
LEMMA NodeKeepsSeries ==
  ASSUME NEW raw, NEW c, NEW serverless, SeriesIn(raw.series),
         raw = [id |-> raw.id, series |-> raw.series, measuredAt |-> raw.measuredAt]
  PROVE  LET series == NormalizeNode(raw, c, serverless).series
         IN /\ SeriesIn(series)
            /\ \A k : k[1] \notin DerivedMetrics \cup {"CacheHitRate"} =>
                 /\ k \in DOMAIN series <=> k \in DOMAIN raw.series
                 /\ k \in DOMAIN raw.series => series[k] = raw.series[k]
  <1> DEFINE node == DropUndefinedHitRate(raw)
             storage == StoragePercentSeries(node, c)
             ecpu == EcpuPercentSeries(node, c)
             minute == PerMinuteSeries(node)
  <1>1. /\ "series" \in DOMAIN node /\ SeriesIn(node.series)
        /\ \A k : k[1] # "CacheHitRate" =>
             /\ k \in DOMAIN node.series <=> k \in DOMAIN raw.series
             /\ k \in DOMAIN raw.series => node.series[k] = raw.series[k]
    <2> DEFINE without == [k \in {k \in DOMAIN raw.series : k[1] # "CacheHitRate"} |-> raw.series[k]]
    <2>1. node = raw \/ (node.series = without /\ "series" \in DOMAIN node)
      BY DEF DropUndefinedHitRate
    <2>2. "series" \in DOMAIN raw
      OBVIOUS
    <2>3. SeriesIn(without)
      BY DEF SeriesIn
    <2>4. \A k : k[1] # "CacheHitRate" =>
             /\ k \in DOMAIN without <=> k \in DOMAIN raw.series
             /\ k \in DOMAIN raw.series => without[k] = raw.series[k]
      OBVIOUS
    <2> HIDE DEF without, node
    <2> QED
      BY <2>1, <2>2, <2>3, <2>4
  <1> HIDE DEF node
  <1>2. NewSeries(minute)
    <2> DEFINE a == Derive(node, "Evictions", {"Sum"}, "EvictionsPerMinute", PerMinute)
               b == Derive(node, "NewConnections", {"Sum"}, "NewConnectionsPerMinute", PerMinute)
               d == Derive(node, "ThrottledCmds", {"Sum"}, "ThrottledCmdsPerMinute", PerMinute)
    <2>1. DerivedFrom(a, node, "EvictionsPerMinute")
      <3>1. DOMAIN a = KeysFrom(node, "Evictions", {"Sum"}, "EvictionsPerMinute")
        BY DEF Derive, KeysFrom
      <3>2. \A k \in DOMAIN a :
              a[k] = [i \in DOMAIN node.series[<<"Evictions", k[2]>>] |-> a[k][i]]
        BY DEF Derive, MapSeries
      <3> HIDE DEF a
      <3> QED
        BY <3>1, <3>2, DerivedShape
    <2>2. DerivedFrom(b, node, "NewConnectionsPerMinute")
      <3>1. DOMAIN b = KeysFrom(node, "NewConnections", {"Sum"}, "NewConnectionsPerMinute")
        BY DEF Derive, KeysFrom
      <3>2. \A k \in DOMAIN b :
              b[k] = [i \in DOMAIN node.series[<<"NewConnections", k[2]>>] |-> b[k][i]]
        BY DEF Derive, MapSeries
      <3> HIDE DEF b
      <3> QED
        BY <3>1, <3>2, DerivedShape
    <2>3. DerivedFrom(d, node, "ThrottledCmdsPerMinute")
      <3>1. DOMAIN d = KeysFrom(node, "ThrottledCmds", {"Sum"}, "ThrottledCmdsPerMinute")
        BY DEF Derive, KeysFrom
      <3>2. \A k \in DOMAIN d :
              d[k] = [i \in DOMAIN node.series[<<"ThrottledCmds", k[2]>>] |-> d[k][i]]
        BY DEF Derive, MapSeries
      <3> HIDE DEF d
      <3> QED
        BY <3>1, <3>2, DerivedShape
    <2>4. minute = Merge(a, Merge(b, d))
      BY DEF PerMinuteSeries
    <2> HIDE DEF a, b, d, minute
    <2>5. NewSeries(a) /\ NewSeries(b) /\ NewSeries(d)
      BY <1>1, <2>1, <2>2, <2>3, DerivedNew DEF DerivedMetrics
    <2> QED
      BY <2>4, <2>5, MergedNew
  <1>3. NewSeries(storage)
    <2>1. DerivedFrom(storage, node, "BytesUsedForCachePercent")
      <3> DEFINE stats == IF c = Absent THEN {}
                          ELSE IF StorageMaximum(c) \in {Absent, 0} THEN {} ELSE Stats
      <3>1. DOMAIN storage = KeysFrom(node, "BytesUsedForCache", stats, "BytesUsedForCachePercent")
        BY DEF StoragePercentSeries, Derive, KeysFrom
      <3>2. \A k \in DOMAIN storage :
              storage[k] = [i \in DOMAIN node.series[<<"BytesUsedForCache", k[2]>>] |-> storage[k][i]]
        BY DEF StoragePercentSeries, Derive, MapSeries
      <3> HIDE DEF storage, stats
      <3> QED
        BY <3>1, <3>2, DerivedShape
    <2> HIDE DEF storage
    <2> QED
      BY <1>1, <2>1, DerivedNew DEF DerivedMetrics
  <1>4. NewSeries(ecpu)
    <2>1. DerivedFrom(ecpu, node, "ECPUUtilizationPercent")
      <3> DEFINE stats == IF c = Absent THEN {}
                          ELSE IF EcpuMaximum(c) = Absent THEN {} ELSE {"Sum"}
      <3>1. DOMAIN ecpu = KeysFrom(node, "ElastiCacheProcessingUnits", stats, "ECPUUtilizationPercent")
        BY DEF EcpuPercentSeries, Derive, KeysFrom
      <3>2. \A k \in DOMAIN ecpu :
              ecpu[k] = [i \in DOMAIN node.series[<<"ElastiCacheProcessingUnits", k[2]>>] |-> ecpu[k][i]]
        BY DEF EcpuPercentSeries, Derive, MapSeries
      <3> HIDE DEF ecpu, stats
      <3> QED
        BY <3>1, <3>2, DerivedShape
    <2> HIDE DEF ecpu
    <2> QED
      BY <1>1, <2>1, DerivedNew DEF DerivedMetrics
  <1> DEFINE derived == Merge(minute, storage)
             all == IF serverless THEN Merge(derived, ecpu) ELSE derived
  <1>5. NormalizeNode(raw, c, serverless).series = Merge(node.series, all)
    <2>1. NormalizeNode(raw, c, serverless) = [node EXCEPT !.series = Merge(node.series, all)]
      BY DEF NormalizeNode, node
    <2> HIDE DEF all
    <2> QED
      BY <1>1, <2>1
  <1> HIDE DEF minute, storage, ecpu
  <1>6. NewSeries(derived)
    BY <1>2, <1>3, MergedNew
  <1> HIDE DEF derived
  <1>7. NewSeries(all)
    BY <1>4, <1>6, MergedNew
  <1> HIDE DEF all
  <1> DEFINE series == Merge(node.series, all)
  <1>8. /\ SeriesIn(series) /\ DOMAIN series = DOMAIN node.series \cup DOMAIN all
        /\ \A k \in DOMAIN node.series : k \notin DOMAIN all => series[k] = node.series[k]
    BY <1>1, <1>7, MergedSeries DEF NewSeries
  <1> HIDE DEF series
  <1>9. \A k : k[1] \notin DerivedMetrics => k \notin DOMAIN all
    BY <1>7 DEF NewSeries
  <1>10. /\ SeriesIn(series)
         /\ \A k : k[1] \notin DerivedMetrics \cup {"CacheHitRate"} =>
              /\ k \in DOMAIN series <=> k \in DOMAIN raw.series
              /\ k \in DOMAIN raw.series => series[k] = raw.series[k]
    BY <1>1, <1>8, <1>9
  <1> QED
    BY <1>5, <1>10 DEF series

\* A stored cluster has series,
LEMMA StoredSeries ==
  ASSUME NEW raw, IsStored(raw)
  PROVE  \A i \in DOMAIN raw.nodes :
           /\ SeriesIn(raw.nodes[i].series)
           /\ raw.nodes[i] = [id |-> raw.nodes[i].id, series |-> raw.nodes[i].series,
                           measuredAt |-> raw.nodes[i].measuredAt]
  <1> TAKE i \in DOMAIN raw.nodes
  <1>1. \A key \in DOMAIN raw.nodes[i].series : raw.nodes[i].series[key] \in Seq(Int \cup {Absent})
    BY DEF IsStored
  <1>2. SeriesIn(raw.nodes[i].series)
    BY <1>1, OwnEntries DEF SeriesIn
  <1> QED
    BY <1>2 DEF IsStored

\* and they are still series once normalised.
LEMMA ClusterSeries ==
  ASSUME NEW raw, IsStored(raw), NEW c
  PROVE  LET normalized == Normalize(raw, c)
         IN /\ Len(raw.nodes) \in Nat /\ DOMAIN raw.nodes = 1..Len(raw.nodes)
            /\ normalized.nodes = [i \in 1..Len(raw.nodes) |-> normalized.nodes[i]]
            /\ \A i \in 1..Len(raw.nodes) :
                 /\ SeriesIn(normalized.nodes[i].series)
                 /\ \A k : k[1] \notin DerivedMetrics \cup {"CacheHitRate"} =>
                      /\ k \in DOMAIN normalized.nodes[i].series
                           <=> k \in DOMAIN raw.nodes[i].series
                      /\ k \in DOMAIN raw.nodes[i].series =>
                           normalized.nodes[i].series[k] = raw.nodes[i].series[k]
            /\ normalized.serverless = raw.serverless /\ normalized.timestamps = raw.timestamps
  <1> DEFINE normalized == Normalize(raw, c)
             n == Len(raw.nodes)
  <1>1. DOMAIN raw.nodes = 1..n /\ n \in Nat
    BY DEF IsStored
  <1>2. /\ normalized.nodes = [i \in DOMAIN raw.nodes |->
                                 NormalizeNode(raw.nodes[i], c, raw.serverless)]
        /\ normalized.serverless = raw.serverless /\ normalized.timestamps = raw.timestamps
    BY DEF Normalize, IsStored
  <1> HIDE DEF normalized
  <1>3. ASSUME NEW i \in 1..n
        PROVE  /\ SeriesIn(normalized.nodes[i].series)
               /\ \A k : k[1] \notin DerivedMetrics \cup {"CacheHitRate"} =>
                      /\ k \in DOMAIN normalized.nodes[i].series
                           <=> k \in DOMAIN raw.nodes[i].series
                      /\ k \in DOMAIN raw.nodes[i].series =>
                           normalized.nodes[i].series[k] = raw.nodes[i].series[k]
    <2> DEFINE node == raw.nodes[i]
    <2>1. SeriesIn(node.series) /\ node = [id |-> node.id, series |-> node.series, measuredAt |-> node.measuredAt]
      BY <1>1, StoredSeries
    <2>2. normalized.nodes[i] = NormalizeNode(node, c, raw.serverless)
      BY <1>1, <1>2
    <2> HIDE DEF node
    <2> QED
      BY <2>1, <2>2, NodeKeepsSeries DEF node
  <1>4. normalized.nodes = [i \in 1..n |-> normalized.nodes[i]]
    BY <1>1, <1>2
  <1> QED
    BY <1>1, <1>2, <1>3, <1>4 DEF normalized

-----------------------------------------------------------------------------
(* From the results of the models to the findings that are kept            *)

\* Whatever the models measured, the generator lists conclusions.
LEMMA ConclusionsListed ==
  ASSUME NEW out, NEW series, NEW c, IsFiniteSet(StoredKeys(series)),
         \A m \in ModelNames :
           out[m] = Absent \/ m = "workload" \/ out[m] = ResultOf(m, series, c)
  PROVE  IsList(Conclusions(out))
  <1> DEFINE From(model, Findings(_)) ==
               IF out[model] = Absent THEN <<>> ELSE Findings(out[model])
  <1>1. \A m \in {"percentile", "trend", "utilization", "breach", "efficiency", "shard_balance",
                  "correlation"} :
          out[m] = Absent \/ out[m] = ResultOf(m, series, c)
    BY DEF ModelNames, Range, Models
  <1>2. IsList(From("percentile", PercentileFindings))
    <2>1. DOMAIN PercentileModel(series, c) = StoredKeys(series)
      BY DEF PercentileModel
    <2>2. ResultOf("percentile", series, c) = PercentileModel(series, c)
      BY DEF ResultOf
    <2> QED
      BY <1>1, <2>1, <2>2, PercentileList, EmptyList
  <1>3. IsList(From("trend", TrendFindings))
    <2>1. IsFiniteSet(Trendable)
      <3> DEFINE names == <<"DatabaseMemoryUsagePercentage", "BytesUsedForCache", "CurrItems",
                            "CurrConnections", "Evictions", "CacheHitRate", "ReplicationLag">>
      <3>1. Trendable = {names[i] : i \in 1..7}
        BY DEF Trendable
      <3> HIDE DEF names
      <3> QED
        BY <3>1, PositionsCounted, ImageFinite
    <2>2. DOMAIN TrendModel(series, c) = Trendable
      BY DEF TrendModel
    <2>3. ResultOf("trend", series, c) = TrendModel(series, c)
      BY DEF ResultOf
    <2> QED
      BY <1>1, <2>1, <2>2, <2>3, TrendList, EmptyList
  <1>4. IsList(From("utilization", UtilizationFindings))
    BY UtilizationList, EmptyList
  <1>5. IsList(From("breach", BreachFindings))
    <2>1. ResultOf("breach", series, c) = BreachModel(series, c)
      BY DEF ResultOf
    <2> QED
      BY <1>1, <2>1, BreachList, EmptyList
  <1>6. IsList(From("efficiency", EfficiencyFindings))
    <2> DEFINE names == <<"hit_rate", "ttl_coverage", "eviction_pressure", "connection_utilization",
                          "network_burst_risk", "write_amplification", "read_write_ratio">>
    <2>1. DOMAIN EfficiencyModel(series, c) = {names[i] : i \in 1..7}
      BY DEF EfficiencyModel
    <2>2. IsFiniteSet({names[i] : i \in 1..7})
      <3> HIDE DEF names
      <3> QED
        BY PositionsCounted, ImageFinite
    <2>3. ResultOf("efficiency", series, c) = EfficiencyModel(series, c)
      BY DEF ResultOf
    <2> HIDE DEF names
    <2> QED
      BY <1>1, <2>1, <2>2, <2>3, EfficiencyList, EmptyList
  <1>7. IsList(From("shard_balance", ShardBalanceFindings))
    BY ShardBalanceList, EmptyList
  <1>8. IsList(From("correlation", CorrelationFindings))
    <2>1. ResultOf("correlation", series, c) = CorrelationModel(series, c)
      BY DEF ResultOf
    <2> QED
      BY <1>1, <2>1, CorrelationList, EmptyList
  <1> DEFINE l1 == From("percentile", PercentileFindings)
             l2 == From("trend", TrendFindings)
             l3 == From("utilization", UtilizationFindings)
             l4 == From("breach", BreachFindings)
             l5 == From("efficiency", EfficiencyFindings)
             l6 == From("shard_balance", ShardBalanceFindings)
             l7 == From("correlation", CorrelationFindings)
  <1>9. Conclusions(out) = l1 \o l2 \o l3 \o l4 \o l5 \o l6 \o l7
    BY DEF Conclusions
  <1>10. /\ IsList(l1) /\ IsList(l2) /\ IsList(l3) /\ IsList(l4) /\ IsList(l5) /\ IsList(l6)
         /\ IsList(l7)
    BY <1>2, <1>3, <1>4, <1>5, <1>6, <1>7, <1>8
  <1> HIDE DEF l1, l2, l3, l4, l5, l6, l7
  <1> QED
    BY <1>9, <1>10, ListsJoined

Rank(f) == SeverityRank[f.severity]
Ranked(s, n) == DOMAIN s = 1..n /\ \A i \in 1..n : IsConclusion(s[i])
IdsDiffer(s, n) == \A i, j \in 1..n : s[i].id = s[j].id => i = j

\* Deduplication keeps of every group one finding, and none is more severe.
LEMMA OnePerGroup ==
  ASSUME NEW n \in Nat, NEW F, Ranked(F, n)
  PROVE  \E count \in Nat :
           /\ Ranked(Deduplicate(F), count)
           /\ \A i \in 1..n : \E k \in 1..count :
                SameGroup(Deduplicate(F)[k], F[i]) /\ Rank(Deduplicate(F)[k]) >= Rank(F[i])
           /\ \A k, l \in 1..count :
                SameGroup(Deduplicate(F)[k], Deduplicate(F)[l]) => k = l
           /\ IdsDiffer(F, n) => IdsDiffer(Deduplicate(F), count)
  <1> DEFINE P == {i \in DOMAIN F : \A j \in DOMAIN F :
                     SameGroup(F[i], F[j]) /\ i # j => Supersedes(F[i], i, F[j], j)}
             D == Deduplicate(F)
  <1>1. \A i \in 1..n : Rank(F[i]) \in 0..4
    BY Ranks DEF Ranked, IsConclusion, Rank
  <1>2. P \in SUBSET (1..n) /\ D = Picked(F, P)
    BY DEF Ranked, Deduplicate
  <1>3. \A i \in P, j \in 1..n :
          SameGroup(F[i], F[j]) /\ i # j =>
            Rank(F[i]) > Rank(F[j]) \/ (Rank(F[i]) = Rank(F[j]) /\ i < j)
    BY DEF Ranked, Supersedes, Rank
  <1>4. \A i \in 1..n :
          (\A j \in 1..n : SameGroup(F[i], F[j]) /\ i # j =>
             Rank(F[i]) > Rank(F[j]) \/ (Rank(F[i]) = Rank(F[j]) /\ i < j)) => i \in P
    BY DEF Ranked, Supersedes, Rank
  <1> HIDE DEF P, D
  <1>5. \A i \in 1..n : \E k \in P : SameGroup(F[k], F[i]) /\ Rank(F[k]) >= Rank(F[i])
    <2> TAKE i \in 1..n
    <2> DEFINE group == {j \in 1..n : SameGroup(F[j], F[i])}
               gaps == {4 - Rank(F[j]) : j \in group}
    <2>1. i \in group /\ \A j \in group : j \in 1..n
      BY DEF SameGroup
    <2>2. gaps \in SUBSET Nat /\ gaps # {}
      <3>1. \A j \in group : 4 - Rank(F[j]) \in Nat
        BY <1>1, <2>1
      <3> HIDE DEF group
      <3> QED
        BY <2>1, <3>1
    <2>3. PICK gap \in gaps : \A g \in gaps : gap <= g
      BY <2>2, LeastExists, Zenon
    <2> DEFINE best == {j \in group : 4 - Rank(F[j]) = gap}
    <2>4. best \in SUBSET Nat /\ best # {}
      <3>1. best # {}
        BY <2>3
      <3> QED
        BY <3>1
    <2>5. PICK k \in best : \A j \in best : k <= j
      BY <2>4, LeastExists, Zenon
    <2>6. k \in 1..n /\ SameGroup(F[k], F[i]) /\ 4 - Rank(F[k]) = gap
      OBVIOUS
    <2>7. \A j \in group : Rank(F[j]) <= Rank(F[k])
      <3>1. \A j \in group : gap <= 4 - Rank(F[j])
        BY <2>3
      <3> HIDE DEF group
      <3> QED
        BY <1>1, <2>1, <2>6, <3>1
    <2>8. k \in P
      <3>1. ASSUME NEW j \in 1..n, SameGroup(F[k], F[j]), k # j
            PROVE  Rank(F[k]) > Rank(F[j]) \/ (Rank(F[k]) = Rank(F[j]) /\ k < j)
        <4>1. j \in group
          BY <2>6, <3>1 DEF SameGroup
        <4>2. Rank(F[j]) <= Rank(F[k])
          BY <2>7, <4>1
        <4>3. Rank(F[j]) = Rank(F[k]) => k <= j
          BY <2>5, <2>6, <4>1
        <4> HIDE DEF group, best
        <4> QED
          BY <1>1, <2>6, <3>1, <4>2, <4>3
      <3> QED
        BY <1>4, <2>6, <3>1
    <2>9. Rank(F[k]) >= Rank(F[i])
      BY <1>1, <2>1, <2>6, <2>7
    <2> QED
      BY <2>6, <2>8, <2>9
  <1> DEFINE count == Cardinality(P)
  <1> DEFINE from == Sorted(P)
  <1>6. /\ count \in Nat /\ DOMAIN D = 1..count
        /\ \A k \in 1..count : from[k] \in P /\ D[k] = F[from[k]]
        /\ \A k, l \in 1..count : from[k] = from[l] => k = l
        /\ \A x \in P : \E k \in 1..count : from[k] = x
    <2>1. /\ count \in Nat /\ DOMAIN Picked(F, P) = 1..count
          /\ \A k \in 1..count : from[k] \in P /\ Picked(F, P)[k] = F[from[k]]
      BY <1>2, EntriesPicked
    <2>2. /\ \A k, l \in 1..count : from[k] = from[l] => k = l
          /\ \A x \in P : \E k \in 1..count : from[k] = x
      BY <1>2, PositionsSorted
    <2> HIDE DEF count, from
    <2> QED
      BY <1>2, <2>1, <2>2
  <1> HIDE DEF from
  <1> HIDE DEF count
  <1>7. Ranked(D, count)
    <2>1. \A k \in 1..count : D[k] = F[from[k]] /\ from[k] \in 1..n
      BY <1>2, <1>6
    <2> QED
      BY <1>6, <2>1 DEF Ranked
  <1>8. \A i \in 1..n : \E k \in 1..count : SameGroup(D[k], F[i]) /\ Rank(D[k]) >= Rank(F[i])
    BY <1>5, <1>6
  <1>9. \A k, l \in 1..count : SameGroup(D[k], D[l]) => k = l
    <2> SUFFICES ASSUME NEW k \in 1..count, NEW l \in 1..count, SameGroup(D[k], D[l]), k # l
                 PROVE  FALSE
      OBVIOUS
    <2> DEFINE i == from[k]
               j == from[l]
    <2>1. i \in P /\ j \in P /\ i # j /\ i \in 1..n /\ j \in 1..n
      BY <1>2, <1>6
    <2>2. SameGroup(F[i], F[j]) /\ SameGroup(F[j], F[i])
      BY <1>6 DEF SameGroup
    <2> HIDE DEF i, j
    <2>3. /\ Rank(F[i]) > Rank(F[j]) \/ (Rank(F[i]) = Rank(F[j]) /\ i < j)
          /\ Rank(F[j]) > Rank(F[i]) \/ (Rank(F[j]) = Rank(F[i]) /\ j < i)
      BY <1>3, <2>1, <2>2
    <2> QED
      BY <1>1, <2>1, <2>3
  <1>10. IdsDiffer(F, n) => IdsDiffer(D, count)
    <2>1. \A k \in 1..count : from[k] \in 1..n /\ D[k] = F[from[k]]
      BY <1>2, <1>6
    <2> QED
      BY <1>6, <2>1 DEF IdsDiffer
  <1> QED
    BY <1>6, <1>7, <1>8, <1>9, <1>10 DEF D

\* Numbering and the context of the workload change no model, key or subject,
\* lower no severity, and drop only what is normal for the workload.
LEMMA ContextApplied ==
  ASSUME NEW C, NEW n \in Nat, Ranked(C, n), NEW workload, NEW id
  PROVE  LET kept == ApplyWorkloadContext(Numbered(C, id), workload)
         IN \E m \in Nat :
              /\ Ranked(kept, m) /\ IdsDiffer(kept, m)
              /\ \A i \in 1..n :
                   \/ Expected(C[i], workload)
                   \/ \E j \in 1..m : SameGroup(kept[j], C[i]) /\ Rank(kept[j]) >= Rank(C[i])
  <1> DEFINE N == Numbered(C, id)
             P == {i \in DOMAIN N : ~Expected(N[i], workload)}
             K == Picked(N, P)
             U == ApplyWorkloadContext(N, workload)
  <1>1. DOMAIN N = 1..n /\ \A i \in 1..n : N[i] = [C[i] EXCEPT !.id = <<id, C[i].model, i>>]
    BY DEF Numbered, Ranked
  <1> HIDE DEF N
  <1>2. \A i \in 1..n : /\ IsConclusion(N[i]) /\ SameGroup(N[i], C[i]) /\ Rank(N[i]) = Rank(C[i])
                        /\ Expected(N[i], workload) <=> Expected(C[i], workload)
                        /\ N[i].id = <<id, C[i].model, i>>
    <2> TAKE i \in 1..n
    <2>1. IsConclusion(C[i])
      BY DEF Ranked
    <2>2. /\ DOMAIN N[i] = Fields /\ N[i].model = C[i].model /\ N[i].severity = C[i].severity
          /\ N[i].metric = C[i].metric /\ N[i].about = C[i].about /\ N[i].key = C[i].key
          /\ N[i].title = C[i].title /\ N[i].id = <<id, C[i].model, i>>
      BY <1>1, <2>1 DEF IsConclusion, Fields
    <2> QED
      BY <2>1, <2>2 DEF IsConclusion, SameGroup, Rank, Expected
  <1>3. P \in SUBSET (1..n)
    BY <1>1
  <1>4. /\ DOMAIN U = DOMAIN K /\ \A j \in DOMAIN K : U[j] = Upgraded(K[j], workload)
    BY DEF ApplyWorkloadContext
  <1>5. \A q : IsConclusion(q) =>
          /\ IsConclusion(Upgraded(q, workload)) /\ SameGroup(Upgraded(q, workload), q)
          /\ Rank(Upgraded(q, workload)) >= Rank(q) /\ Upgraded(q, workload).id = q.id
    <2> SUFFICES ASSUME NEW q, IsConclusion(q)
                 PROVE  /\ IsConclusion(Upgraded(q, workload)) /\ SameGroup(Upgraded(q, workload), q)
                        /\ Rank(Upgraded(q, workload)) >= Rank(q)
                        /\ Upgraded(q, workload).id = q.id
      OBVIOUS
    <2> DEFINE up == [q EXCEPT !.severity = "HIGH"]
    <2>1. Rank(q) \in 0..4
      BY Ranks DEF IsConclusion, Rank
    <2>2. /\ DOMAIN up = Fields /\ up.model = q.model /\ up.severity = "HIGH"
          /\ up.about = q.about /\ up.key = q.key /\ up.title = q.title /\ up.id = q.id
      BY DEF IsConclusion, Fields
    <2> HIDE DEF up
    <2>3. SeverityRank["HIGH"] = 3 /\ SeverityRank["MEDIUM"] = 2 /\ "HIGH" \in Penalised
      BY DEF SeverityRank, Penalised
    <2>4. IsConclusion(up) /\ SameGroup(up, q) /\ Rank(up) = 3
      BY <2>2, <2>3 DEF IsConclusion, SameGroup, Rank
    <2>5. Upgraded(q, workload) = q
            \/ (Upgraded(q, workload) = up /\ q.severity = "MEDIUM")
      BY DEF Upgraded, up
    <2>6. SameGroup(q, q)
      BY DEF SameGroup
    <2>7. q.severity = "MEDIUM" => Rank(q) = 2
      BY <2>3 DEF Rank
    <2> QED
      BY <2>1, <2>2, <2>4, <2>5, <2>6, <2>7
  <1> DEFINE from == Sorted(P)
             m == Cardinality(P)
  <1>6. /\ m \in Nat /\ DOMAIN K = 1..m
        /\ \A j \in 1..m : from[j] \in P /\ K[j] = N[from[j]]
        /\ \A i \in P : \E j \in 1..m : from[j] = i
        /\ \A j, k \in 1..m : from[j] = from[k] => j = k
    <2>1. /\ m \in Nat /\ DOMAIN K = 1..m
          /\ \A j \in 1..m : from[j] \in P /\ K[j] = N[from[j]]
      BY <1>3, EntriesPicked
    <2>2. /\ \A i \in P : \E j \in 1..m : from[j] = i
          /\ \A j, k \in 1..m : from[j] = from[k] => j = k
      BY <1>3, PositionsSorted
    <2> QED
      BY <2>1, <2>2
  <1>7. \A i \in 1..n : Expected(C[i], workload) \/ i \in P
    BY <1>1, <1>2
  <1> HIDE DEF from, m, P, K, U
  <1>8. \A j \in 1..m : /\ IsConclusion(U[j]) /\ SameGroup(U[j], N[from[j]])
                        /\ Rank(U[j]) >= Rank(N[from[j]]) /\ from[j] \in 1..n
                        /\ U[j].id = N[from[j]].id
    <2> TAKE j \in 1..m
    <2>1. from[j] \in 1..n /\ K[j] = N[from[j]] /\ U[j] = Upgraded(K[j], workload)
      BY <1>3, <1>4, <1>6
    <2>2. IsConclusion(K[j])
      BY <1>2, <2>1
    <2> QED
      BY <1>5, <2>1, <2>2
  <1>9. Ranked(U, m)
    BY <1>4, <1>6, <1>8 DEF Ranked
  <1>10. ASSUME NEW i \in 1..n
         PROVE  \/ Expected(C[i], workload)
                \/ \E j \in 1..m : SameGroup(U[j], C[i]) /\ Rank(U[j]) >= Rank(C[i])
    <2>1. CASE i \in P
      <3>1. PICK j \in 1..m : from[j] = i
        BY <1>6, <2>1
      <3>2. SameGroup(U[j], C[i])
        BY <1>2, <1>8, <3>1 DEF SameGroup
      <3>3. Rank(U[j]) >= Rank(C[i])
        BY <1>2, <1>8, <3>1
      <3> QED
        BY <3>2, <3>3
    <2> QED
      BY <1>7, <2>1
  <1>11. IdsDiffer(U, m)
    BY <1>2, <1>6, <1>8 DEF IdsDiffer
  <1> QED
    BY <1>6, <1>9, <1>10, <1>11 DEF U, N

\* What is kept is a list: of every conclusion that is not normal for the workload
\* it has a finding of its group, as severe, and of every group only one.
LEMMA FindingsCover ==
  ASSUME NEW out, IsList(Conclusions(out)), NEW workload, NEW id
  PROVE  LET kept == GenerateFindings(out, workload, id)
         IN /\ \E count \in Nat : Ranked(kept, count) /\ IdsDiffer(kept, count)
            /\ \A q \in Range(Conclusions(out)) :
                 \/ Expected(q, workload)
                 \/ \E f \in Range(kept) : /\ f.model = q.model /\ f.about = q.about
                                           /\ SeverityRank[f.severity] >= SeverityRank[q.severity]
            /\ \A i, j \in DOMAIN kept : SameGroup(kept[i], kept[j]) => i = j
  <1> DEFINE C == Conclusions(out)
             n == Len(C)
             U == ApplyWorkloadContext(Numbered(C, id), workload)
             D == GenerateFindings(out, workload, id)
  <1>1. n \in Nat /\ Ranked(C, n)
    BY DEF IsList, Ranked
  <1>2. D = Deduplicate(U)
    BY DEF GenerateFindings
  <1>3. \A i \in DOMAIN C : i \in 1..n
    BY <1>1 DEF Ranked
  <1> HIDE DEF C, n, D
  <1>4. PICK m \in Nat :
          /\ Ranked(U, m) /\ IdsDiffer(U, m)
          /\ \A i \in 1..n : \/ Expected(C[i], workload)
                             \/ \E j \in 1..m : SameGroup(U[j], C[i]) /\ Rank(U[j]) >= Rank(C[i])
    BY <1>1, ContextApplied
  <1> HIDE DEF U
  <1>5. PICK count \in Nat :
          /\ Ranked(D, count)
          /\ \A i \in 1..m : \E k \in 1..count :
               SameGroup(D[k], U[i]) /\ Rank(D[k]) >= Rank(U[i])
          /\ \A k, l \in 1..count : SameGroup(D[k], D[l]) => k = l
          /\ IdsDiffer(D, count)
    <2>1. \E count \in Nat :
            /\ Ranked(Deduplicate(U), count)
            /\ \A i \in 1..m : \E k \in 1..count :
                 SameGroup(Deduplicate(U)[k], U[i]) /\ Rank(Deduplicate(U)[k]) >= Rank(U[i])
            /\ \A k, l \in 1..count :
                 SameGroup(Deduplicate(U)[k], Deduplicate(U)[l]) => k = l
            /\ IdsDiffer(U, m) => IdsDiffer(Deduplicate(U), count)
      BY <1>4, OnePerGroup, Zenon
    <2> QED
      BY <1>2, <1>4, <2>1
  <1>6. ASSUME NEW i \in 1..n, ~Expected(C[i], workload)
        PROVE  \E f \in Range(D) : /\ f.model = C[i].model /\ f.about = C[i].about
                                   /\ SeverityRank[f.severity] >= SeverityRank[C[i].severity]
    <2>1. PICK j \in 1..m : SameGroup(U[j], C[i]) /\ Rank(U[j]) >= Rank(C[i])
      BY <1>4, <1>6
    <2>2. PICK k \in 1..count : SameGroup(D[k], U[j]) /\ Rank(D[k]) >= Rank(U[j])
      BY <1>5
    <2>3. IsConclusion(C[i]) /\ IsConclusion(U[j]) /\ IsConclusion(D[k])
      BY <1>1, <1>4, <1>5 DEF Ranked
    <2>4. Rank(C[i]) \in 0..4 /\ Rank(U[j]) \in 0..4 /\ Rank(D[k]) \in 0..4
      BY <2>3, Ranks DEF IsConclusion, Rank
    <2>5. Rank(D[k]) >= Rank(C[i])
      BY <2>1, <2>2, <2>4
    <2>6. D[k].model = C[i].model /\ D[k].key = C[i].key
      BY <2>1, <2>2 DEF SameGroup
    <2>7. D[k].about = C[i].about
      BY <2>3, <2>6 DEF IsConclusion
    <2>8. D[k] \in Range(D)
      BY <1>5 DEF Ranked, Range
    <2> QED
      BY <2>5, <2>6, <2>7, <2>8 DEF Rank
  <1>7. \A q \in Range(C) : \E i \in 1..n : q = C[i]
    BY <1>3 DEF Range
  <1>8. \A i, j \in DOMAIN D : SameGroup(D[i], D[j]) => i = j
    BY <1>5 DEF Ranked
  <1>9. \A q \in Range(C) :
          \/ Expected(q, workload)
          \/ \E f \in Range(D) : /\ f.model = q.model /\ f.about = q.about
                                 /\ SeverityRank[f.severity] >= SeverityRank[q.severity]
    BY <1>6, <1>7, Zenon
  <1>10. \E total \in Nat : Ranked(D, total) /\ IdsDiffer(D, total)
    BY <1>5
  <1> QED
    BY <1>8, <1>9, <1>10 DEF D, C

-----------------------------------------------------------------------------
(* What Stage 3 keeps for a cluster                                        *)

\* The part of AnalysisIsAccountedFor that is about one cluster.
Accounted(kept) ==
  /\ \A m \in ModelNames \ kept.errors : kept.outputs[m] # Absent \/ m = "shard_balance"
  /\ \/ "findings" \in kept.errors
     \/ /\ \A q \in Range(Conclusions(kept.outputs)) :
             \/ Expected(q, kept.outputs["workload"])
             \/ \E f \in Range(kept.findings) :
                  /\ f.model = q.model /\ f.about = q.about
                  /\ SeverityRank[f.severity] >= SeverityRank[q.severity]
        /\ \A i, j \in DOMAIN kept.findings :
             SameGroup(kept.findings[i], kept.findings[j]) => i = j

\* The cluster under analysis has metrics, and its series are those.
UnderAnalysis ==
  /\ metricsFile \notin BadMetrics /\ cluster \in DOMAIN metricsFile
  /\ metricsFile[cluster] # Absent
  /\ data = Normalize(metricsFile[cluster], InventoryRecord(cluster))

\* A model that has run left its result or is listed as failed, and what a model
\* left is its result.
ResultsSoFar ==
  /\ \A i \in 1..10 : i < position => Models[i] \in failed \/ outputs[Models[i]] = Compute(Models[i])
  /\ DOMAIN outputs = ModelNames
  /\ \A m \in ModelNames : outputs[m] = Absent \/ m = "workload" \/ outputs[m] = Compute(m)

AnalysisInvariant ==
  /\ metricsFile \in MetricsFiles /\ inventory \in Inventories
  /\ position \in 1..11
  /\ metricsFile \notin BadMetrics => pending \subseteq DOMAIN metricsFile
  /\ cluster # Absent => UnderAnalysis
  /\ cluster = Absent => position = 1 /\ failed = {} /\ outputs = NoOutputs
  /\ ResultsSoFar
  /\ \A id \in DOMAIN analyzed : Accounted(analyzed[id])

\* Nothing is under analysis at the start.
LEMMA AnalysisInvariantInit ==
  ASSUME inventory \in Inventories, metricsFile \in MetricsFiles, AnalyzeInit
  PROVE  AnalysisInvariant
  <1>1. ResultsSoFar
    BY DEF AnalyzeInit, ResultsSoFar, NoOutputs
  <1>2. \A id \in DOMAIN analyzed : Accounted(analyzed[id])
    BY DEF AnalyzeInit
  <1> QED
    BY <1>1, <1>2 DEF AnalyzeInit, AnalysisInvariant

\* The record a cluster is analysed with is one of the inventory's, or none.
LEMMA RecordFound ==
  ASSUME inventory \in Inventories, NEW id
  PROVE  InventoryRecord(id) \in
           {Absent} \cup UNION {Range(records) : records \in Inventories \ BadFiles}
  <1>1. CASE id \in Named(Records)
    <2> DEFINE n == Len(Records)
               S == {i \in DOMAIN Records : Records[i].cluster_id = id}
    <2>1. inventory \notin BadFiles
      BY <1>1 DEF Records, Named
    <2>2. Records = inventory /\ Records \in Seq(Record)
      BY <2>1, InventoriesAssumption DEF Records
    <2>3. n \in Nat /\ DOMAIN Records = 1..n
      BY <2>2
    <2>4. S \in SUBSET (1..n) /\ S # {}
      <3> HIDE DEF n
      <3> QED
        BY <1>1, <2>3 DEF Named
    <2> HIDE DEF n, S
    <2>5. PICK last \in S : \A k \in S : k <= last
      BY <2>3, <2>4, LastExists
    <2>6. \E i \in DOMAIN Records :
            /\ Records[i].cluster_id = id
            /\ \A j \in DOMAIN Records : Records[j].cluster_id = id => j <= i
      BY <2>5 DEF S
    <2>7. \E i \in DOMAIN Records : LastRecordOf(Records, id) = Records[i]
      BY <2>6 DEF LastRecordOf
    <2>8. InventoryRecord(id) \in Range(inventory)
      BY <1>1, <2>2, <2>7 DEF InventoryRecord, Range
    <2> QED
      BY <2>1, <2>8
  <1>2. CASE id \notin Named(Records)
    BY <1>2 DEF InventoryRecord
  <1> QED
    BY <1>1, <1>2

\* Whatever the models left, the generator makes a list of it.
LEMMA OutputsListed ==
  ASSUME AnalysisInvariant, cluster # Absent
  PROVE  IsList(Conclusions(outputs))
  <1> DEFINE c == InventoryRecord(cluster)
  <1>1. UnderAnalysis /\ ResultsSoFar
    BY DEF AnalysisInvariant
  <1>2. metricsFile \in MetricsFiles \ {NoFile, NotJson} /\ cluster \in DOMAIN metricsFile
    BY <1>1 DEF UnderAnalysis, AnalysisInvariant, BadMetrics
  <1>3. IsStored(metricsFile[cluster])
    BY <1>1, <1>2, MetricsFilesAssumption DEF UnderAnalysis
  <1>4. IsFiniteSet(StoredKeys(data))
    BY <1>1, <1>3, ClusterKeys DEF UnderAnalysis
  <1>5. \A m \in ModelNames :
          outputs[m] = Absent \/ m = "workload" \/ outputs[m] = ResultOf(m, data, c)
    BY <1>1 DEF ResultsSoFar, Compute
  <1> HIDE DEF c
  <1> QED
    BY <1>4, <1>5, ConclusionsListed

\* What is kept for a cluster once every model has run.
LEMMA ClusterAccounted ==
  ASSUME AnalysisInvariant, cluster # Absent, position > Len(Models),
         NEW findings, NEW errors, failed \subseteq errors,
         \/ "findings" \in errors
         \/ findings = GenerateFindings(outputs, outputs["workload"], cluster)
  PROVE  Accounted([outputs |-> outputs, findings |-> findings, errors |-> errors])
  <1> DEFINE c == InventoryRecord(cluster)
             kept == [outputs |-> outputs, findings |-> findings, errors |-> errors]
  <1>1. UnderAnalysis /\ ResultsSoFar /\ position = 11
    BY ModelCount DEF AnalysisInvariant
  <1>2. metricsFile \in MetricsFiles \ {NoFile, NotJson} /\ cluster \in DOMAIN metricsFile
    BY <1>1 DEF UnderAnalysis, AnalysisInvariant, BadMetrics
  <1>3. ASSUME NEW m \in ModelNames \ errors
        PROVE  outputs[m] # Absent \/ m = "shard_balance"
    <2>1. PICK i \in 1..10 : m = Models[i]
      BY ModelCount DEF ModelNames, Range
    <2>2. outputs[m] = Compute(m)
      BY <1>1, <2>1 DEF ResultsSoFar
    <2>3. c \in {Absent} \cup UNION {Range(records) : records \in Inventories \ BadFiles}
      BY RecordFound DEF AnalysisInvariant
    <2>4. m = "shard_balance" \/ ResultOf(m, Normalize(metricsFile[cluster], c), c) # Absent
      <3> HIDE DEF c
      <3> QED
        BY <1>1, <1>2, <2>3, ResultsAssumption DEF UnderAnalysis
    <2> QED
      BY <1>1, <2>2, <2>4 DEF Compute, UnderAnalysis
  <1>4. IsList(Conclusions(outputs))
    BY OutputsListed
  <1>5. kept.outputs = outputs /\ kept.findings = findings /\ kept.errors = errors
    OBVIOUS
  <1>6. CASE "findings" \in errors
    <2> HIDE DEF kept
    <2> QED
      BY <1>3, <1>5, <1>6 DEF Accounted, kept
  <1>7. CASE findings = GenerateFindings(outputs, outputs["workload"], cluster)
    <2>1. /\ \A q \in Range(Conclusions(outputs)) :
               \/ Expected(q, outputs["workload"])
               \/ \E f \in Range(findings) :
                    /\ f.model = q.model /\ f.about = q.about
                    /\ SeverityRank[f.severity] >= SeverityRank[q.severity]
          /\ \A i, j \in DOMAIN findings : SameGroup(findings[i], findings[j]) => i = j
      BY <1>4, <1>7, FindingsCover
    <2> HIDE DEF kept
    <2>2. Accounted(kept)
      BY <1>3, <1>5, <2>1 DEF Accounted
    <2> QED
      BY <2>2 DEF kept
  <1> QED
    BY <1>6, <1>7

\* What a model computes depends on the files alone.
LEMMA ComputeUnchanged ==
  ASSUME UNCHANGED <<data, cluster, inventory>>
  PROVE  \A m : Compute(m)' = Compute(m)
  <1>1. InventoryRecord(cluster)' = InventoryRecord(cluster)
    BY DEF InventoryRecord, Records
  <1> QED
    BY <1>1 DEF Compute

\* A cluster under analysis stays so while nothing of it changes.
LEMMA UnderAnalysisUnchanged ==
  ASSUME UnderAnalysis, UNCHANGED <<metricsFile, data, cluster, inventory>>
  PROVE  UnderAnalysis'
  <1>1. InventoryRecord(cluster)' = InventoryRecord(cluster)
    BY DEF InventoryRecord, Records
  <1> QED
    BY <1>1 DEF UnderAnalysis

\* A model that is done leaves its result, or nothing and its name on the list.
LEMMA ModelDone ==
  ASSUME AnalysisInvariant, Running, UNCHANGED <<data, cluster, inventory>>,
         position' = position + 1,
         \/ outputs' = [outputs EXCEPT ![Model] = Compute(Model)] /\ failed' = failed
         \/ outputs' = [outputs EXCEPT ![Model] = Fallback] /\ failed' = failed \cup {Model}
  PROVE  ResultsSoFar' /\ position' \in 1..11
  <1>1. position \in 1..10 /\ Model = Models[position] /\ Model \in ModelNames
    BY ModelCount DEF AnalysisInvariant, Running, Model, ModelNames, Range
  <1>2. \A m : Compute(m)' = Compute(m)
    BY ComputeUnchanged
  <1>3. Fallback = Absent \/ Model = "workload"
    BY DEF Fallback
  <1>4. ResultsSoFar
    BY DEF AnalysisInvariant
  <1>5. DOMAIN outputs' = ModelNames /\ \A m \in ModelNames : m # Model => outputs'[m] = outputs[m]
    BY <1>1, <1>4 DEF ResultsSoFar
  <1>6. outputs'[Model] = Compute(Model) \/ (outputs'[Model] = Fallback /\ Model \in failed')
    BY <1>1, <1>4 DEF ResultsSoFar
  <1>7. failed \subseteq failed'
    OBVIOUS
  <1>8. \A m \in ModelNames : outputs'[m] = Absent \/ m = "workload" \/ outputs'[m] = Compute(m)
    BY <1>3, <1>4, <1>5, <1>6 DEF ResultsSoFar
  <1>9. ASSUME NEW i \in 1..10, i < position'
        PROVE  Models[i] \in failed' \/ outputs'[Models[i]] = Compute(Models[i])
    <2>1. CASE Models[i] = Model
      BY <1>6, <2>1
    <2>2. CASE Models[i] # Model
      <3>1. i < position
        BY <1>1, <1>9, <2>2
      <3>2. Models[i] \in ModelNames
        BY ModelCount DEF ModelNames, Range
      <3> QED
        BY <1>4, <1>5, <1>7, <2>2, <3>1, <3>2 DEF ResultsSoFar
    <2> QED
      BY <2>1, <2>2
  <1> QED
    BY <1>1, <1>2, <1>5, <1>8, <1>9 DEF ResultsSoFar

\* No step of the analysis loses a conclusion.
LEMMA AnalysisInvariantNext ==
  ASSUME AnalysisInvariant, [AnalyzeNext]_<<inventory, analyzeVars>>
  PROVE  AnalysisInvariant'
  <1>1. CASE UNCHANGED <<metricsFile, inventory, pending, cluster, data, position, outputs, failed,
                         analyzed>>
    <2>1. \A m : Compute(m)' = Compute(m)
      BY <1>1, ComputeUnchanged
    <2>2. ResultsSoFar'
      BY <1>1, <2>1 DEF AnalysisInvariant, ResultsSoFar
    <2>3. cluster # Absent => UnderAnalysis'
      BY <1>1, UnderAnalysisUnchanged DEF AnalysisInvariant
    <2> QED
      BY <1>1, <2>2, <2>3 DEF AnalysisInvariant
  <1>2. CASE RefuseInput \/ ShardMissing \/ WriteAnalysis \/ WriteAnalysisFails
    BY <1>1, <1>2
    DEF RefuseInput, ShardMissing, WriteAnalysis, WriteAnalysisFails, NoRun, analysisInputs
  <1>3. CASE StartCluster
    <2>1. metricsFile \notin BadMetrics /\ cluster = Absent
      BY <1>3 DEF StartCluster, Ready, Unreadable
    <2>2. \E id \in pending : /\ metricsFile[id] # Absent /\ cluster' = id
                              /\ data' = Normalize(metricsFile[id], InventoryRecord(id))
      BY <1>3 DEF StartCluster
    <2>3. UNCHANGED <<metricsFile, inventory, position, outputs, failed, analyzed>>
      BY <1>3 DEF StartCluster, analysisInputs
    <2>4. \A id : InventoryRecord(id)' = InventoryRecord(id)
      BY <2>3 DEF InventoryRecord, Records
    <2>5. UnderAnalysis'
      BY <2>1, <2>2, <2>3, <2>4 DEF AnalysisInvariant, UnderAnalysis
    <2>6. pending' \subseteq pending
      BY <1>3 DEF StartCluster
    <2>7. ResultsSoFar'
      BY <2>1, <2>3 DEF AnalysisInvariant, ResultsSoFar, NoOutputs
    <2> QED
      BY <2>1, <2>3, <2>5, <2>6, <2>7 DEF AnalysisInvariant
  <1>4. CASE ModelSucceeds \/ ModelRaises \/ ModelSkipped
    <2>1. /\ Running /\ position' = position + 1
          /\ UNCHANGED <<metricsFile, inventory, pending, cluster, data, analyzed>>
          /\ \/ outputs' = [outputs EXCEPT ![Model] = Compute(Model)] /\ failed' = failed
             \/ outputs' = [outputs EXCEPT ![Model] = Fallback] /\ failed' = failed \cup {Model}
      BY <1>4 DEF ModelSucceeds, ModelRaises, ModelSkipped, ModelFails, analysisInputs
    <2>2. ResultsSoFar' /\ position' \in 1..11
      BY <2>1, ModelDone
    <2>3. cluster' # Absent /\ UnderAnalysis'
      BY <2>1, UnderAnalysisUnchanged DEF AnalysisInvariant, Running
    <2> QED
      BY <2>1, <2>2, <2>3 DEF AnalysisInvariant
  <1>5. CASE KeepFindings \/ GeneratorRaises
    <2>1. /\ cluster # Absent /\ position > Len(Models)
          /\ cluster' = Absent /\ position' = 1 /\ outputs' = NoOutputs /\ failed' = {}
          /\ UNCHANGED <<metricsFile, inventory, pending>>
      BY <1>5 DEF KeepFindings, GeneratorRaises, FinishCluster, Ready, analysisInputs
    <2>2. \E findings, errors :
            /\ analyzed' = Kept(findings, errors) /\ failed \subseteq errors
            /\ \/ "findings" \in errors
               \/ findings = GenerateFindings(outputs, outputs["workload"], cluster)
      BY <1>5 DEF KeepFindings, GeneratorRaises
    <2>3. \A id \in DOMAIN analyzed' : Accounted(analyzed'[id])
      <3>1. PICK findings, errors :
              /\ analyzed' = Kept(findings, errors) /\ failed \subseteq errors
              /\ \/ "findings" \in errors
                 \/ findings = GenerateFindings(outputs, outputs["workload"], cluster)
        BY <2>2
      <3>2. Accounted([outputs |-> outputs, findings |-> findings, errors |-> errors])
        BY <2>1, <3>1, ClusterAccounted
      <3> QED
        BY <3>1, <3>2 DEF Kept, AnalysisInvariant
    <2>4. ResultsSoFar'
      BY <2>1 DEF ResultsSoFar, NoOutputs
    <2> QED
      BY <2>1, <2>3, <2>4 DEF AnalysisInvariant
  <1>6. CASE UNCHANGED <<inventory, analyzeVars>>
    BY <1>1, <1>6 DEF analyzeVars
  <1> QED
    BY <1>2, <1>3, <1>4, <1>5, <1>6, Zenon DEF AnalyzeNext

\* The invariant is stronger than the property.
LEMMA InvariantSaysAccounted == AnalysisInvariant => AnalysisIsAccountedFor
  BY DEF AnalysisInvariant, AnalysisIsAccountedFor, Accounted

\* Stage 3 loses nothing without saying so: a model without a result is listed
\* under "errors", and a conclusion that is not normal for the workload ends in a
\* finding at least as severe, one per model and subject, whatever was measured,
\* whichever models raise and however many clusters there are.
THEOREM NoConclusionIsLost == AnalyzeSpec => []AnalysisIsAccountedFor
  <1>1. inventory \in Inventories /\ metricsFile \in MetricsFiles /\ AnalyzeInit
          => AnalysisInvariant
    BY AnalysisInvariantInit
  <1>2. AnalysisInvariant /\ [AnalyzeNext]_<<inventory, analyzeVars>> => AnalysisInvariant'
    BY AnalysisInvariantNext
  <1> QED
    BY <1>1, <1>2, InvariantSaysAccounted, PTL DEF AnalyzeSpec

-----------------------------------------------------------------------------
(* What analysis.json holds                                                *)

\* A list of findings for each of finitely many clusters, each with an id of its own.
FindingsListed(kept) ==
  /\ IsFiniteSet(DOMAIN kept)
  /\ \A id \in DOMAIN kept : \E n \in Nat :
       Ranked(kept[id].findings, n) /\ IdsDiffer(kept[id].findings, n)
\* A cluster whose shard is not there is never passed over.
ShardsRead ==
  metricsFile \notin BadMetrics =>
    \A id \in DOMAIN metricsFile : id \in pending \/ metricsFile[id] # Absent
AnalysisWritten ==
  /\ AnalysisInvariant /\ FindingsListed(analyzed) /\ ShardsRead
  /\ analysisFile # Absent =>
       /\ FindingsListed(analysisFile)
       /\ metricsFile \notin BadMetrics /\ \A id \in DOMAIN metricsFile : metricsFile[id] # Absent

\* No analysis is written at the start,
LEMMA AnalysisWrittenInit ==
  ASSUME inventory \in Inventories, metricsFile \in MetricsFiles, AnalyzeInit
  PROVE  AnalysisWritten
  <1>1. FindingsListed(analyzed)
    <2>1. analyzed = [id \in {} |-> Absent]
      BY DEF AnalyzeInit
    <2>2. DOMAIN analyzed = {}
      BY <2>1
    <2> QED
      BY <2>2, FS_EmptySet DEF FindingsListed
  <1> QED
    BY <1>1, AnalysisInvariantInit DEF AnalyzeInit, AnalysisWritten, ShardsRead

\* and what is written is what was kept for the clusters.
LEMMA AnalysisWrittenNext ==
  ASSUME AnalysisWritten, [AnalyzeNext]_<<inventory, analyzeVars>>
  PROVE  AnalysisWritten'
  <1>1. AnalysisInvariant' /\ AnalysisInvariant
    BY AnalysisInvariantNext DEF AnalysisWritten
  <1>2. CASE UNCHANGED <<metricsFile, pending, analyzed, analysisFile>>
    BY <1>1, <1>2 DEF AnalysisWritten, FindingsListed, ShardsRead
  <1>3. CASE RefuseInput \/ ShardMissing \/ ModelSucceeds \/ ModelRaises \/ ModelSkipped
             \/ WriteAnalysisFails
    BY <1>2, <1>3
    DEF RefuseInput, ShardMissing, ModelSucceeds, ModelRaises, ModelSkipped, ModelFails,
        WriteAnalysisFails, NoRun, analysisInputs
  <1>4. CASE StartCluster
    <2>1. /\ UNCHANGED <<metricsFile, analyzed, analysisFile>>
          /\ \E id \in pending : metricsFile[id] # Absent /\ pending' = pending \ {id}
      BY <1>4 DEF StartCluster, analysisInputs
    <2> QED
      BY <1>1, <2>1 DEF AnalysisWritten, FindingsListed, ShardsRead
  <1>5. CASE WriteAnalysis
    <2>1. /\ UNCHANGED <<metricsFile, analyzed, pending>> /\ analysisFile' = analyzed
          /\ pending = {} /\ metricsFile \notin BadMetrics
      BY <1>5 DEF WriteAnalysis, NoRun, analysisInputs, AllAnalyzed, Ready, Unreadable
    <2> QED
      BY <1>1, <2>1 DEF AnalysisWritten, FindingsListed, ShardsRead
  <1>6. CASE KeepFindings \/ GeneratorRaises
    <2>1. /\ UNCHANGED <<metricsFile, pending, analysisFile>> /\ cluster # Absent
          /\ \E findings, errors :
               /\ analyzed' = Kept(findings, errors)
               /\ findings = <<>>
                    \/ findings = GenerateFindings(outputs, outputs["workload"], cluster)
      BY <1>6 DEF KeepFindings, GeneratorRaises, FinishCluster, analysisInputs
    <2>2. PICK findings, errors :
            /\ analyzed' = Kept(findings, errors)
            /\ findings = <<>>
                 \/ findings = GenerateFindings(outputs, outputs["workload"], cluster)
      BY <2>1
    <2>3. \E n \in Nat : Ranked(findings, n) /\ IdsDiffer(findings, n)
      <3>1. CASE findings = <<>>
        <4>1. DOMAIN findings = 1..0
          BY <3>1
        <4> QED
          BY <4>1 DEF Ranked, IdsDiffer
      <3>2. CASE findings = GenerateFindings(outputs, outputs["workload"], cluster)
        <4>1. IsList(Conclusions(outputs))
          BY <1>1, <2>1, OutputsListed
        <4> QED
          BY <3>2, <4>1, FindingsCover
      <3> QED
        BY <2>2, <3>1, <3>2
    <2>4. DOMAIN analyzed' = DOMAIN analyzed \cup {cluster}
      BY <2>2 DEF Kept
    <2>5. IsFiniteSet(DOMAIN analyzed')
      BY <2>4, FS_AddElement DEF AnalysisWritten, FindingsListed
    <2>6. \A id \in DOMAIN analyzed' : \E n \in Nat :
            Ranked(analyzed'[id].findings, n) /\ IdsDiffer(analyzed'[id].findings, n)
      BY <2>2, <2>3 DEF Kept, AnalysisWritten, FindingsListed
    <2> QED
      BY <1>1, <2>1, <2>5, <2>6 DEF AnalysisWritten, FindingsListed, ShardsRead
  <1>7. CASE UNCHANGED <<inventory, analyzeVars>>
    BY <1>2, <1>7 DEF analyzeVars
  <1> QED
    BY <1>3, <1>4, <1>5, <1>6, <1>7, Zenon DEF AnalyzeNext

-----------------------------------------------------------------------------
(* Incidents                                                               *)

Span == [start : Int, length : Int]
\* P are the breaching positions: a stretch of them that cannot be longer.
IsRun(P, a, b) == a <= b /\ a..b \subseteq P /\ a - 1 \notin P /\ b + 1 \notin P

\* The loop after k values: the stretch that is open, and those that are closed.
Tracked(P, n, acc, k) ==
  /\ acc \in [start : Int, list : Seq(Span)]
  /\ acc.start = 0 => k \notin P
  /\ acc.start # 0 => acc.start \in 1..k /\ acc.start..k \subseteq P /\ acc.start - 1 \notin P
  /\ \A i \in 1..Len(acc.list) :
       LET a == acc.list[i].start
           b == a + acc.list[i].length - 1
       IN a \in 1..n /\ b \in 1..n /\ b < k /\ IsRun(P, a, b)
  /\ \A a, b \in 1..n : b < k /\ IsRun(P, a, b) =>
       \E i \in 1..Len(acc.list) : acc.list[i].start = a /\ a + acc.list[i].length - 1 = b
  /\ \A i, j \in 1..Len(acc.list) : acc.list[i].start = acc.list[j].start => i = j
Advance(P, acc, k) ==
  IF k \in P THEN IF acc.start = 0 THEN [acc EXCEPT !.start = k] ELSE acc ELSE Close(acc, k)

\* One more value keeps track.
LEMMA ValueTracked ==
  ASSUME NEW n \in Nat, NEW P \in SUBSET (1..n), NEW k \in 1..(n + 1), NEW acc,
         Tracked(P, n, acc, k - 1)
  PROVE  Tracked(P, n, Advance(P, acc, k), k)
  <1> DEFINE list == acc.list
             s == acc.start
             next == Advance(P, acc, k)
             m == Len(list)
  <1>1. /\ acc \in [start : Int, list : Seq(Span)] /\ s \in Int /\ list \in Seq(Span) /\ m \in Nat
        /\ acc = [start |-> s, list |-> list]
        /\ s = 0 => k - 1 \notin P
        /\ s # 0 => s \in 1..(k - 1) /\ s..(k - 1) \subseteq P /\ s - 1 \notin P
    BY DEF Tracked
  <1>2. \A i \in 1..m : /\ list[i] \in Span
                        /\ list[i].start \in 1..n
                        /\ list[i].start + list[i].length - 1 \in 1..n
                        /\ list[i].start + list[i].length - 1 < k - 1
                        /\ IsRun(P, list[i].start, list[i].start + list[i].length - 1)
    <2>1. \A i \in 1..m : list[i] \in Span
      BY <1>1
    <2> QED
      BY <2>1 DEF Tracked
  <1>3. \A a, b \in 1..n : b < k - 1 /\ IsRun(P, a, b) =>
          \E i \in 1..m : list[i].start = a /\ a + list[i].length - 1 = b
    BY DEF Tracked
  <1>4. \A i, j \in 1..m : list[i].start = list[j].start => i = j
    BY DEF Tracked
  <1>5. k \in Int /\ k >= 1 /\ \A a \in 1..n : a \in Int
    OBVIOUS
  <1> HIDE DEF s, list, m
  <1>6. CASE k \in P \/ s = 0
    <2>1. next.list = list /\ next = [start |-> IF k \in P /\ s = 0 THEN k ELSE s, list |-> list]
      BY <1>1, <1>6 DEF Advance, Close, s, list
    <2> HIDE DEF next
    <2>2. next.start = IF k \in P /\ s = 0 THEN k ELSE s
      BY <2>1
    <2>3. ASSUME NEW a \in 1..n, NEW b \in 1..n, IsRun(P, a, b), b < k
          PROVE  b < k - 1
      <3>1. b \in P /\ b + 1 \notin P
        BY <2>3, <1>5 DEF IsRun
      <3>2. b # k - 1
        BY <1>1, <1>5, <1>6, <3>1
      <3> QED
        BY <1>5, <2>3, <3>2
    <2>4. next.start = 0 => k \notin P
      BY <1>1, <1>5, <2>2
    <2>5. next.start # 0 => next.start \in 1..k /\ next.start..k \subseteq P /\ next.start - 1 \notin P
      <3>1. CASE k \in P /\ s = 0
        BY <1>1, <1>5, <2>2, <3>1
      <3>2. CASE s # 0
        <4>1. k \in P
          BY <1>6, <3>2
        <4>2. s \in 1..k /\ s..k \subseteq (s..(k - 1)) \cup {k}
          BY <1>1, <1>5, <3>2
        <4> QED
          BY <1>1, <2>2, <3>2, <4>1, <4>2
      <3>3. CASE ~(k \in P) /\ s = 0
        BY <2>2, <3>3
      <3> QED
        BY <3>1, <3>2, <3>3
    <2>6. \A i \in 1..m :
            /\ list[i].start \in 1..n /\ list[i].start + list[i].length - 1 \in 1..n
            /\ list[i].start + list[i].length - 1 < k
            /\ IsRun(P, list[i].start, list[i].start + list[i].length - 1)
      BY <1>2, <1>5
    <2>7. \A a, b \in 1..n : b < k /\ IsRun(P, a, b) =>
            \E i \in 1..m : list[i].start = a /\ a + list[i].length - 1 = b
      BY <1>3, <2>3
    <2>8. next \in [start : Int, list : Seq(Span)]
      BY <1>1, <1>5, <2>1
    <2>9. Tracked(P, n, next, k)
      BY <1>4, <2>1, <2>4, <2>5, <2>6, <2>7, <2>8 DEF Tracked, m
    <2> QED
      BY <2>9 DEF next
  <1>7. CASE k \notin P /\ s # 0
    <2> DEFINE last == [start |-> s, length |-> k - s]
               all == Append(list, last)
    <2>1. next = [start |-> 0, list |-> all]
      BY <1>1, <1>7 DEF Advance, Close, s, list
    <2>2. s \in 1..(k - 1) /\ s..(k - 1) \subseteq P /\ s - 1 \notin P
      BY <1>1, <1>7
    <2>3. last \in Span /\ last.start = s /\ s + last.length - 1 = k - 1
      BY <1>1, <1>5 DEF Span
    <2>4. /\ all \in Seq(Span) /\ Len(all) = m + 1
          /\ \A i \in 1..m : all[i] = list[i]
          /\ all[m + 1] = last
      BY <1>1, <2>3 DEF m
    <2>5. s \in 1..n /\ k - 1 \in 1..n
      BY <1>5, <2>2
    <2>6. IsRun(P, s, k - 1)
      BY <1>5, <1>7, <2>2 DEF IsRun
    <2> HIDE DEF next, last, all
    <2>7. \A i \in 1..(m + 1) : i \in 1..m \/ i = m + 1
      BY <1>1
    <2>8. \A i \in 1..(m + 1) :
            /\ all[i].start \in 1..n /\ all[i].start + all[i].length - 1 \in 1..n
            /\ all[i].start + all[i].length - 1 < k
            /\ IsRun(P, all[i].start, all[i].start + all[i].length - 1)
      <3> TAKE i \in 1..(m + 1)
      <3>1. CASE i \in 1..m
        BY <1>2, <1>5, <2>4, <3>1
      <3>2. CASE i = m + 1
        BY <1>5, <2>3, <2>4, <2>5, <2>6, <3>2
      <3> QED
        BY <2>7, <3>1, <3>2
    <2>9. ASSUME NEW a \in 1..n, NEW b \in 1..n, b < k, IsRun(P, a, b)
          PROVE  \E i \in 1..(m + 1) : all[i].start = a /\ a + all[i].length - 1 = b
      <3>1. CASE b < k - 1
        <4>1. PICK i \in 1..m : list[i].start = a /\ a + list[i].length - 1 = b
          BY <1>3, <2>9, <3>1
        <4>2. i \in 1..(m + 1)
          BY <1>1
        <4> QED
          BY <2>4, <4>1, <4>2
      <3>2. CASE b = k - 1
        <4>1. a..b \subseteq P /\ a - 1 \notin P /\ a <= b /\ a \in Int
          BY <2>9 DEF IsRun
        <4>2. ~(a < s)
          <5>1. a < s => s - 1 \in a..b
            BY <1>5, <2>2, <3>2, <4>1
          <5> QED
            BY <2>2, <4>1, <5>1
        <4>3. ~(s < a)
          <5>1. s < a => a - 1 \in s..(k - 1)
            BY <1>5, <2>2, <3>2, <4>1
          <5> QED
            BY <2>2, <4>1, <5>1
        <4>4. a = s /\ m + 1 \in 1..(m + 1)
          BY <1>1, <4>1, <4>2, <4>3
        <4> QED
          BY <2>3, <2>4, <3>2, <4>4
      <3> QED
        BY <1>5, <2>9, <3>1, <3>2
    <2>10. \A i \in 1..m : list[i].start # s
      <3> SUFFICES ASSUME NEW i \in 1..m, list[i].start = s
                   PROVE  FALSE
        OBVIOUS
      <3>1. /\ s + list[i].length - 1 \in 1..n /\ s + list[i].length - 1 < k - 1
            /\ IsRun(P, s, s + list[i].length - 1)
        BY <1>2
      <3> DEFINE b == s + list[i].length - 1
      <3>2. b \in Int /\ b < k - 1 /\ s <= b /\ b + 1 \notin P
        BY <3>1, <1>5 DEF IsRun
      <3> HIDE DEF b
      <3>3. b + 1 \in s..(k - 1)
        BY <1>1, <1>5, <3>2
      <3> QED
        BY <2>2, <3>2, <3>3
    <2>11. \A i, j \in 1..(m + 1) : all[i].start = all[j].start => i = j
      BY <1>4, <2>3, <2>4, <2>7, <2>10
    <2>12. /\ next.start = 0 /\ next.list = all /\ next \in [start : Int, list : Seq(Span)]
      BY <2>1, <2>4
    <2>13. Tracked(P, n, next, k)
      BY <1>7, <2>4, <2>8, <2>9, <2>11, <2>12 DEF Tracked
    <2> QED
      BY <2>13 DEF next
  <1> QED
    BY <1>6, <1>7

\* The incidents of a metric are the stretches of its breaching positions.
LEMMA IncidentsFound ==
  ASSUME NEW metric, NEW n \in Nat, NEW values, values = [i \in 1..n |-> values[i]],
         NEW P, P = {k \in 1..n : Breaches(metric, values[k])}
  PROVE  Tracked(P, n, [start |-> 0, list |-> Incidents(metric, values)], n + 1)
  <1> DEFINE Step(acc, i) == IF Breaches(metric, values[i])
                             THEN IF acc.start = 0 THEN [acc EXCEPT !.start = i] ELSE acc
                             ELSE Close(acc, i)
             T == [start : Int, list : Seq(Span)]
             base == [start |-> 0, list |-> <<>>]
             domain == [i \in DOMAIN values |-> i]
             step == [p \in T \X (1..n) |-> Step(p[1], p[2])]
             kept == CHOOSE table : table = [s \in SUBSET (DOMAIN domain) |->
                       IF s = {} THEN base ELSE Step(table[s \ {Max(s)}], domain[Max(s)])]
  <1>1. DOMAIN values = 1..n /\ DOMAIN domain = 1..n /\ \A i \in 1..n : domain[i] = i /\ i \in Int
    OBVIOUS
  <1>2. Len(values) = n
    BY IsSequence
  <1>3. Incidents(metric, values) = Close(kept[DOMAIN domain], n + 1).list
    BY <1>2 DEF Incidents, FoldLeftDomain, FoldLeft, MapThenFoldSet
  <1>4. \A t \in T, i \in 1..n : Step(t, i) = Advance(P, t, i)
    BY DEF Advance
  <1>5. \A t \in T, i \in 1..n : Step(t, i) \in T
    <2> TAKE t \in T, i \in 1..n
    <2>1. i \in Int /\ t.start \in Int /\ t.list \in Seq(Span)
      OBVIOUS
    <2>2. [start |-> t.start, length |-> i - t.start] \in Span
      BY <2>1 DEF Span
    <2>3. Append(t.list, [start |-> t.start, length |-> i - t.start]) \in Seq(Span)
      BY <2>1, <2>2
    <2>4. Close(t, i) \in T
      BY <2>1, <2>3 DEF Close
    <2>5. [t EXCEPT !.start = i] \in T
      BY <2>1
    <2> QED
      BY <2>4, <2>5
  <1>6. base \in T
    <2>1. <<>> \in Seq(Span) /\ 0 \in Int
      OBVIOUS
    <2> QED
      BY <2>1
  <1> HIDE DEF T, base, domain
  <1>7. kept = [s \in SUBSET (1..n) |->
                  IF s = {} THEN base ELSE Step(kept[s \ {Max(s)}], domain[Max(s)])]
    <2>1. \A t \in T, x \in 1..n : step[<<t, x>>] = Step(t, x) /\ step[<<t, x>>] \in T
      <3> HIDE DEF Step
      <3> QED
        BY <1>5
    <2> HIDE DEF step, Step
    <2>5. \A t \in T, x \in 1..n : step[<<t, x>>] \in T
      BY <2>1
    <2>6. PICK table : Rows(table, n, T, base, step)
      <3>1. RowsWithin(n, T, base, step)
        BY <1>6, <2>5 DEF RowsWithin
      <3> QED
        BY <3>1, FoldRows
    <2>2. /\ table \in [SUBSET (1..n) -> T]
          /\ \A s \in SUBSET (1..n) :
               table[s] = IF s = {} THEN base ELSE step[<<table[s \ {Max(s)}], Max(s)>>]
      BY <2>6 DEF Rows
    <2>3. ASSUME NEW s \in SUBSET (1..n)
          PROVE  table[s] = IF s = {} THEN base ELSE Step(table[s \ {Max(s)}], domain[Max(s)])
      <3>1. s # {} => Max(s) \in 1..n /\ s \ {Max(s)} \in SUBSET (1..n)
        BY PrefixSteps
      <3>2. s # {} => table[s \ {Max(s)}] \in T
        BY <2>2, <3>1
      <3>3. table[s] = IF s = {} THEN base ELSE step[<<table[s \ {Max(s)}], Max(s)>>]
        BY <2>2
      <3>4. s # {} => step[<<table[s \ {Max(s)}], Max(s)>>] = Step(table[s \ {Max(s)}], Max(s))
        BY <2>1, <3>1, <3>2
      <3>5. s # {} => domain[Max(s)] = Max(s)
        BY <1>1, <3>1
      <3> QED
        BY <3>3, <3>4, <3>5
    <2>4. table = [s \in SUBSET (1..n) |->
                     IF s = {} THEN base ELSE Step(table[s \ {Max(s)}], domain[Max(s)])]
      <3> DEFINE row(s) == IF s = {} THEN base ELSE Step(table[s \ {Max(s)}], domain[Max(s)])
      <3>1. table \in [SUBSET (1..n) -> T] /\ \A s \in SUBSET (1..n) : table[s] = row(s)
        BY <2>2, <2>3
      <3> HIDE DEF row
      <3>2. table = [s \in SUBSET (1..n) |-> row(s)]
        BY <3>1
      <3> QED
        BY <3>2 DEF row
    <2> QED
      BY <1>1, <2>4
  <1> HIDE DEF kept, Step
  <1> DEFINE After(k) == kept[1..k]
             good == {k \in 0..n : Tracked(P, n, After(k), k)}
  <1>8. After(0) = base /\ \A k \in 1..n : After(k) = Step(After(k - 1), k)
    <2>1. After(0) = base
      BY <1>7, PrefixSteps
    <2>2. ASSUME NEW k \in 1..n
          PROVE  After(k) = Step(After(k - 1), k)
      <3>1. /\ 1..k \in SUBSET (1..n) /\ 1..k # {} /\ Max(1..k) = k
            /\ (1..k) \ {k} = 1..(k - 1)
        BY PrefixSteps
      <3>2. kept[1..k] = Step(kept[(1..k) \ {Max(1..k)}], domain[Max(1..k)])
        BY <1>7, <3>1
      <3> QED
        BY <1>1, <3>1, <3>2
    <2> QED
      BY <2>1, <2>2
  <1> HIDE DEF After
  <1>9. 0 \in good
    <2>1. /\ base.start = 0 /\ base.list = <<>> /\ Len(<<>>) = 0 /\ 1..0 = {}
          /\ base \in [start : Int, list : Seq(Span)]
      BY <1>6 DEF base, T
    <2>2. 0 \notin P /\ \A b \in 1..n : ~(b < 0)
      OBVIOUS
    <2>3. Tracked(P, n, base, 0)
      BY <2>1, <2>2 DEF Tracked
    <2> QED
      BY <1>8, <2>3
  <1>10. ASSUME NEW k \in 1..n, k - 1 \in good
         PROVE  k \in good
    <2>1. Tracked(P, n, After(k - 1), k - 1) /\ k \in 1..(n + 1) /\ k \in 0..n
      BY <1>10
    <2>2. After(k - 1) \in T
      BY <2>1 DEF Tracked, T
    <2>3. After(k) = Advance(P, After(k - 1), k)
      BY <1>4, <1>8, <2>2
    <2>4. P \in SUBSET (1..n)
      OBVIOUS
    <2>5. Tracked(P, n, Advance(P, After(k - 1), k), k)
      BY <2>1, <2>4, ValueTracked
    <2> QED
      BY <2>1, <2>3, <2>5
  <1>11. Tracked(P, n, After(n), n)
    <2>1. n \in 0..n
      OBVIOUS
    <2>2. n \in good
      <3> HIDE DEF good
      <3> QED
        BY <1>9, <1>10, <2>1, PrefixInduction
    <2> QED
      BY <2>2
  <1>12. Tracked(P, n, Advance(P, After(n), n + 1), n + 1)
    <2> DEFINE k == n + 1
    <2>1. k \in 1..(n + 1) /\ k - 1 = n /\ P \in SUBSET (1..n)
      OBVIOUS
    <2> HIDE DEF k
    <2>2. Tracked(P, n, After(n), k - 1)
      BY <1>11, <2>1
    <2>3. Tracked(P, n, Advance(P, After(n), k), k)
      BY <2>1, <2>2, ValueTracked
    <2> QED
      BY <2>3 DEF k
  <1>13. Advance(P, After(n), n + 1) = Close(After(n), n + 1)
    <2>1. n + 1 \notin P
      OBVIOUS
    <2> QED
      BY <2>1 DEF Advance
  <1>14. Close(After(n), n + 1) = [start |-> 0, list |-> Close(After(n), n + 1).list]
    <2>1. After(n) = [start |-> After(n).start, list |-> After(n).list]
      BY <1>11 DEF Tracked
    <2> QED
      BY <2>1 DEF Close
  <1>15. Incidents(metric, values) = Close(After(n), n + 1).list
    BY <1>1, <1>3 DEF After
  <1> QED
    BY <1>12, <1>13, <1>14, <1>15

Runs(P, n) == {r \in (1..n) \X (1..n) : IsRun(P, r[1], r[2])}

\* The stretches of a metric are the runs of its breaching positions.
LEMMA StretchesAreRuns ==
  ASSUME NEW metric, NEW n \in Nat, NEW values, values = [i \in 1..n |-> values[i]],
         NEW P, P = {k \in 1..n : Breaches(metric, values[k])}
  PROVE  Stretches(metric, values) = Runs(P, n)
  <1> DEFINE Breaching(k) == Breaches(metric, values[k])
             Ends(i) == {j \in i..n : /\ \A k \in i..j : Breaching(k)
                                      /\ i > 1 => ~Breaching(i - 1)
                                      /\ j < n => ~Breaching(j + 1)}
  <1>1. DOMAIN values = 1..n /\ Len(values) = n
    BY IsSequence
  <1>2. Stretches(metric, values) = UNION {{<<i, j>> : j \in Ends(i)} : i \in 1..n}
    BY <1>1 DEF Stretches
  <1>3. \A k \in 1..n : k \in P <=> Breaching(k)
    OBVIOUS
  <1>4. P \subseteq 1..n
    OBVIOUS
  <1> HIDE DEF Breaching
  <1>5. ASSUME NEW i \in 1..n, NEW j \in 1..n
        PROVE  j \in Ends(i) <=> IsRun(P, i, j)
    <2>1. i \in Int /\ j \in Int
      OBVIOUS
    <2>2. j \in Ends(i) <=> /\ i <= j /\ \A k \in i..j : Breaching(k)
                            /\ i > 1 => ~Breaching(i - 1)
                            /\ j < n => ~Breaching(j + 1)
      BY <2>1
    <2>3. (i > 1 => ~Breaching(i - 1)) <=> i - 1 \notin P
      <3>1. CASE i > 1
        <4>1. i - 1 \in 1..n
          BY <2>1, <3>1
        <4> QED
          BY <1>3, <3>1, <4>1
      <3>2. CASE ~(i > 1)
        <4>1. i - 1 \notin 1..n
          BY <2>1, <3>2
        <4> QED
          BY <1>4, <3>2, <4>1
      <3> QED
        BY <3>1, <3>2
    <2>4. (j < n => ~Breaching(j + 1)) <=> j + 1 \notin P
      <3>1. CASE j < n
        <4>1. j + 1 \in 1..n
          BY <2>1, <3>1
        <4> QED
          BY <1>3, <3>1, <4>1
      <3>2. CASE ~(j < n)
        <4>1. j + 1 \notin 1..n
          BY <2>1, <3>2
        <4> QED
          BY <1>4, <3>2, <4>1
      <3> QED
        BY <3>1, <3>2
    <2>5. (\A k \in i..j : Breaching(k)) <=> i..j \subseteq P
      <3>1. \A k \in i..j : k \in 1..n
        BY <2>1
      <3> QED
        BY <1>3, <3>1
    <2> QED
      BY <2>2, <2>3, <2>4, <2>5 DEF IsRun
  <1>6. \A i \in 1..n : Ends(i) \subseteq 1..n
    OBVIOUS
  <1> HIDE DEF Ends
  <1>7. Stretches(metric, values) = {r \in (1..n) \X (1..n) : r[2] \in Ends(r[1])}
    BY <1>2, <1>6
  <1> QED
    BY <1>5, <1>7 DEF Runs

\* Every breaching position is in a run.
LEMMA RunsCover ==
  ASSUME NEW n \in Nat, NEW P \in SUBSET (1..n)
  PROVE  UNION {r[1]..r[2] : r \in Runs(P, n)} = P
  <1>1. ASSUME NEW k \in P
        PROVE  \E r \in Runs(P, n) : k \in r[1]..r[2]
    <2> DEFINE A == {a \in 1..n : a <= k /\ a..k \subseteq P}
               B == {b \in 1..n : k <= b /\ k..b \subseteq P}
    <2>1. k \in 1..n /\ k \in Int /\ k \in A /\ k \in B
      <3>1. k \in 1..n /\ k \in Int
        OBVIOUS
      <3>2. k..k = {k}
        BY <3>1
      <3> QED
        BY <3>1, <3>2
    <2>2. PICK a \in A : \A x \in A : a <= x
      <3>1. A \in SUBSET Nat /\ A # {}
        BY <2>1
      <3> HIDE DEF A
      <3> QED
        BY <3>1, LeastExists
    <2>3. PICK b \in B : \A x \in B : x <= b
      <3>1. B \in SUBSET (1..n) /\ B # {}
        BY <2>1
      <3> HIDE DEF B
      <3> QED
        BY <3>1, LastExists
    <2>4. a \in 1..n /\ a \in Int /\ a <= k /\ a..k \subseteq P
      BY <2>2
    <2>5. b \in 1..n /\ b \in Int /\ k <= b /\ k..b \subseteq P
      BY <2>3
    <2>6. a..b \subseteq P
      <3>1. a..b \subseteq (a..k) \cup (k..b)
        BY <2>1, <2>4, <2>5
      <3> QED
        BY <2>4, <2>5, <3>1
    <2>7. a - 1 \notin P
      <3> SUFFICES ASSUME a - 1 \in P
                   PROVE  FALSE
        OBVIOUS
      <3>1. (a - 1)..k \subseteq (a..k) \cup {a - 1} /\ a - 1 \in 1..n /\ a - 1 <= k
        BY <2>1, <2>4
      <3>2. a - 1 \in A
        BY <2>4, <3>1
      <3>3. a <= a - 1
        BY <2>2, <3>2
      <3> QED
        BY <2>4, <3>3
    <2>8. b + 1 \notin P
      <3> SUFFICES ASSUME b + 1 \in P
                   PROVE  FALSE
        OBVIOUS
      <3>1. k..(b + 1) \subseteq (k..b) \cup {b + 1} /\ b + 1 \in 1..n /\ k <= b + 1
        BY <2>1, <2>5
      <3>2. b + 1 \in B
        BY <2>5, <3>1
      <3>3. b + 1 <= b
        BY <2>3, <3>2
      <3> QED
        BY <2>5, <3>3
    <2>9. <<a, b>> \in Runs(P, n) /\ k \in a..b
      <3>1. a <= b
        BY <2>1, <2>4, <2>5
      <3> QED
        BY <2>1, <2>4, <2>5, <2>6, <2>7, <2>8, <3>1 DEF Runs, IsRun
    <2> QED
      BY <2>9
  <1>2. \A r \in Runs(P, n) : r[1]..r[2] \subseteq P
    BY DEF Runs, IsRun
  <1> QED
    BY <1>1, <1>2

\* The incidents that are reported are the first three by length.
LongestFirst(order, incidents) ==
  /\ order \in [1..Len(incidents) -> 1..Len(incidents)]
  /\ \A i, j \in 1..Len(incidents) : order[i] = order[j] => i = j
  /\ \A i \in 1..Len(incidents) : \E j \in 1..Len(incidents) : order[j] = i
  /\ \A i, j \in 1..Len(incidents) :
       i < j => incidents[order[j]].length <= incidents[order[i]].length
  /\ TopIncidents(incidents) = [i \in 1..Min({3, Len(incidents)}) |-> incidents[order[i]]]
LEMMA LongestReported ==
  ASSUME NEW incidents \in Seq(Span)
  PROVE  \E order : LongestFirst(order, incidents)
  <1> DEFINE n == Len(incidents)
             D == DOMAIN incidents
             size(i) == incidents[i].length
             Before(i, j) == \/ size(i) > size(j)
                             \/ size(i) = size(j) /\ i < j
             earlier(x) == {y \in D : Before(y, x)}
             R == {p \in (1..n) \X (1..n) : Before(p[1], p[2])}
             place(i) == CHOOSE x \in D : Cardinality(earlier(x)) = i - 1
             order == [i \in 1..Cardinality(D) |-> place(i)]
  <1>1. n \in Nat /\ D = 1..n /\ \A i \in 1..n : i \in Int
    OBVIOUS
  <1>2. IsFiniteSet(1..n) /\ Cardinality(1..n) = n
    BY <1>1, PositionsCounted
  <1>3. \A i \in 1..n : size(i) \in Int
    <2> TAKE i \in 1..n
    <2>1. incidents[i] \in Span
      BY <1>1
    <2> QED
      BY <2>1 DEF Span
  <1>9. TopIncidents(incidents) = [i \in 1..Min({3, Len(order)}) |-> incidents[order[i]]]
    BY DEF TopIncidents, Ordered
  <1>7. order = [i \in 1..Cardinality(D) |-> order[i]]
    <2> HIDE DEF place
    <2> QED
      OBVIOUS
  <1>8. \A i \in 1..Cardinality(D) : order[i] = CHOOSE x \in D : Cardinality(earlier(x)) = i - 1
    OBVIOUS
  <1> HIDE DEF n, size, place, order, D
  <1>4. \A x, y \in 1..n : <<x, y>> \in R <=> Before(x, y)
    OBVIOUS
  <1>5. StrictOrder(1..n, R)
    <2> HIDE DEF R
    <2>1. \A x \in 1..n : ~Before(x, x)
      BY <1>1, <1>3
    <2>2. \A x, y \in 1..n : x # y => Before(x, y) \/ Before(y, x)
      <3> TAKE x \in 1..n, y \in 1..n
      <3>1. size(x) \in Int /\ size(y) \in Int /\ x \in Int /\ y \in Int
        BY <1>1, <1>3
      <3> QED
        BY <3>1
    <2>3. \A x, y, z \in 1..n : Before(x, y) /\ Before(y, z) => Before(x, z)
      BY <1>1, <1>3
    <2> HIDE DEF Before
    <2> QED
      BY <1>4, <2>1, <2>2, <2>3 DEF StrictOrder
  <1>6. \A x \in 1..n : Preceding(1..n, R, x) = earlier(x)
    <2> HIDE DEF R, Before
    <2> QED
      BY <1>1, <1>4 DEF Preceding
  <1> HIDE DEF R, earlier
  <1>10. \A i \in 1..n : order[i] \in 1..n /\ Cardinality(Preceding(1..n, R, order[i])) = i - 1
    <2> TAKE i \in 1..n
    <2>3. i \in 1..Cardinality(1..n)
      BY <1>2
    <2>4. PICK y \in 1..n : Cardinality(Preceding(1..n, R, y)) = i - 1
      BY <1>2, <1>5, <2>3, MembersRanked
    <2>1. PICK x \in 1..n : Cardinality(earlier(x)) = i - 1
      BY <1>6, <2>4
    <2>2. order[i] \in 1..n /\ Cardinality(earlier(order[i])) = i - 1
      BY <1>1, <1>2, <1>8, <2>1
    <2> QED
      BY <1>6, <2>2
  <1>11. /\ order \in [1..n -> 1..n]
         /\ \A x \in 1..n : \E i \in 1..n : order[i] = x
         /\ \A i, j \in 1..n : order[i] = order[j] => i = j
         /\ \A i, j \in 1..n : i < j <=> <<order[i], order[j]>> \in R
    <2> DEFINE S == 1..n
    <2>1. D = S /\ IsFiniteSet(S) /\ Cardinality(S) = n /\ StrictOrder(S, R)
      BY <1>1, <1>2, <1>5
    <2>2. order = [i \in 1..Cardinality(S) |-> order[i]]
      BY <1>7, <2>1
    <2>3. \A i \in 1..Cardinality(S) : order[i] \in S /\ Cardinality(Preceding(S, R, order[i])) = i - 1
      BY <1>10, <2>1
    <2> HIDE DEF S
    <2>4. RankedList(order, S, R)
      BY <2>2, <2>3 DEF RankedList
    <2>5. /\ order \in [1..Cardinality(S) -> S]
          /\ \A i, j \in 1..Cardinality(S) : order[i] = order[j] => i = j
          /\ \A x \in S : \E i \in 1..Cardinality(S) : order[i] = x
          /\ \A i, j \in 1..Cardinality(S) : i < j <=> <<order[i], order[j]>> \in R
      <3> HIDE DEF D, R, order
      <3> QED
        BY <2>1, <2>4, ListedByRank
    <2> QED
      BY <2>1, <2>5 DEF S
  <1>12. \A i, j \in 1..n : i < j => size(order[j]) <= size(order[i])
    <2> TAKE i \in 1..n, j \in 1..n
    <2>1. order[i] \in 1..n /\ order[j] \in 1..n
      BY <1>11
    <2>2. i < j => Before(order[i], order[j])
      BY <1>4, <1>11, <2>1
    <2>3. size(order[i]) \in Int /\ size(order[j]) \in Int
      BY <1>3, <2>1
    <2> QED
      BY <2>2, <2>3
  <1>13. Len(order) = n
    BY <1>1, <1>11
  <1>14. LongestFirst(order, incidents)
    BY <1>9, <1>11, <1>12, <1>13 DEF n, size, LongestFirst
  <1> QED
    BY <1>14

\* The incidents reported are the longest three runs.
LEMMA ReportedAreRuns ==
  ASSUME NEW n \in Nat, NEW P \in SUBSET (1..n), NEW incidents,
         Tracked(P, n, [start |-> 0, list |-> incidents], n + 1)
  PROVE  LET listed == {<<x.start, x.start + x.length - 1>> : x \in Range(TopIncidents(incidents))}
         IN /\ listed \subseteq Runs(P, n)
            /\ Cardinality(listed) = Min({3, Cardinality(Runs(P, n))})
            /\ \A l \in listed, r \in Runs(P, n) \ listed : r[2] - r[1] <= l[2] - l[1]
  <1> DEFINE m == Len(incidents)
             ends == [i \in 1..m |-> <<incidents[i].start,
                                       incidents[i].start + incidents[i].length - 1>>]
             runs == Runs(P, n)
             top == TopIncidents(incidents)
             listed == {<<x.start, x.start + x.length - 1>> : x \in Range(top)}
             q == Min({3, m})
  <1>1. incidents \in Seq(Span) /\ m \in Nat /\ DOMAIN incidents = 1..m
    <2>1. incidents \in Seq(Span)
      BY DEF Tracked
    <2> QED
      BY <2>1
  <1>2. \A i \in 1..m :
          /\ incidents[i].start \in Int /\ incidents[i].length \in Int
          /\ ends[i] = <<incidents[i].start, incidents[i].start + incidents[i].length - 1>>
    <2> TAKE i \in 1..m
    <2>1. incidents[i] \in Span
      BY <1>1
    <2> QED
      BY <2>1 DEF Span
  <1>3. \A i \in 1..m : ends[i] \in runs
    <2> TAKE i \in 1..m
    <2>1. /\ incidents[i].start \in 1..n /\ incidents[i].start + incidents[i].length - 1 \in 1..n
          /\ IsRun(P, incidents[i].start, incidents[i].start + incidents[i].length - 1)
      BY <1>1 DEF Tracked
    <2> QED
      BY <2>1 DEF Runs
  <1>4. \A r \in runs : \E i \in 1..m : ends[i] = r
    <2> TAKE r \in runs
    <2>1. r = <<r[1], r[2]>> /\ r[1] \in 1..n /\ r[2] \in 1..n /\ IsRun(P, r[1], r[2])
      BY DEF Runs
    <2>2. r[2] < n + 1
      BY <2>1
    <2>3. PICK i \in 1..m : /\ incidents[i].start = r[1]
                            /\ r[1] + incidents[i].length - 1 = r[2]
      <3>1. \A a, b \in 1..n : b < n + 1 /\ IsRun(P, a, b) =>
              \E i \in 1..m : incidents[i].start = a /\ a + incidents[i].length - 1 = b
        BY DEF Tracked
      <3> QED
        BY <2>1, <2>2, <3>1
    <2>4. ends[i] = <<r[1], r[2]>>
      BY <1>2, <2>3
    <2> QED
      BY <2>1, <2>4
  <1>5. \A i, j \in 1..m : ends[i] = ends[j] => i = j
    <2>1. \A i, j \in 1..m : incidents[i].start = incidents[j].start => i = j
      BY <1>1 DEF Tracked
    <2> QED
      BY <1>2, <2>1
  <1>6. ends = [i \in 1..m |-> ends[i]]
    OBVIOUS
  <1> HIDE DEF m, ends, runs, top
  <1>7. Cardinality(runs) = m
    <2>1. ends \in Bijection(1..m, runs)
      BY <1>3, <1>4, <1>5, <1>6 DEF Bijection, Injection, Surjection, IsInjective
    <2>2. IsFiniteSet(1..m) /\ Cardinality(1..m) = m
      BY <1>1, PositionsCounted
    <2> QED
      BY <2>1, <2>2, FS_Bijection DEF ExistsBijection
  <1>8. PICK order : LongestFirst(order, incidents)
    BY <1>1, LongestReported
  <1>9. /\ order \in [1..m -> 1..m]
        /\ \A i, j \in 1..m : order[i] = order[j] => i = j
        /\ \A i \in 1..m : \E j \in 1..m : order[j] = i
        /\ \A i, j \in 1..m : i < j => incidents[order[j]].length <= incidents[order[i]].length
        /\ top = [i \in 1..q |-> incidents[order[i]]]
    BY <1>8 DEF LongestFirst, m, top
  <1>10. q \in Nat /\ q <= m /\ \A i \in 1..m : i \in Int
    BY <1>1, SmallerOfTwo
  <1> HIDE DEF q
  <1>11. \A i \in 1..q : i \in 1..m /\ order[i] \in 1..m /\ top[i] = incidents[order[i]]
    <2> TAKE i \in 1..q
    <2>1. i \in 1..m
      BY <1>1, <1>10
    <2>2. top[i] = incidents[order[i]]
      BY <1>9
    <2>3. order[i] \in 1..m
      BY <1>9, <2>1
    <2> QED
      BY <2>1, <2>2, <2>3
  <1>17. DOMAIN top = 1..q
    BY <1>9
  <1> DEFINE first == [i \in 1..q |-> ends[order[i]]]
  <1>12. listed = {first[i] : i \in 1..q}
    <2>1. Range(top) = {top[i] : i \in 1..q}
      BY <1>17 DEF Range
    <2>2. \A i \in 1..q : first[i] = <<incidents[order[i]].start,
                             incidents[order[i]].start + incidents[order[i]].length - 1>>
      BY <1>2, <1>11
    <2> HIDE DEF first
    <2>3. \A i \in 1..q : first[i] = <<top[i].start, top[i].start + top[i].length - 1>>
      BY <1>11, <2>2
    <2>4. listed = {<<top[i].start, top[i].start + top[i].length - 1>> : i \in 1..q}
      BY <2>1
    <2> QED
      BY <2>3, <2>4, Zenon
  <1>13. listed \subseteq runs
    <2>1. \A i \in 1..q : first[i] \in runs
      BY <1>3, <1>11
    <2> HIDE DEF first, listed
    <2> QED
      BY <1>12, <2>1
  <1>14. Cardinality(listed) = q
    <2>1. \A i, j \in 1..q : first[i] = first[j] => i = j
      BY <1>5, <1>9, <1>11
    <2>2. first = [i \in 1..q |-> first[i]]
      OBVIOUS
    <2> HIDE DEF first, listed
    <2>3. first \in Bijection(1..q, listed)
      BY <1>12, <2>1, <2>2 DEF Bijection, Injection, Surjection, IsInjective
    <2>4. IsFiniteSet(1..q) /\ Cardinality(1..q) = q
      BY <1>10, PositionsCounted
    <2> QED
      BY <2>3, <2>4, FS_Bijection DEF ExistsBijection
  <1>15. ASSUME NEW l \in listed, NEW r \in runs \ listed
         PROVE  r[2] - r[1] <= l[2] - l[1]
    <2>1. PICK i \in 1..q : l = first[i]
      BY <1>12
    <2>2. PICK x \in 1..m : r = ends[x]
      BY <1>4
    <2>3. PICK j \in 1..m : order[j] = x
      BY <1>9
    <2>4. j \notin 1..q
      <3> SUFFICES ASSUME j \in 1..q
                   PROVE  FALSE
        OBVIOUS
      <3>1. r = first[j]
        BY <2>2, <2>3
      <3> HIDE DEF first, listed
      <3> QED
        BY <1>12, <3>1
    <2>5. i < j
      BY <1>10, <1>11, <2>4
    <2>6. incidents[order[j]].length <= incidents[order[i]].length
      BY <1>9, <1>11, <2>5
    <2>7. /\ l = <<incidents[order[i]].start,
                   incidents[order[i]].start + incidents[order[i]].length - 1>>
          /\ incidents[order[i]].start \in Int /\ incidents[order[i]].length \in Int
      BY <1>2, <1>11, <2>1
    <2>8. /\ r = <<incidents[order[j]].start,
                   incidents[order[j]].start + incidents[order[j]].length - 1>>
          /\ incidents[order[j]].start \in Int /\ incidents[order[j]].length \in Int
      BY <1>2, <2>2, <2>3
    <2>9. l[2] - l[1] = incidents[order[i]].length - 1
      BY <2>7
    <2>10. r[2] - r[1] = incidents[order[j]].length - 1
      BY <2>8
    <2> QED
      BY <2>6, <2>7, <2>8, <2>9, <2>10
  <1>16. Cardinality(listed) = Min({3, Cardinality(runs)})
    BY <1>7, <1>14 DEF q
  <1> QED
    BY <1>13, <1>15, <1>16 DEF runs, top

\* What IncidentsAreRuns says of one metric.
RunsReported(metric, points, breach) ==
  LET runs == Stretches(metric, [i \in DOMAIN points |-> points[i].value])
      listed == {<<x.start, x.start + x.length - 1>> : x \in Range(breach.incidents)}
  IN /\ listed \subseteq runs
     /\ Cardinality(listed) = Min({3, Cardinality(runs)})
     /\ \A l \in listed, r \in runs \ listed : r[2] - r[1] <= l[2] - l[1]
     /\ breach.minutes = PeriodMinutes * Cardinality(UNION {r[1]..r[2] : r \in runs})

\* It holds of the breach of any list of points.
LEMMA BreachReported ==
  ASSUME NEW metric, NEW n \in Nat, NEW points, DOMAIN points = 1..n
  PROVE  RunsReported(metric, points, BreachOf(metric, points))
  <1> DEFINE values == [i \in DOMAIN points |-> points[i].value]
             P == {k \in 1..n : Breaches(metric, values[k])}
             incidents == Incidents(metric, values)
             breach == BreachOf(metric, points)
  <1>1. /\ breach.minutes = PeriodMinutes * Cardinality({k \in DOMAIN values : Breaches(metric, values[k])})
        /\ breach.incidents = TopIncidents(incidents)
    BY DEF BreachOf
  <1>2. values = [i \in 1..n |-> values[i]] /\ DOMAIN values = 1..n
    OBVIOUS
  <1> HIDE DEF values, breach
  <1>3. breach.minutes = PeriodMinutes * Cardinality(P)
    BY <1>1, <1>2
  <1>4. Tracked(P, n, [start |-> 0, list |-> incidents], n + 1)
    BY <1>2, IncidentsFound
  <1>5. Stretches(metric, values) = Runs(P, n)
    BY <1>2, StretchesAreRuns
  <1>6. P \in SUBSET (1..n)
    OBVIOUS
  <1> HIDE DEF P, incidents
  <1>7. UNION {r[1]..r[2] : r \in Runs(P, n)} = P
    BY <1>6, RunsCover
  <1> DEFINE listed == {<<x.start, x.start + x.length - 1>> : x \in Range(breach.incidents)}
  <1>8. /\ listed \subseteq Runs(P, n)
        /\ Cardinality(listed) = Min({3, Cardinality(Runs(P, n))})
        /\ \A l \in listed, r \in Runs(P, n) \ listed : r[2] - r[1] <= l[2] - l[1]
    BY <1>1, <1>4, <1>6, ReportedAreRuns
  <1>9. RunsReported(metric, points, breach)
    <2> HIDE DEF listed
    <2>1. /\ listed \subseteq Stretches(metric, values)
          /\ Cardinality(listed) = Min({3, Cardinality(Stretches(metric, values))})
          /\ \A l \in listed, r \in Stretches(metric, values) \ listed : r[2] - r[1] <= l[2] - l[1]
      BY <1>5, <1>8
    <2>2. breach.minutes
            = PeriodMinutes * Cardinality(UNION {r[1]..r[2] : r \in Stretches(metric, values)})
      BY <1>3, <1>5, <1>7
    <2> QED
      BY <2>1, <2>2, Zenon DEF RunsReported, listed, values
  <1> QED
    BY <1>9 DEF breach

\* The values a breach is measured on are a list.
LEMMA BreachPointsListed ==
  ASSUME NEW raw, IsStored(raw), NEW c, NEW m
  PROVE  \E n \in Nat : DOMAIN BreachPoints(Normalize(raw, c), m) = 1..n
  <1> DEFINE normalized == Normalize(raw, c)
             n == Len(raw.nodes)
             SeriesFrom(node) == PreferredOf(node, m, PeakFirst)
             lists == [i \in DOMAIN normalized.nodes |-> SeriesFrom(normalized.nodes[i])]
             dates == [i \in DOMAIN normalized.nodes |->
                         Times(normalized, SeriesFrom(normalized.nodes[i]))]
             points == BreachPoints(normalized, m)
  <1>1. /\ n \in Nat /\ normalized.nodes = [i \in 1..n |-> normalized.nodes[i]]
        /\ \A i \in 1..n : SeriesIn(normalized.nodes[i].series)
    BY ClusterSeries
  <1>2. points = Zipped(FlattenSeq(dates), FlattenSeq(lists))
    BY DEF BreachPoints, Preferred, Concatenated
  <1> HIDE DEF normalized, n, points
  <1>3. DOMAIN normalized.nodes = 1..n
    BY <1>1
  <1>4. ASSUME NEW i \in 1..n
        PROVE  lists[i] \in Seq(Range(lists[i]))
    <2> DEFINE node == normalized.nodes[i]
               stat == FirstStat(node, m, PeakFirst)[1]
               series == SeriesOf(node, m, stat)
    <2>1. lists[i] = PreferredOf(node, m, PeakFirst)
      BY <1>3
    <2>2. SeriesIn(node.series)
      BY <1>1
    <2> HIDE DEF node, stat
    <2>3. series \in Seq(Range(series))
      <3>1. CASE HasSeries(node, m, stat)
        BY <2>2, <3>1 DEF SeriesIn, SeriesOf, HasSeries
      <3>2. CASE ~HasSeries(node, m, stat)
        <4>1. series = <<>>
          BY <3>2 DEF SeriesOf
        <4> HIDE DEF series
        <4>2. <<>> \in Seq(Range(<<>>))
          OBVIOUS
        <4> QED
          BY <4>1, <4>2
      <3> QED
        BY <3>1, <3>2
    <2>4. lists[i] = <<>> \/ lists[i] = series
      BY <2>1 DEF PreferredOf, stat
    <2>5. <<>> \in Seq(Range(<<>>))
      OBVIOUS
    <2> HIDE DEF lists, series
    <2> QED
      BY <2>3, <2>4, <2>5
  <1>5. lists = [i \in 1..n |-> lists[i]]
    BY <1>3
  <1> HIDE DEF lists, dates
  <1>6. FlattenSeq(lists) \in Seq(Range(FlattenSeq(lists)))
    BY <1>1, <1>4, <1>5, ListsFlattened
  <1> DEFINE flat == FlattenSeq(lists)
  <1> HIDE DEF flat
  <1>7. flat \in Seq(Range(flat))
    BY <1>6 DEF flat
  <1>8. DOMAIN flat = 1..Len(flat) /\ Len(flat) \in Nat
    BY <1>7
  <1>9. DOMAIN points = DOMAIN flat
    BY <1>2 DEF Zipped, flat
  <1> QED
    BY <1>8, <1>9 DEF normalized, points

-----------------------------------------------------------------------------
(* What is kept and written are results                                    *)

\* What is kept of a cluster with metrics is what its models computed.
IsResult(id, kept) ==
  /\ metricsFile \notin BadMetrics /\ id \in DOMAIN metricsFile /\ metricsFile[id] # Absent
  /\ \A m \in ModelNames :
       \/ kept.outputs[m] = Absent \/ m = "workload"
       \/ kept.outputs[m] = ResultOf(m, Normalize(metricsFile[id], InventoryRecord(id)),
                                     InventoryRecord(id))
ResultsKept(kept) == \A id \in DOMAIN kept : IsResult(id, kept[id])
ResultsInvariant ==
  /\ AnalysisInvariant /\ ResultsKept(analyzed)
  /\ analysisFile # Absent => ResultsKept(analysisFile)

\* Nothing is kept at the start,
LEMMA ResultsInvariantInit ==
  ASSUME inventory \in Inventories, metricsFile \in MetricsFiles, AnalyzeInit
  PROVE  ResultsInvariant
  <1>1. analyzed = [id \in {} |-> Absent] /\ analysisFile = Absent
    BY DEF AnalyzeInit
  <1>2. DOMAIN analyzed = {}
    BY <1>1
  <1> QED
    BY <1>1, <1>2, AnalysisInvariantInit DEF ResultsInvariant, ResultsKept

\* results stay results while the files do,
LEMMA ResultsUnchanged ==
  ASSUME UNCHANGED <<metricsFile, inventory>>
  PROVE  \A id, kept : IsResult(id, kept) => IsResult(id, kept)'
  <1>1. \A id : InventoryRecord(id)' = InventoryRecord(id)
    BY DEF InventoryRecord, Records
  <1> QED
    BY <1>1 DEF IsResult

\* and what the models of a cluster left is what is kept.
LEMMA ResultsInvariantNext ==
  ASSUME ResultsInvariant, [AnalyzeNext]_<<inventory, analyzeVars>>
  PROVE  ResultsInvariant'
  <1>1. AnalysisInvariant' /\ AnalysisInvariant
    BY AnalysisInvariantNext DEF ResultsInvariant
  <1>2. CASE UNCHANGED <<metricsFile, inventory, analyzed, analysisFile>>
    BY <1>1, <1>2, ResultsUnchanged DEF ResultsInvariant, ResultsKept
  <1>3. CASE RefuseInput \/ ShardMissing \/ StartCluster \/ ModelSucceeds \/ ModelRaises
             \/ ModelSkipped \/ WriteAnalysisFails
    BY <1>2, <1>3
    DEF RefuseInput, ShardMissing, StartCluster, ModelSucceeds, ModelRaises, ModelSkipped,
        ModelFails, WriteAnalysisFails, NoRun, analysisInputs
  <1>4. CASE WriteAnalysis
    <2>1. UNCHANGED <<metricsFile, inventory, analyzed>> /\ analysisFile' = analyzed
      BY <1>4 DEF WriteAnalysis, NoRun, analysisInputs
    <2> QED
      BY <1>1, <2>1, ResultsUnchanged DEF ResultsInvariant, ResultsKept
  <1>5. CASE KeepFindings \/ GeneratorRaises
    <2>1. /\ UNCHANGED <<metricsFile, inventory, analysisFile>> /\ cluster # Absent
          /\ \E findings, errors : analyzed' = Kept(findings, errors)
      BY <1>5 DEF KeepFindings, GeneratorRaises, FinishCluster, analysisInputs
    <2>2. PICK findings, errors : analyzed' = Kept(findings, errors)
      BY <2>1
    <2> DEFINE kept == [outputs |-> outputs, findings |-> findings, errors |-> errors]
    <2>3. /\ DOMAIN analyzed' = DOMAIN analyzed \cup {cluster}
          /\ analyzed'[cluster] = kept
          /\ \A id \in DOMAIN analyzed : id # cluster => analyzed'[id] = analyzed[id]
      BY <2>2 DEF Kept
    <2>4. kept.outputs = outputs
      OBVIOUS
    <2> HIDE DEF kept
    <2>5. IsResult(cluster, kept)
      BY <1>1, <2>1, <2>4
      DEF AnalysisInvariant, UnderAnalysis, ResultsSoFar, Compute, IsResult
    <2>6. \A id \in DOMAIN analyzed' : IsResult(id, analyzed'[id])
      BY <2>3, <2>5 DEF ResultsInvariant, ResultsKept
    <2>7. \A id, k : IsResult(id, k) => IsResult(id, k)'
      BY <2>1, ResultsUnchanged
    <2>8. ResultsKept(analyzed)'
      BY <2>6, <2>7 DEF ResultsKept
    <2> QED
      BY <1>1, <2>1, <2>7, <2>8 DEF ResultsInvariant, ResultsKept
  <1>6. CASE UNCHANGED <<inventory, analyzeVars>>
    BY <1>2, <1>6 DEF analyzeVars
  <1> QED
    BY <1>3, <1>4, <1>5, <1>6, Zenon DEF AnalyzeNext

\* A breach that is kept reports runs.
LEMMA KeptBreach ==
  ASSUME metricsFile \in MetricsFiles, NEW id, NEW kept, IsResult(id, kept),
         kept.outputs["breach"] # Absent, NEW m \in DOMAIN kept.outputs["breach"]
  PROVE  RunsReported(m, BreachPoints(Normalize(metricsFile[id], InventoryRecord(id)), m),
                      kept.outputs["breach"][m])
  <1> DEFINE c == InventoryRecord(id)
             normalized == Normalize(metricsFile[id], c)
             breaches == kept.outputs["breach"]
             points == BreachPoints(normalized, m)
  <1>1. "breach" \in ModelNames
    <2>1. Models[5] = "breach" /\ 5 \in DOMAIN Models
      BY DEF Models
    <2> QED
      BY <2>1 DEF ModelNames, Range
  <1>2. breaches = ResultOf("breach", normalized, c)
    BY <1>1 DEF IsResult
  <1> HIDE DEF normalized, c
  <1>3. breaches = BreachModel(normalized, c)
    BY <1>2 DEF ResultOf
  <1>4. breaches[m] = BreachOf(m, points)
    BY <1>3 DEF BreachModel
  <1>5. IsStored(metricsFile[id])
    BY MetricsFilesAssumption DEF IsResult, BadMetrics
  <1>6. \E n \in Nat : DOMAIN points = 1..n
    BY <1>5, BreachPointsListed DEF normalized
  <1> HIDE DEF points, breaches
  <1>7. RunsReported(m, points, BreachOf(m, points))
    BY <1>6, BreachReported
  <1> QED
    BY <1>4, <1>7 DEF points, breaches, normalized, c

LEMMA ResultsAreRuns == ResultsInvariant => IncidentsAreRuns
  <1> SUFFICES ASSUME ResultsInvariant
               PROVE  IncidentsAreRuns
    OBVIOUS
  <1>1. \A id \in DOMAIN analyzed :
          analyzed[id].outputs["breach"] # Absent =>
            \A m \in DOMAIN analyzed[id].outputs["breach"] :
              RunsReported(m, BreachPoints(Normalize(metricsFile[id], InventoryRecord(id)), m),
                           analyzed[id].outputs["breach"][m])
    BY KeptBreach DEF ResultsInvariant, ResultsKept, AnalysisInvariant
  <1> QED
    BY <1>1, Zenon DEF IncidentsAreRuns, RunsReported

\* What is kept, in memory and in the file, is what the models computed.
LEMMA ResultsAreKept == AnalyzeSpec => []ResultsInvariant
  <1>1. inventory \in Inventories /\ metricsFile \in MetricsFiles /\ AnalyzeInit
          => ResultsInvariant
    BY ResultsInvariantInit
  <1>2. ResultsInvariant /\ [AnalyzeNext]_<<inventory, analyzeVars>> => ResultsInvariant'
    BY ResultsInvariantNext
  <1> QED
    BY <1>1, <1>2, PTL DEF AnalyzeSpec

\* The incidents Stage 3 reports are maximal stretches beyond the critical threshold,
\* the longest three, and no breaching value is left out of the minutes, for any
\* series, thresholds' outcome and number of clusters.
THEOREM IncidentsReported == AnalyzeSpec => []IncidentsAreRuns
  BY ResultsAreKept, ResultsAreRuns, PTL

-----------------------------------------------------------------------------
(* What the utilization window holds of the counters                       *)

\* A total of counts is no less than each of them.
LEMMA TotalCovers ==
  ASSUME NEW n \in Nat, NEW points, DOMAIN points = 1..n,
         \A i \in 1..n : points[i].value \in Nat
  PROVE  Total(points) \in Nat /\ \A i \in 1..n : points[i].value <= Total(points)
  <1> DEFINE Step(t, x) == t + points[x].value
             step == [p \in Nat \X (1..n) |-> Step(p[1], p[2])]
             sums == CHOOSE table : table = [s \in SUBSET (DOMAIN points) |->
                       IF s = {} THEN 0 ELSE Step(table[s \ {Max(s)}], Max(s))]
  <1>1. Total(points) = sums[DOMAIN points]
    BY DEF Total, FoldLeft, MapThenFoldSet
  <1>2. \A t \in Nat, x \in 1..n : Step(t, x) \in Nat
    OBVIOUS
  <1>3. sums = [s \in SUBSET (1..n) |-> IF s = {} THEN 0 ELSE Step(sums[s \ {Max(s)}], Max(s))]
    <2>1. \A t \in Nat, x \in 1..n : step[<<t, x>>] = Step(t, x) /\ step[<<t, x>>] \in Nat
      <3> HIDE DEF Step
      <3> QED
        BY <1>2
    <2> HIDE DEF step, Step
    <2>2. PICK table : Rows(table, n, Nat, 0, step)
      <3>1. RowsWithin(n, Nat, 0, step)
        BY <2>1 DEF RowsWithin
      <3> QED
        BY <3>1, FoldRows
    <2>3. /\ table \in [SUBSET (1..n) -> Nat]
          /\ \A s \in SUBSET (1..n) :
               table[s] = IF s = {} THEN 0 ELSE step[<<table[s \ {Max(s)}], Max(s)>>]
      BY <2>2 DEF Rows
    <2> DEFINE row(s) == IF s = {} THEN 0 ELSE Step(table[s \ {Max(s)}], Max(s))
    <2>4. ASSUME NEW s \in SUBSET (1..n)
          PROVE  table[s] = row(s)
      <3>1. s # {} => Max(s) \in 1..n /\ s \ {Max(s)} \in SUBSET (1..n)
        BY PrefixSteps
      <3>2. s # {} => table[s \ {Max(s)}] \in Nat
        BY <2>3, <3>1
      <3>3. s # {} => step[<<table[s \ {Max(s)}], Max(s)>>] = Step(table[s \ {Max(s)}], Max(s))
        BY <2>1, <3>1, <3>2
      <3> QED
        BY <2>3, <3>3
    <2> HIDE DEF row
    <2>5. table = [s \in SUBSET (1..n) |-> row(s)]
      BY <2>3, <2>4
    <2> QED
      BY <2>5 DEF row
  <1> HIDE DEF sums
  <1> DEFINE good == {k \in 0..n : /\ sums[1..k] \in Nat
                                   /\ \A i \in 1..k : points[i].value <= sums[1..k]}
  <1>4. 0 \in good
    <2>1. sums[1..0] = 0 /\ 1..0 = {}
      BY <1>3, PrefixSteps
    <2> QED
      BY <2>1
  <1>5. ASSUME NEW k \in 1..n, k - 1 \in good
        PROVE  k \in good
    <2> DEFINE before == sums[1..(k - 1)]
               v == points[k].value
    <2>1. before \in Nat /\ v \in Nat /\ \A i \in 1..(k - 1) : points[i].value <= before
      BY <1>5
    <2>2. sums[1..k] = before + v
      <3>1. /\ 1..k \in SUBSET (1..n) /\ 1..k # {} /\ Max(1..k) = k
            /\ (1..k) \ {k} = 1..(k - 1)
        BY PrefixSteps
      <3>2. sums[1..k] = Step(sums[(1..k) \ {Max(1..k)}], Max(1..k))
        BY <1>3, <3>1
      <3> QED
        BY <3>1, <3>2
    <2> HIDE DEF before
    <2>3. \A i \in 1..k : points[i].value <= before + v
      <3> TAKE i \in 1..k
      <3>1. i \in 1..n /\ points[i].value \in Nat
        OBVIOUS
      <3>2. CASE i = k
        BY <2>1, <3>2
      <3>3. CASE i # k
        <4>1. i \in 1..(k - 1)
          BY <3>3
        <4>2. points[i].value <= before
          BY <2>1, <4>1
        <4> QED
          BY <2>1, <3>1, <4>2
      <3> QED
        BY <3>2, <3>3
    <2> QED
      BY <2>1, <2>2, <2>3
  <1>6. n \in good
    <2>1. n \in 0..n
      OBVIOUS
    <2> HIDE DEF good
    <2> QED
      BY <1>4, <1>5, <2>1, PrefixInduction
  <1> QED
    BY <1>1, <1>6

PointOf(raw, i, m, k) == [at |-> DatesOn(raw, i, m)[k], value |-> SumsOn(raw, i, m)[k]]

\* A stored counter has a date for each of its values,
LEMMA CountersDated ==
  ASSUME NEW raw, IsStored(raw), NEW i \in DOMAIN raw.nodes, NEW m
  PROVE  /\ SumsOn(raw, i, m) \in Seq(Int \cup {Absent}) /\ DatesOn(raw, i, m) \in Seq(Nat)
         /\ Len(DatesOn(raw, i, m)) = Len(SumsOn(raw, i, m))
  <1> DEFINE node == raw.nodes[i]
             key == <<m, "Sum">>
  <1>1. \A k \in DOMAIN node.series :
          /\ node.series[k] \in Seq(Int \cup {Absent}) /\ node.measuredAt[k] \in Seq(Nat)
          /\ Len(node.measuredAt[k]) = Len(node.series[k])
    BY DEF IsStored
  <1>2. CASE key \in DOMAIN node.series
    <2>1. SumsOn(raw, i, m) = node.series[key] /\ DatesOn(raw, i, m) = node.measuredAt[key]
      BY <1>2 DEF SumsOn, DatesOn, SeriesOf, HasSeries
    <2> HIDE DEF node, key
    <2> QED
      BY <1>1, <1>2, <2>1
  <1>3. CASE key \notin DOMAIN node.series
    <2>1. SumsOn(raw, i, m) = <<>> /\ DatesOn(raw, i, m) = <<>>
      BY <1>3 DEF SumsOn, DatesOn, SeriesOf, HasSeries
    <2>2. <<>> \in Seq(Int \cup {Absent}) /\ <<>> \in Seq(Nat)
      OBVIOUS
    <2> QED
      BY <2>1, <2>2
  <1> QED
    BY <1>2, <1>3

\* and if the grid begins with these dates it is cut to them.
LEMMA GridCut ==
  ASSUME NEW grid \in Seq(Nat), NEW dates \in Seq(Nat), Len(dates) <= Len(grid),
         \A k \in DOMAIN dates : dates[k] = grid[k]
  PROVE  SubSeq(grid, 1, Min({Len(grid), Len(dates)})) = dates
  <1>1. Min({Len(grid), Len(dates)}) = Len(dates)
    <2>1. Len(grid) \in Int /\ Len(dates) \in Int
      OBVIOUS
    <2> QED
      BY <2>1, SmallerOfTwo
  <1> DEFINE cut == SubSeq(grid, 1, Len(dates))
  <1>2. cut \in Seq(Nat) /\ Len(cut) = Len(dates)
    OBVIOUS
  <1>3. \A k \in 1..Len(dates) : cut[k] = dates[k]
    OBVIOUS
  <1>4. SubSeq(grid, 1, Len(dates)) = dates
    <2> HIDE DEF cut
    <2>1. cut = [k \in 1..Len(dates) |-> cut[k]]
      BY <1>2
    <2>2. dates = [k \in 1..Len(dates) |-> dates[k]]
      OBVIOUS
    <2>3. [k \in 1..Len(dates) |-> cut[k]] = [k \in 1..Len(dates) |-> dates[k]]
      BY <1>3
    <2>4. cut = dates
      BY <2>1, <2>2, <2>3, Zenon
    <2> QED
      BY <2>4 DEF cut
  <1> DEFINE least == Min({Len(grid), Len(dates)})
  <1>5. least = Len(dates)
    BY <1>1
  <1> HIDE DEF cut, least
  <1>6. SubSeq(grid, 1, least) = dates
    BY <1>4, <1>5, Zenon
  <1> QED
    BY <1>6, Zenon DEF least

\* The counters a model reads of a cluster are those that were stored, each value with
\* the date it was measured at if all were measured on the grid.
LEMMA CountersCollected ==
  ASSUME NEW raw, IsStored(raw), OnGrid(raw), NEW c, NEW m \in TrafficCounters
  PROVE  LET points == Collect(Normalize(raw, c), m, "Sum")
         IN /\ points \in Seq(Range(points))
            /\ \A p \in Range(points) : \E i \in DOMAIN raw.nodes :
                 \E k \in DOMAIN SumsOn(raw, i, m) : p = PointOf(raw, i, m, k)
            /\ \A i \in DOMAIN raw.nodes : \A k \in DOMAIN SumsOn(raw, i, m) :
                 PointOf(raw, i, m, k) \in Range(points)
  <1> DEFINE normalized == Normalize(raw, c)
             n == Len(raw.nodes)
             key == <<m, "Sum">>
             SeriesFrom(node) == SeriesOf(node, m, "Sum")
             lists == [i \in DOMAIN normalized.nodes |-> SeriesFrom(normalized.nodes[i])]
             dates == [i \in DOMAIN normalized.nodes |->
                         Times(normalized, SeriesFrom(normalized.nodes[i]))]
             points == Collect(normalized, m, "Sum")
             a == FlattenSeq(dates)
             b == FlattenSeq(lists)
  <1>1. key[1] \notin DerivedMetrics \cup {"CacheHitRate"}
    BY DEF TrafficCounters, DerivedMetrics
  <1>2. /\ n \in Nat /\ DOMAIN raw.nodes = 1..n
        /\ normalized.nodes = [i \in 1..n |-> normalized.nodes[i]]
        /\ normalized.timestamps = raw.timestamps
        /\ \A i \in 1..n :
             /\ key \in DOMAIN normalized.nodes[i].series <=> key \in DOMAIN raw.nodes[i].series
             /\ key \in DOMAIN raw.nodes[i].series =>
                  normalized.nodes[i].series[key] = raw.nodes[i].series[key]
    <2> HIDE DEF key
    <2> QED
      BY <1>1, ClusterSeries
  <1>3. points = Zipped(a, b)
    BY DEF Collect, Concatenated
  <1> HIDE DEF normalized, n
  <1>4. \A i \in 1..n : SeriesOf(normalized.nodes[i], m, "Sum") = SumsOn(raw, i, m)
    BY <1>2 DEF SeriesOf, HasSeries, SumsOn
  <1>5. \A i \in 1..n :
          /\ SumsOn(raw, i, m) \in Seq(Int \cup {Absent}) /\ DatesOn(raw, i, m) \in Seq(Nat)
          /\ Len(DatesOn(raw, i, m)) = Len(SumsOn(raw, i, m))
    BY <1>2, CountersDated
  <1>6. \A i \in 1..n : Times(normalized, SumsOn(raw, i, m)) = DatesOn(raw, i, m)
    <2> TAKE i \in 1..n
    <2>1. /\ Len(DatesOn(raw, i, m)) <= Len(raw.timestamps)
          /\ \A k \in DOMAIN DatesOn(raw, i, m) : DatesOn(raw, i, m)[k] = raw.timestamps[k]
      BY <1>2 DEF OnGrid
    <2>2. raw.timestamps \in Seq(Nat)
      BY DEF IsStored
    <2>3. SubSeq(raw.timestamps, 1, Min({Len(raw.timestamps), Len(DatesOn(raw, i, m))}))
            = DatesOn(raw, i, m)
      BY <1>5, <2>1, <2>2, GridCut
    <2> QED
      BY <1>2, <1>5, <2>3 DEF Times
  <1>7. /\ lists = [i \in 1..n |-> SumsOn(raw, i, m)]
        /\ dates = [i \in 1..n |-> DatesOn(raw, i, m)]
    BY <1>2, <1>4, <1>6
  <1> HIDE DEF lists, dates, points, key
  <1>8. /\ lists \in Seq(Seq(Int \cup {Absent})) /\ Len(lists) = n
        /\ dates \in Seq(Seq(Nat)) /\ Len(dates) = n
    <2>1. lists \in [1..n -> Seq(Int \cup {Absent})]
      BY <1>5, <1>7
    <2>2. dates \in [1..n -> Seq(Nat)]
      BY <1>5, <1>7
    <2> QED
      BY <1>2, <2>1, <2>2
  <1>9. \A i \in 1..n : Len(dates[i]) = Len(lists[i])
    BY <1>5, <1>7
  <1>10. /\ a \in Seq(Nat) /\ b \in Seq(Int \cup {Absent})
         /\ SideBySide(a, b, dates, lists, n)
    BY <1>2, <1>8, <1>9, ListsJoinedSideBySide
  <1> HIDE DEF a, b
  <1>11. /\ Len(a) \in Nat /\ Len(a) = Len(b) /\ DOMAIN a = 1..Len(a) /\ DOMAIN b = 1..Len(a)
    BY <1>10 DEF SideBySide
  <1>12. points = [x \in 1..Len(a) |-> [at |-> a[x], value |-> b[x]]]
    BY <1>3, <1>11 DEF Zipped
  <1>13. points \in Seq(Range(points))
    <2>1. points = [x \in 1..Len(a) |-> points[x]]
      BY <1>12
    <2> QED
      BY <1>11, <2>1, IsSequence
  <1>14. \A i \in 1..n : DOMAIN SumsOn(raw, i, m) = 1..Len(dates[i])
    BY <1>5, <1>7
  <1>15. ASSUME NEW p \in Range(points)
         PROVE  \E i \in 1..n : \E k \in DOMAIN SumsOn(raw, i, m) : p = PointOf(raw, i, m, k)
    <2>1. PICK x \in 1..Len(a) : p = [at |-> a[x], value |-> b[x]]
      BY <1>12 DEF Range
    <2>2. PICK i \in 1..n : \E k \in 1..Len(dates[i]) : a[x] = dates[i][k] /\ b[x] = lists[i][k]
      BY <1>10 DEF SideBySide
    <2>3. PICK k \in 1..Len(dates[i]) : a[x] = dates[i][k] /\ b[x] = lists[i][k]
      BY <2>2
    <2>4. p = PointOf(raw, i, m, k)
      BY <1>7, <2>1, <2>3 DEF PointOf
    <2> QED
      BY <1>14, <2>4
  <1>16. ASSUME NEW i \in 1..n, NEW k \in DOMAIN SumsOn(raw, i, m)
         PROVE  PointOf(raw, i, m, k) \in Range(points)
    <2>1. k \in 1..Len(dates[i])
      BY <1>14
    <2>2. PICK x \in 1..Len(a) : a[x] = dates[i][k] /\ b[x] = lists[i][k]
      BY <1>10, <2>1 DEF SideBySide
    <2>3. points[x] = PointOf(raw, i, m, k)
      BY <1>7, <1>12, <2>2 DEF PointOf
    <2> QED
      BY <1>12, <2>3 DEF Range
  <1> QED
    BY <1>2, <1>13, <1>15, <1>16 DEF normalized, points

\* The recent values of a counter are in the window, and only counts are.
LEMMA WindowRead ==
  ASSUME NEW raw, IsStored(raw), OnGrid(raw), NEW c, NEW m \in TrafficCounters
  PROVE  LET window == Window(Normalize(raw, c), m, "Sum")
         IN /\ \E n \in Nat : DOMAIN window = 1..n
            /\ \A p \in Range(window) : Measured(p.value) /\ \E i \in DOMAIN raw.nodes :
                 \E k \in DOMAIN SumsOn(raw, i, m) : p = PointOf(raw, i, m, k)
            /\ \A i \in DOMAIN raw.nodes : \A k \in DOMAIN SumsOn(raw, i, m) :
                 Measured(SumsOn(raw, i, m)[k]) /\ RecentOn(raw, m, DatesOn(raw, i, m)[k]) =>
                   PointOf(raw, i, m, k) \in Range(window)
  <1> DEFINE collected == Collect(Normalize(raw, c), m, "Sum")
             D == {i \in DOMAIN collected : collected[i].at # Absent}
             points == Dated(collected)
             last == Max({p.at : p \in Range(points)})
             P == {i \in DOMAIN points : points[i].at >= last - WindowSlots}
             recent == LastWindow(collected)
             Q == {i \in DOMAIN recent : Measured(recent[i].value)}
             window == Window(Normalize(raw, c), m, "Sum")
  <1>1. /\ collected \in Seq(Range(collected))
        /\ \A p \in Range(collected) : \E i \in DOMAIN raw.nodes :
             \E k \in DOMAIN SumsOn(raw, i, m) : p = PointOf(raw, i, m, k)
        /\ \A i \in DOMAIN raw.nodes : \A k \in DOMAIN SumsOn(raw, i, m) :
             PointOf(raw, i, m, k) \in Range(collected)
        /\ \A i \in DOMAIN raw.nodes : /\ SumsOn(raw, i, m) \in Seq(Int \cup {Absent})
                                       /\ DatesOn(raw, i, m) \in Seq(Nat)
                                       /\ Len(DatesOn(raw, i, m)) = Len(SumsOn(raw, i, m))
    BY CountersCollected, CountersDated
  <1>2. recent = IF points = <<>> THEN <<>> ELSE Picked(points, P)
    BY DEF LastWindow
  <1>3. window = Picked(recent, Q)
    BY DEF Window, Valid
  <1> HIDE DEF collected, recent, window
  <1>4. \A i \in DOMAIN raw.nodes : \A k \in DOMAIN SumsOn(raw, i, m) :
          /\ PointOf(raw, i, m, k).at = DatesOn(raw, i, m)[k]
          /\ DatesOn(raw, i, m)[k] \in Nat
    BY <1>1 DEF PointOf
  <1>5. \A p \in Range(collected) : p.at \in Nat /\ p.at # Absent
    BY <1>1, <1>4, AbsentAssumption
  <1>6. PICK n \in Nat : /\ DOMAIN points = 1..n /\ Range(points) = Range(collected)
                        /\ points = [i \in 1..n |-> points[i]]
    <2>1. DOMAIN collected = 1..Len(collected) /\ Len(collected) \in Nat
      BY <1>1
    <2>2. D = DOMAIN collected
      BY <1>5 DEF Range
    <2>3. points = Picked(collected, D) /\ D \in SUBSET (1..Len(collected))
      BY <2>1, <2>2 DEF Dated
    <2> HIDE DEF D, P, Q, last, points
    <2>4. /\ \E k \in Nat : DOMAIN points = 1..k
          /\ Range(points) = {collected[i] : i \in D}
          /\ points = [i \in DOMAIN points |-> points[i]]
      <3>1. /\ \E k \in Nat : DOMAIN Picked(collected, D) = 1..k
            /\ Range(Picked(collected, D)) = {collected[i] : i \in D}
            /\ Picked(collected, D) = [i \in DOMAIN Picked(collected, D) |-> Picked(collected, D)[i]]
        BY <2>1, <2>3, RangePicked
      <3> QED
        BY <2>3, <3>1, Zenon
    <2>5. Range(points) = Range(collected)
      BY <2>2, <2>4 DEF Range
    <2> QED
      BY <2>4, <2>5
  <1> HIDE DEF points
  <1>7. points # <<>> => last \in {p.at : p \in Range(points)}
    <2> HAVE points # <<>>
    <2> DEFINE ats == {p.at : p \in Range(points)}
               at == [i \in 1..n |-> points[i].at]
    <2>1. IsFiniteSet(1..n)
      BY PositionsCounted
    <2>2. ats = {at[i] : i \in 1..n}
      BY <1>6 DEF Range
    <2>3. IsFiniteSet(ats)
      <3> HIDE DEF at, ats
      <3> QED
        BY <2>1, <2>2, ImageFinite
    <2>4. ats \in SUBSET Int
      BY <1>5, <1>6
    <2>5. ats # {}
      <3>1. points \in Seq(Range(points))
        BY <1>6, IsSequence
      <3>2. Len(points) # 0 /\ DOMAIN points = 1..Len(points) /\ Len(points) \in Nat
        BY <3>1
      <3>3. 1 \in DOMAIN points
        BY <3>2
      <3>4. points[1] \in Range(points)
        BY <3>3 DEF Range
      <3> QED
        BY <3>4
    <2> HIDE DEF ats
    <2> QED
      BY <2>3, <2>4, <2>5, GreatestExists DEF ats
  <1> HIDE DEF last
  <1>8. /\ \E k \in Nat : DOMAIN recent = 1..k
        /\ Range(recent) = IF points = <<>> THEN {} ELSE {points[i] : i \in P}
    <2>1. CASE points = <<>>
      <3>1. DOMAIN recent = 1..0 /\ Range(recent) = {}
        BY <1>2, <2>1 DEF Range
      <3> QED
        BY <2>1, <3>1
    <2>2. CASE points # <<>>
      <3>1. P \in SUBSET (1..n)
        BY <1>6
      <3> HIDE DEF P
      <3> QED
        BY <1>2, <2>2, <3>1, RangePicked
    <2> QED
      BY <2>1, <2>2
  <1>9. PICK l \in Nat : DOMAIN recent = 1..l
    BY <1>8
  <1>10. /\ \E j \in Nat : DOMAIN window = 1..j
         /\ Range(window) = {recent[i] : i \in Q}
    <2>1. Q \in SUBSET (1..l)
      BY <1>9
    <2> HIDE DEF D, P, Q
    <2>2. /\ \E j \in Nat : DOMAIN Picked(recent, Q) = 1..j
          /\ Range(Picked(recent, Q)) = {recent[i] : i \in Q}
      BY <2>1, RangePicked
    <2> QED
      BY <1>3, <2>2, Zenon
  <1>11. Range(window) = {p \in Range(recent) : Measured(p.value)}
    BY <1>10 DEF Range
  <1>12. Range(recent) \subseteq Range(collected)
    <2>1. Range(recent) \subseteq Range(points)
      BY <1>8 DEF Range
    <2> QED
      BY <1>6, <2>1
  <1>13. ASSUME NEW i \in DOMAIN raw.nodes, NEW k \in DOMAIN SumsOn(raw, i, m),
                Measured(SumsOn(raw, i, m)[k]), RecentOn(raw, m, DatesOn(raw, i, m)[k])
         PROVE  PointOf(raw, i, m, k) \in Range(window)
    <2> DEFINE p == PointOf(raw, i, m, k)
               date == DatesOn(raw, i, m)[k]
    <2>1. p \in Range(points) /\ p.at = date /\ date \in Nat /\ Measured(p.value)
      BY <1>1, <1>4, <1>6, <1>13 DEF PointOf
    <2> HIDE DEF p, date
    <2>2. PICK x \in DOMAIN points : points[x] = p
      BY <2>1 DEF Range
    <2>3. points # <<>>
      BY <2>2
    <2>4. date >= last - WindowSlots
      <3>1. PICK q \in Range(points) : last = q.at
        BY <1>7, <2>3
      <3>2. PICK j \in DOMAIN raw.nodes : \E s \in DOMAIN SumsOn(raw, j, m) : q = PointOf(raw, j, m, s)
        BY <1>1, <1>6
      <3>3. PICK s \in DOMAIN SumsOn(raw, j, m) : q = PointOf(raw, j, m, s)
        BY <3>2
      <3>4. s \in DOMAIN DatesOn(raw, j, m) /\ last = DatesOn(raw, j, m)[s]
        BY <1>1, <1>4, <3>1, <3>3
      <3> QED
        BY <1>13, <3>4 DEF RecentOn, date
    <2>5. x \in P
      BY <2>1, <2>2, <2>4
    <2>6. p \in Range(recent)
      BY <1>8, <2>2, <2>3, <2>5
    <2>7. p \in Range(window)
      BY <1>11, <2>1, <2>6
    <2> QED
      BY <2>7 DEF p
  <1> QED
    BY <1>1, <1>10, <1>11, <1>12, <1>13 DEF window

\* Only clusters without traffic are idle.
LEMMA IdleHasNoTraffic ==
  ASSUME NEW data0, NEW c, UtilizationModel(data0, c).classification = "IDLE"
  PROVE  ~HasTraffic(data0)
  <1> SUFFICES ASSUME HasTraffic(data0)
               PROVE  FALSE
    OBVIOUS
  <1> DEFINE l == Levels(data0, data0.serverless)
  <1>1. ClassifyCombination(l, TRUE) = "IDLE"
    BY DEF UtilizationModel
  <1> HIDE DEF l
  <1> QED
    BY <1>1 DEF ClassifyCombination
=============================================================================
