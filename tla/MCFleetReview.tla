---------------------------- MODULE MCFleetReview ----------------------------
(* FleetReview for TLC: the fleets it reviews.  A series has four days of  *)
(* two periods of 40 minutes' worth; the bounds are in the cfg file.       *)
EXTENDS FleetReview

CONSTANTS c1, c2, c3, c4, c5, n1, n2

Typical ==
  [cluster_id |-> c1, cluster_type |-> "node-based", engine |-> "valkey", version |-> <<8, 0>>,
   tls |-> TRUE, at_rest |-> TRUE, auth_mode |-> "RBAC", permissive_rules |-> 0,
   multi_az |-> TRUE, failover |-> TRUE, replicas |-> 2, retention |-> 7, tags |-> Tags,
   active_logs |-> LogTypes, limits |-> [l \in Limits |-> 100], cluster_mode |-> FALSE,
   shards |-> 1, maxclients |-> Absent, malformed |-> {}]
Default == [replicas |-> 1, retention |-> 7, tags |-> Tags]
Lenient == [replicas |-> 0, retention |-> 0, tags |-> {}]

\* Series, and the nodes that measured them, one value per period from the first on.
Series(metric, stat, values) == <<metric, stat>> :> values
Cpu(values) == Series("EngineCPUUtilization", "Maximum", values)
Gets(values) == Series("GetTypeCmds", "Sum", values)
Always(v) == [i \in 1..8 |-> v]
Quiet == Gets(Always(0)) @@ Cpu(Always(3))
NodeFrom(id, first, series) ==
  [id |-> id, series |-> series,
   measuredAt |-> [key \in DOMAIN series |-> [i \in DOMAIN series[key] |-> first + i - 1]]]

\* What Stage 2 can store of nodes; one thing if all series have the same timestamps.
StoredAs(serverless, nodes) ==
  {[serverless |-> serverless, timestamps |-> grid, nodes |-> nodes] : grid \in Grids(nodes)}
Stored(nodes) == CHOOSE raw \in StoredAs(FALSE, nodes) : TRUE
Serverless(series) == CHOOSE raw \in StoredAs(TRUE, <<NodeFrom(Absent, 1, series)>>) : TRUE
One(series) == Stored(<<NodeFrom(n1, 1, series)>>)
Two(first, second) == Stored(<<NodeFrom(n1, 1, first), NodeFrom(n2, 1, second)>>)
Later(first, second, from) == Stored(<<NodeFrom(n1, 1, first), NodeFrom(n2, from, second)>>)

Price(current, saving) ==
  [node_type |-> TRUE, current |-> current,
   options |-> {[key |-> "reserved", eligible |-> TRUE, commitment |-> TRUE, saving |-> saving],
                [key |-> "graviton", eligible |-> TRUE, commitment |-> FALSE, saving |-> 0],
                [key |-> "savings_plan", eligible |-> FALSE, commitment |-> TRUE, saving |-> 9]}]
Unpriced == [node_type |-> FALSE, current |-> Absent, options |-> {}]

Scenario(records, metrics) ==
  [inventory |-> records, metrics |-> metrics, policy |-> Default, today |-> 0, pricing |-> Absent]
Alone(c) == Scenario(<<c>>, c1 :> One(Quiet))

-----------------------------------------------------------------------------
(* Configuration                                                           *)

Security ==
  {Alone([Typical EXCEPT !.tls = tls, !.at_rest = tls, !.auth_mode = auth, !.cluster_type = type,
                         !.permissive_rules = rules, !.malformed = malformed]) :
     tls \in BOOLEAN, auth \in {"none", "AUTH-token", Absent}, type \in ClusterTypes,
     rules \in {0, 2}, malformed \in {{}, {"security_groups"}}}
Reliability ==
  {[Alone([Typical EXCEPT !.multi_az = FALSE, !.failover = FALSE, !.replicas = replicas,
                          !.retention = retention, !.malformed = malformed]) EXCEPT !.policy = p] :
     replicas \in {Absent, 0, 1}, retention \in {Absent, 0, 1, 7},
     malformed \in {{}, {"replicas"}, {"retention"}},
     p \in {Default, Lenient, [Default EXCEPT !.replicas = -1]}}
Engines ==
  {Alone([Typical EXCEPT !.engine = engine, !.version = version, !.active_logs = logs,
                         !.malformed = malformed]) :
     engine \in {"redis", "valkey", "memcached"}, version \in {Absent, <<5, 0>>, <<6, 0>>, <<7, 0>>},
     logs \in {{}, {"slow-log"}}, malformed \in {{}, {"engine"}, {"log_delivery"}}}
Support ==
  {[Alone([Typical EXCEPT !.engine = "redis", !.version = <<major, 0>>]) EXCEPT !.today = day] :
     major \in {5, 6}, day \in {-91, -90, 0, 1, 364, 365, 729, 730, 1095}}
Limited ==
  {[Alone([Typical EXCEPT !.cluster_type = "serverless", !.tags = tags, !.malformed = malformed,
                          !.limits = [l \in Limits |-> IF l = "data_storage" THEN storage ELSE 100]])
      EXCEPT !.policy = p] :
     tags \in {Tags, {"Owner"}}, storage \in {Absent, 0, 10}, malformed \in {{}, {"tags"}, {"limits"}},
     p \in {Default, Lenient}}
Broken ==
  {Scenario(records, c1 :> One(Quiet)) :
     records \in {NoFile, NotJson, NoList, <<>>, <<Typical, [Typical EXCEPT !.cluster_id = Absent]>>}}
    \cup {Scenario(<<Typical>>, metrics) : metrics \in {NoFile, NotJson, <<>>, c1 :> Absent}}

\* Two records of one name, clusters with the same findings (a half of the fleet, and
\* three of five), a cluster only one of the files knows.
Insecure(id) == [Typical EXCEPT !.cluster_id = id, !.tls = FALSE, !.retention = Absent]
Pairs ==
  {Scenario(<<Insecure(c1), Typical>>, c1 :> One(Quiet)),
   Scenario(<<Typical, Insecure(c1)>>, c1 :> One(Quiet)),
   Scenario(<<Insecure(c1), Insecure(c2)>>, c1 :> One(Quiet)),
   Scenario(<<[Insecure(c1) EXCEPT !.malformed = {"security_groups"}], Insecure(c2)>>, c2 :> One(Quiet)),
   Scenario(<<Insecure(c2)>>, c1 :> One(Quiet)),
   Scenario(<<[Typical EXCEPT !.tls = FALSE], [Typical EXCEPT !.cluster_id = c2, !.tls = FALSE],
              [Typical EXCEPT !.cluster_id = c3, !.tls = FALSE, !.retention = 0],
              [Typical EXCEPT !.cluster_id = c4, !.retention = 0], [Typical EXCEPT !.cluster_id = c5]>>,
            c1 :> One(Quiet))}

-----------------------------------------------------------------------------
(* Metrics and prices                                                      *)

Busy == Gets(Always(4))
Load(values) == Busy @@ Series("EngineCPUUtilization", "Average", values) @@ Cpu(values)
Rising == <<10, 10, 20, 20, 30, 30, 40, 40>>
Toggling == <<0, 1, 0, 1, 0, 1, 0, 1>>
Pulsing == <<95, 10, 95, 10, 95, 95, 10, 95>>
HitRates(average, maximum) ==
  Series("CacheHitRate", "Average", average) @@ Series("CacheHitRate", "Maximum", maximum)
Commands(family, gets, sets) ==
  Series(family, "Sum", Always(10)) @@ Gets(Always(gets)) @@ Series("SetTypeCmds", "Sum", Always(sets))

Nodes1 ==
  { Quiet,
    Gets(<<5, 5, 0, 0, 0, 0, 0, 0>>) @@ Cpu(<<9, 5, 3, 3, 3, 3, 3, Absent>>),
    Busy @@ Cpu(<<95, 95, 95, 95, 95, 95, 95, Absent>>)
      @@ Series("DatabaseMemoryUsagePercentage", "Maximum", Always(92)),
    Busy @@ Cpu(Pulsing),
    Cpu(<<3, 95, 95, 95, 95, 3, 3, 3>>),
    Commands("StringBasedCmds", 1, 10) @@ HitRates(Always(70), Always(70)),
    Commands("StringBasedCmds", 10, 1) @@ HitRates(Always(70), Always(70)),
    Commands("HashBasedCmds", 10, 5) @@ Series("Evictions", "Sum", Always(900)),
    Busy @@ Series("DatabaseMemoryUsagePercentage", "Average", Rising)
      @@ HitRates(<<90, 90, 80, 80, 60, 60, 50, 50>>, Always(90)),
    Busy @@ Series("SaveInProgress", "Maximum", Toggling)
      @@ Series("ReplicationLag", "Maximum", Toggling),
    Busy @@ Series("CacheHits", "Sum", Always(1)) @@ Series("CacheMisses", "Sum", Always(2))
      @@ Series("CurrItems", "Maximum", Always(100)) @@ Series("CurrVolatileItems", "Maximum", Always(60))
      @@ Series("NetworkBaselineMaxUsageInPercentage", "Maximum", <<1, 2, 3, 130, 1, 2, 3, Absent>>),
    Series("CacheHits", "Sum", Always(0)) @@ Series("CacheMisses", "Sum", Always(0))
      @@ HitRates(Always(0), Always(0)) @@ Gets(<<Absent, Absent, 0, 0, 0, 0, Absent, 0>>),
    Load(Always(30)), Load(<<1, 1, 1, 40, 1, 1, 1, 1>>) }
Measurements ==
  {[Alone(Typical) EXCEPT !.metrics = c1 :> One(series), !.pricing = price] :
     series \in Nodes1, price \in {Absent, c1 :> Price(100, 40)}}

ShardedRecord == [Typical EXCEPT !.cluster_mode = TRUE, !.shards = 2]
ServerlessRecord ==
  [Typical EXCEPT !.cluster_type = "serverless",
                  !.limits = [l \in Limits |-> IF l = "data_storage" THEN 100 ELSE 1]]
Others ==
  {Scenario(<<ShardedRecord>>, c1 :> Two(Load(Always(80)), Load(Always(10)))),
   Scenario(<<ShardedRecord>>, c1 :> Two(Load(<<80, 1, 1, 1, 1, 1, 1, 1>>), Load(Always(2)))),
   Scenario(<<ServerlessRecord>>,
            c1 :> Serverless(Series("BytesUsedForCache", "Maximum", Always(80))
                    @@ Series("ElastiCacheProcessingUnits", "Sum", Always(2000))
                    @@ Series("ThrottledCmds", "Sum", <<0, 1, 1, 0, 0, 1, 0, 80>>))),
   [Scenario(<<Typical, [Typical EXCEPT !.cluster_id = c2]>>,
             (c1 :> One(Load(Always(30)))) @@ (c2 :> One(Quiet)))
      EXCEPT !.pricing = (c1 :> Price(100, 40)) @@ (c2 :> Price(70, 50))],
   [Alone(Typical) EXCEPT !.pricing = c1 :> Unpriced],
   \* Nodes that stopped serving before the window, and before the other stopped.
   [Alone(Typical) EXCEPT !.metrics = c1 :> Two(Quiet, Gets(<<5, 0, 5>>)),
                          !.pricing = c1 :> Price(100, 40)],
   [Alone(Typical) EXCEPT !.metrics = c1 :> Two(Quiet, Gets(<<5, 0, 0, 0, 0, 0, 0, 0>>)),
                          !.pricing = c1 :> Price(100, 40)],
   [Alone(Typical) EXCEPT !.metrics = c1 :> Two(Quiet, Gets(<<0, 0, 0, 0, 7>>)),
                          !.pricing = c1 :> Price(100, 40)]}

\* A metric that was first reported in period 4 (or in period 1: the metric the dict
\* begins with decides) can end the grid before the values of the others.
Uneven ==
  [NodeFrom(n1, 1, Gets(<<1, 1, 1, 1, 1, 1, 1, 9>>) @@ Series("Evictions", "Sum", <<0, 0, 0, 0, 0, 0, 0, 7>>))
     EXCEPT !.series = Cpu(<<1, 1, 1, 1, 95>>) @@ @,
            !.measuredAt = (<<"EngineCPUUtilization", "Maximum">> :> <<4, 5, 6, 7, 8>>) @@ @]
Unaligned ==
  {[Alone(Typical) EXCEPT !.metrics = c1 :> raw, !.pricing = c1 :> Price(100, 40)] :
     raw \in StoredAs(FALSE, <<Uneven>>) \cup StoredAs(FALSE, <<Uneven, NodeFrom(n2, 1, Quiet)>>)}

\* A node that joined in period 6: its values are dated as if they were the oldest.
LateNodeServes ==
  {[Alone(Typical) EXCEPT !.metrics = c1 :> Later(Quiet, Gets(<<5, 0, 5>>), 6),
                          !.pricing = c1 :> Price(100, 40)]}

\* The last day of the first node is beyond the threshold, that of the second is not.
OneNodeBreaches ==
  {Scenario(<<Typical>>, c1 :> Two(Cpu(<<1, 1, 1, 1, 95, 95, 95, 95>>), Cpu(Always(1))))}

-----------------------------------------------------------------------------
Fleets ==
  Security \cup Reliability \cup Engines \cup Support \cup Limited \cup Broken \cup Pairs
    \cup Measurements \cup Others \cup Unaligned \cup LateNodeServes \cup OneNodeBreaches
FleetInventories == {s.inventory : s \in Fleets}
FleetMetrics == {s.metrics : s \in Fleets}
FleetPolicies == {s.policy : s \in Fleets}
FleetDates == {s.today : s \in Fleets}
FleetPricings == {s.pricing : s \in Fleets}
=============================================================================
