----------------------------- MODULE FetchMetrics -----------------------------
(***************************************************************************)
(* Stage 2 of the pipeline, scripts/fetch_metrics.py: one process collects *)
(* CloudWatch series for every cluster of the inventory with two nested    *)
(* thread pools.  CollectionOrchestrator.run submits one RegionCollector   *)
(* per region to an outer pool; RegionCollector.collect submits one        *)
(* _collect_cluster per cluster to an inner pool of the same size.  Each   *)
(* worker writes its own shard file metrics/<cluster_id>.json; the main    *)
(* thread writes the manifest metrics.json after every region has ended.   *)
(*                                                                         *)
(* The process can be killed between any two steps and be started again    *)
(* over the files it left, possibly with another inventory.                *)
(*                                                                         *)
(* Series, timestamps and error texts are abstracted: a shard is who wrote *)
(* it, in which run, and whether it records an error of its own.           *)
(***************************************************************************)
EXTENDS Integers, FiniteSets

CONSTANTS
  Clusters,     \* entries of the inventory's "clusters" list
  Regions,      \* AWS regions
  Ids,          \* cluster_id values
  RegionOf,     \* [Clusters -> Regions]: the "region" field of an entry
  IdOf,         \* [Clusters -> Ids]: the "cluster_id" field of an entry
  Concurrency,  \* --concurrency, the size of the outer and of each inner pool
  MaxRuns,      \* bound: how many times the stage is started
  NoFile        \* the content of a path that does not exist

ASSUME ClustersAssumption ==
  /\ IsFiniteSet(Clusters) /\ IsFiniteSet(Regions)
  /\ Clusters \cap Regions = {}
  /\ RegionOf \in [Clusters -> Regions]
  /\ IdOf \in [Clusters -> Ids]

ASSUME ConcurrencyAssumption == Concurrency \in Nat \ {0}
ASSUME MaxRunsAssumption == MaxRuns \in Nat

VARIABLES
  run,          \* number of times the stage was started
  main,         \* where the main thread is
  exit,         \* the process's exit code, -1 while there is none
  inventory,    \* the entries the current run read
  region,       \* the future of each region's collect()
  worker,       \* the future of each cluster's _collect_cluster()
  contribution, \* the metadata a worker returns for its cluster
  merged,       \* clusters whose contribution collect() has merged
  collected,    \* regions whose result the main thread has appended
  tmp,          \* temporary files on disk, by run and purpose
  shardFile,    \* metrics/<cluster_id>.json
  manifest      \* metrics.json

memory == <<main, exit, inventory, region, worker, contribution, merged, collected>>
disk == <<tmp, shardFile, manifest>>
vars == <<run, memory, disk>>

-----------------------------------------------------------------------------
(* Helpers                                                                 *)
(*                                                                         *)
(* A definition named like the one that follows it with a suffix, such as  *)
(* ErrorsWithoutShard before Errors, is that definition with a plausible   *)
(* fault: replacing it shows which property notices.                       *)

ManifestTmp == "manifest"
Contribution == [error : BOOLEAN, shard : BOOLEAN]
Shard == [by : Clusters, run : Nat, error : BOOLEAN]
Manifest == [run : Nat, entries : SUBSET Clusters, errors : SUBSET (Clusters \cup Regions)]

ASSUME NoFileAssumption == NoFile \notin Shard \cup Manifest

Members(r) == {c \in inventory : RegionOf[c] = r}
RegionsUsed == {RegionOf[c] : c \in inventory}

\* A region whose collect() occupies a thread of the outer pool.
RegionBusy == {"running", "draining"}
\* A cluster that occupies a thread of its region's inner pool.
WorkerBusy == {"fetching", "latency", "writing", "renaming"}
\* A cluster whose series are in memory.
Holding == {"latency", "writing", "renaming"}
\* A future that is done: its result or its exception is set.
WorkerDone == {"returned", "raised"}

BusyRegions == {r \in Regions : region[r] \in RegionBusy}
BusyIn(r) == {c \in Members(r) : worker[c] \in WorkerBusy}

\* ThreadPoolExecutor(max_workers=concurrency): a queued item starts only when
\* fewer than max_workers items are running.
RegionSlotFree == Cardinality(BusyRegions) < Concurrency
ClusterSlotFreeUnlessDraining(r) ==
  region[r] = "running" /\ Cardinality(BusyIn(r)) < Concurrency
ClusterSlotFree(r) == Cardinality(BusyIn(r)) < Concurrency

\* What the region's RegionMetricsResult holds once its future is done: a
\* raised region is replaced by a fresh result with the exception as its only
\* error, so everything merged before is dropped.
ShardIdsOfAllMerged(r) ==
  IF region[r] = "raised" THEN {} ELSE Members(r) \cap merged
ShardIds(r) ==
  IF region[r] = "raised" THEN {}
  ELSE {c \in Members(r) : c \in merged /\ contribution[c].shard}
ErrorsWithoutShard(r) ==
  IF region[r] = "raised" THEN {r}
  ELSE {c \in Members(r) : c \in merged /\ contribution[c].error /\ ~contribution[c].shard}
Errors(r) ==
  IF region[r] = "raised" THEN {r}
  ELSE {c \in Members(r) : c \in merged /\ contribution[c].error}

AllShardIds == UNION {ShardIds(r) : r \in collected}
AllErrors == UNION {Errors(r) : r \in collected}

\* "A region failed when it produced no shards yet reported errors."
RegionFailed(r) == Errors(r) # {} /\ ShardIds(r) = {}

ExitCodeCountingErrors == Cardinality(AllErrors)
ExitCodeIgnoringErrors ==
  IF collected # {} /\ \A r \in collected : RegionFailed(r) THEN 2 ELSE 0
ExitCode ==
  IF collected # {} /\ \A r \in collected : RegionFailed(r) THEN 2
  ELSE IF AllErrors # {} THEN 1 ELSE 0

-----------------------------------------------------------------------------
(* The process                                                             *)

Stopped == main \in {"idle", "exited", "killed"}

Init ==
  /\ run = 0
  /\ main = "idle"
  /\ exit = -1
  /\ inventory = {}
  /\ region = [r \in Regions |-> "none"]
  /\ worker = [c \in Clusters |-> "none"]
  /\ contribution = [c \in Clusters |-> [error |-> FALSE, shard |-> FALSE]]
  /\ merged = {}
  /\ collected = {}
  /\ tmp = {}
  /\ shardFile = [i \in Ids |-> NoFile]
  /\ manifest = NoFile

\* A new process over the files the earlier ones left.  With no cluster in the
\* inventory run() writes the empty document at once.
Start(I) ==
  /\ Stopped
  /\ run < MaxRuns
  /\ run' = run + 1
  /\ main' = IF I = {} THEN "publishing" ELSE "collecting"
  /\ exit' = -1
  /\ inventory' = I
  /\ region' = [r \in Regions |->
                  IF \E c \in I : RegionOf[c] = r THEN "queued" ELSE "none"]
  /\ worker' = [c \in Clusters |-> "none"]
  /\ contribution' = [c \in Clusters |-> [error |-> FALSE, shard |-> FALSE]]
  /\ merged' = {}
  /\ collected' = {}
  /\ UNCHANGED disk

\* _load_inventory: a missing or invalid file ends the process with exit code 2.
InventoryUnreadable ==
  /\ Stopped
  /\ run < MaxRuns
  /\ run' = run + 1
  /\ main' = "exited"
  /\ exit' = 2
  /\ inventory' = {}
  /\ region' = [r \in Regions |-> "none"]
  /\ worker' = [c \in Clusters |-> "none"]
  /\ contribution' = [c \in Clusters |-> [error |-> FALSE, shard |-> FALSE]]
  /\ merged' = {}
  /\ collected' = {}
  /\ UNCHANGED disk

\* The process dies between two steps: memory is lost, files stay.
Kill ==
  /\ ~Stopped
  /\ main' = "killed"
  /\ worker' = [c \in Clusters |-> "none"]
  /\ region' = [r \in Regions |-> "none"]
  /\ merged' = {}
  /\ collected' = {}
  /\ UNCHANGED <<run, exit, inventory, contribution, disk>>

-----------------------------------------------------------------------------
(* RegionCollector.collect, in a thread of the outer pool                  *)

StartRegion(r) ==
  /\ main = "collecting"
  /\ region[r] = "queued"
  /\ RegionSlotFree
  /\ region' = [region EXCEPT ![r] = "running"]
  /\ worker' = [c \in Clusters |-> IF c \in Members(r) THEN "queued" ELSE worker[c]]
  /\ UNCHANGED <<run, main, exit, inventory, contribution, merged, collected, disk>>

\* ensure_shard_dir raises before any cluster is submitted.
ShardDirFails(r) ==
  /\ main = "collecting"
  /\ region[r] = "queued"
  /\ RegionSlotFree
  /\ region' = [region EXCEPT ![r] = "raised"]
  /\ UNCHANGED <<run, main, exit, inventory, worker, contribution, merged, collected, disk>>

\* as_completed hands over a finished cluster; its metadata is merged.
MergeCluster(c) ==
  /\ region[RegionOf[c]] = "running"
  /\ worker[c] = "returned"
  /\ c \notin merged
  /\ merged' = merged \cup {c}
  /\ UNCHANGED <<run, main, exit, inventory, region, worker, contribution, collected, disk>>

\* future.result() raises: the loop is left, but the pool's __exit__ still
\* waits for every submitted cluster, those not yet started included.
ClusterRaises(c) ==
  /\ region[RegionOf[c]] = "running"
  /\ worker[c] = "raised"
  /\ region' = [region EXCEPT ![RegionOf[c]] = "draining"]
  /\ UNCHANGED <<run, main, exit, inventory, worker, contribution, merged, collected, disk>>

RegionReturns(r) ==
  /\ region[r] = "running"
  /\ Members(r) \subseteq merged
  /\ region' = [region EXCEPT ![r] = "returned"]
  /\ UNCHANGED <<run, main, exit, inventory, worker, contribution, merged, collected, disk>>

PoolJoinedAtOnce(r) == TRUE
PoolJoined(r) == \A c \in Members(r) : worker[c] \in WorkerDone

RegionRaises(r) ==
  /\ region[r] = "draining"
  /\ PoolJoined(r)
  /\ region' = [region EXCEPT ![r] = "raised"]
  /\ UNCHANGED <<run, main, exit, inventory, worker, contribution, merged, collected, disk>>

-----------------------------------------------------------------------------
(* _collect_cluster, in a thread of the region's inner pool                *)

CanStart(c) ==
  /\ worker[c] = "queued"
  /\ ClusterSlotFree(RegionOf[c])

Worker(c, from, to) ==
  /\ worker[c] = from
  /\ worker' = [worker EXCEPT ![c] = to]
  /\ UNCHANGED <<run, main, exit, inventory, region, merged, collected, shardFile, manifest>>

StartCluster(c) ==
  /\ CanStart(c)
  /\ Worker(c, "queued", "fetching")
  /\ UNCHANGED <<contribution, tmp>>

\* session.client() raises in _client(), before the try block.  (Which thread
\* already has a client is not tracked: any cluster may be its thread's first.)
ClientFails(c) ==
  /\ CanStart(c)
  /\ Worker(c, "queued", "raised")
  /\ UNCHANGED <<contribution, tmp>>

\* The registry, the query builder or BatchExecutor.execute raises inside the
\* try block: cluster_metrics is still None, so no shard is written.
FetchFails(c) ==
  /\ Worker(c, "fetching", "returned")
  /\ contribution' = [contribution EXCEPT ![c].error = TRUE]
  /\ UNCHANGED tmp

FetchSucceeds(c) ==
  /\ Worker(c, "fetching", "latency")
  /\ UNCHANGED <<contribution, tmp>>

\* LatencyDetailCollector.collect returns or raises; the series are kept.
LatencyEnds(c, ok) ==
  /\ Worker(c, "latency", "writing")
  /\ contribution' = [contribution EXCEPT ![c].error = ~ok]
  /\ UNCHANGED tmp

\* write_atomic: mkstemp, dump, os.replace; on an exception the temporary file
\* is unlinked and the exception leaves _collect_cluster.
OpenShardTmp(c) ==
  /\ Worker(c, "writing", "renaming")
  /\ tmp' = tmp \cup {<<run, c>>}
  /\ UNCHANGED contribution

ReplaceShard(c) ==
  /\ worker[c] = "renaming"
  /\ worker' = [worker EXCEPT ![c] = "returned"]
  /\ contribution' = [contribution EXCEPT ![c].shard = TRUE]
  /\ shardFile' = [shardFile EXCEPT ![IdOf[c]] =
                     [by |-> c, run |-> run, error |-> contribution[c].error]]
  /\ tmp' = tmp \ {<<run, c>>}
  /\ UNCHANGED <<run, main, exit, inventory, region, merged, collected, manifest>>

ShardWriteFailsKeepingTmp(c) ==
  /\ \/ Worker(c, "writing", "raised")
     \/ Worker(c, "renaming", "raised")
  /\ UNCHANGED <<contribution, tmp>>
ShardWriteFails(c) ==
  /\ \/ Worker(c, "writing", "raised")
     \/ Worker(c, "renaming", "raised")
  /\ tmp' = tmp \ {<<run, c>>}
  /\ UNCHANGED contribution

-----------------------------------------------------------------------------
(* CollectionOrchestrator.run, on the main thread                          *)

CollectRegion(r) ==
  /\ main = "collecting"
  /\ region[r] \in {"returned", "raised"}
  /\ r \notin collected
  /\ collected' = collected \cup {r}
  /\ UNCHANGED <<run, main, exit, inventory, region, worker, contribution, merged, disk>>

AllCollectedEarly == collected # {}
AllCollected == RegionsUsed \subseteq collected

LeavePool ==
  /\ main = "collecting"
  /\ AllCollected
  /\ main' = "costing"
  /\ UNCHANGED <<run, exit, inventory, region, worker, contribution, merged, collected, disk>>

\* Cost Explorer is optional; its failures are swallowed.
CollectCost ==
  /\ main = "costing"
  /\ main' = "publishing"
  /\ UNCHANGED <<run, exit, inventory, region, worker, contribution, merged, collected, disk>>

OpenManifestTmp ==
  /\ main = "publishing"
  /\ main' = "replacing"
  /\ tmp' = tmp \cup {<<run, ManifestTmp>>}
  /\ UNCHANGED <<run, exit, inventory, region, worker, contribution, merged, collected,
                 shardFile, manifest>>

ReplaceManifest ==
  /\ main = "replacing"
  /\ main' = "exited"
  /\ exit' = ExitCode
  /\ manifest' = [run |-> run, entries |-> AllShardIds, errors |-> AllErrors]
  /\ tmp' = tmp \ {<<run, ManifestTmp>>}
  /\ UNCHANGED <<run, inventory, region, worker, contribution, merged, collected, shardFile>>

\* The exception reaches the top of the program: Python exits with code 1.
ManifestWriteFails ==
  /\ main \in {"publishing", "replacing"}
  /\ main' = "exited"
  /\ exit' = 1
  /\ tmp' = tmp \ {<<run, ManifestTmp>>}
  /\ UNCHANGED <<run, inventory, region, worker, contribution, merged, collected,
                 shardFile, manifest>>

-----------------------------------------------------------------------------
(* Specification                                                           *)

ClusterStep(c) ==
  \/ StartCluster(c)
  \/ ClientFails(c)
  \/ FetchFails(c)
  \/ FetchSucceeds(c)
  \/ \E ok \in BOOLEAN : LatencyEnds(c, ok)
  \/ OpenShardTmp(c)
  \/ ReplaceShard(c)
  \/ ShardWriteFails(c)

RegionStep(r) ==
  \/ StartRegion(r)
  \/ ShardDirFails(r)
  \/ RegionReturns(r)
  \/ RegionRaises(r)

MainStep ==
  \/ \E r \in Regions : CollectRegion(r)
  \/ LeavePool
  \/ CollectCost
  \/ OpenManifestTmp
  \/ ReplaceManifest
  \/ ManifestWriteFails

\* Everything the running program does by itself.
ProgramStep ==
  \/ \E c \in Clusters : ClusterStep(c) \/ MergeCluster(c) \/ ClusterRaises(c)
  \/ \E r \in Regions : RegionStep(r)
  \/ MainStep

Next ==
  \/ \E I \in SUBSET Clusters : Start(I)
  \/ InventoryUnreadable
  \/ ProgramStep
  \/ Kill

Spec == Init /\ [][Next]_vars

\* The operating system schedules the process's threads and every AWS call
\* returns or times out: a program that can take a step takes one.  Nothing is
\* assumed of the operator, who may never start the stage, nor of a kill.
FairSpec == Spec /\ WF_vars(ProgramStep)

-----------------------------------------------------------------------------
(* Properties                                                              *)

TypeOK ==
  /\ run \in Nat
  /\ main \in {"idle", "collecting", "costing", "publishing", "replacing", "exited", "killed"}
  /\ exit \in {-1, 0, 1, 2}
  /\ inventory \in SUBSET Clusters
  /\ region \in [Regions -> {"none", "queued", "running", "draining", "returned", "raised"}]
  /\ worker \in [Clusters -> {"none", "queued"} \cup WorkerBusy \cup WorkerDone]
  /\ contribution \in [Clusters -> Contribution]
  /\ merged \in SUBSET Clusters
  /\ collected \in SUBSET Regions
  /\ tmp \in SUBSET (Nat \X (Clusters \cup {ManifestTmp}))
  /\ shardFile \in [Ids -> Shard \cup {NoFile}]
  /\ manifest \in Manifest \cup {NoFile}

\* The manifest on disk was written by the run the memory belongs to.
Published == manifest # NoFile /\ manifest.run = run

UniqueIds == \A c, d \in Clusters : IdOf[c] = IdOf[d] => c = d

\* write_manifest: "written last, so a reader that finds it can trust every
\* shard it names exists".  At any moment, also after kills and in the middle
\* of a rerun, every shard the manifest names is there and is not older than it.
ManifestTrustworthy ==
  manifest # NoFile =>
    \A c \in manifest.entries :
      /\ shardFile[IdOf[c]] # NoFile
      /\ shardFile[IdOf[c]].run >= manifest.run

\* Once a run has published, and until the next one starts, each named shard
\* is the one that cluster's worker wrote in this run, and the error recorded
\* inside the shard agrees with the manifest's error count.
ShardsMatchManifest ==
  Published /\ UniqueIds =>
    \A c \in manifest.entries :
      shardFile[IdOf[c]] = [by |-> c, run |-> run, error |-> c \in manifest.errors]

\* A region loses its result if its shard directory or one of its workers failed.
Lost(r) == \E c \in Members(r) : worker[c] # "returned"

\* "Parallelism is only allowed to change how fast collection runs, never what
\* it writes" (tests/test_stage2_concurrency.py): the manifest and the exit code
\* are a function of what happened to each cluster, whatever the interleaving of
\* the two pools, the order futures completed in, and the runs killed before.
ScheduleIndependent ==
  Published =>
    LET kept == {c \in inventory : ~Lost(RegionOf[c])}
        entries == {c \in kept : contribution[c].shard}
        errors == {c \in kept : contribution[c].error}
                    \cup {r \in RegionsUsed : Lost(r)}
    IN /\ manifest.entries = entries
       /\ manifest.errors = errors
       /\ exit = IF inventory # {} /\ entries = {} THEN 2
                 ELSE IF errors = {} THEN 0 ELSE 1

\* run(): "0 = all succeeded, 1 = some regions had errors, 2 = all regions
\* failed".  Zero is never returned over an incomplete collection, and two
\* never over one that produced a shard the manifest names.
ExitCodeMeaning ==
  main = "exited" =>
    /\ exit \in {0, 1, 2}
    /\ exit = 0 => Published /\ manifest.entries = inventory /\ manifest.errors = {}
    /\ exit = 1 => (Published => manifest.errors # {})
    /\ exit = 2 => (Published => manifest.entries = {} /\ manifest.errors # {})

\* How many clusters' series are in memory at once.  collect() says "peak memory
\* is bounded by concurrency shards", and that is so within one region only: the
\* pools nest, a region that lost a worker still runs those queued behind it, and
\* what holds of the process is the product of the two sizes.
HeldSeriesBounded ==
  Cardinality({c \in Clusters : worker[c] \in Holding}) <= Concurrency * Concurrency

\* A process that was not killed leaves no temporary file, however it ended.
NoTempLeft == main = "exited" => \A t \in tmp : t[1] # run

\* No worker outlives the pools: when the manifest is replaced nothing is being
\* written any more, and no shard changes with it or after it in the same run.
ManifestIsLast ==
  [][/\ manifest' # manifest => \A c \in Clusters : worker[c] \notin WorkerBusy \cup {"queued"}
     /\ shardFile' # shardFile => ~Published]_vars

\* The nested pools never wait for each other: a run that is not killed ends,
\* with a raised cluster or region or without.
RunEnds == main = "collecting" ~> main \in {"exited", "killed"}

\* The contract with the readers of the metrics files.
Store == INSTANCE MetricsStore WITH
  Id <- Ids,
  era <- run,
  shard <- [i \in Ids |-> IF shardFile[i] = NoFile THEN 0 ELSE shardFile[i].run],
  index <- IF manifest = NoFile THEN [era |-> 0, ids |-> {}]
           ELSE [era |-> manifest.run, ids |-> {IdOf[c] : c \in manifest.entries}]
StoreSpec == Store!Spec

-----------------------------------------------------------------------------
(* Claims of the code's comments that the code does not keep               *)

\* _collect_cluster: "a distinct metrics/<cluster_id>.json path, so concurrent
\* workers never contend".
NoSharedShardPath ==
  \A c, d \in Clusters :
    c # d /\ worker[c] \in {"writing", "renaming"} /\ worker[d] \in {"writing", "renaming"}
      => IdOf[c] # IdOf[d]
===============================================================================
