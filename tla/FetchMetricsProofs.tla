-------------------------- MODULE FetchMetricsProofs --------------------------
(***************************************************************************)
(* Proofs about FetchMetrics for every inventory, every number of regions, *)
(* every pool size and any number of runs and kills.                       *)
(***************************************************************************)
EXTENDS FetchMetrics, FunctionTheorems, FiniteSetTheorems, TLAPS

-----------------------------------------------------------------------------
(* The inductive invariant: what the pools guarantee                       *)

\* A worker that has work left is inside a pool that is still open.
WorkersInsidePool ==
  \A c \in Clusters : worker[c] \in WorkerBusy \cup {"queued"} =>
    region[RegionOf[c]] \in RegionBusy

\* A region that has work left is inside the outer pool, and only regions of
\* the inventory are submitted.
RegionsInsidePool ==
  \A r \in Regions :
    /\ region[r] \in RegionBusy \cup {"queued"} => main = "collecting"
    /\ region[r] # "none" => r \in RegionsUsed

\* A region that has not started has submitted no cluster.
UnstartedRegions ==
  \A c \in Clusters : region[RegionOf[c]] \in {"queued", "none"} => worker[c] = "none"

\* Only clusters of the inventory are submitted, and only returned ones merged.
MergedReturned ==
  /\ \A c \in Clusters : worker[c] # "none" => c \in inventory
  /\ \A c \in merged : worker[c] = "returned"

\* Why a region ends the way it does.
RegionOutcome ==
  \A r \in Regions :
    /\ region[r] = "returned" => Members(r) \subseteq merged
    /\ region[r] \in {"draining", "raised"} => Lost(r)
    /\ region[r] = "draining" => \E c \in Members(r) : worker[c] = "raised"

\* The main thread is past the outer pool only when every region is collected.
PoolLeft ==
  /\ \A r \in collected : region[r] \in {"returned", "raised"}
  /\ main \in {"costing", "publishing", "replacing"} => RegionsUsed \subseteq collected

PoolInv ==
  /\ WorkersInsidePool
  /\ RegionsInsidePool
  /\ UnstartedRegions
  /\ MergedReturned
  /\ RegionOutcome
  /\ PoolLeft

-----------------------------------------------------------------------------
(* The inductive invariant: what is on disk                                *)

\* A contribution is settled once it reports a shard, and a worker that
\* returned reports a shard or an error.
ContributionSettled ==
  \A c \in Clusters :
    /\ contribution[c].shard => worker[c] = "returned" \/ main = "killed"
    /\ worker[c] = "returned" => contribution[c].shard \/ contribution[c].error

\* A contribution that reports a shard has it on disk, from this run.
ShardsFresh ==
  \A c \in Clusters : contribution[c].shard =>
    /\ shardFile[IdOf[c]] # NoFile
    /\ shardFile[IdOf[c]].run = run
    /\ UniqueIds => shardFile[IdOf[c]] =
                      [by |-> c, run |-> run, error |-> contribution[c].error]

\* The manifest is never from the future, and publishing ends the run with
\* the merged result.
ManifestAge ==
  /\ manifest # NoFile => manifest.run <= run
  /\ Published =>
       /\ main = "exited"
       /\ collected = RegionsUsed
       /\ manifest.entries = AllShardIds
       /\ manifest.errors = AllErrors
       /\ exit = ExitCode

\* A process that ended without publishing says so.
ExitSettled ==
  /\ main # "idle" => run > 0
  /\ main = "exited" /\ ~Published => exit \in {1, 2}

\* A temporary file of this run belongs to a write in progress, or the process
\* was killed.
TmpOwned ==
  \A t \in tmp :
    /\ t[1] <= run
    /\ t[1] = run => \/ main = "killed"
                     \/ main = "replacing" /\ t[2] = ManifestTmp
                     \/ t[2] \in Clusters /\ worker[t[2]] = "renaming"

DiskInv ==
  /\ ContributionSettled
  /\ ShardsFresh
  /\ ManifestAge
  /\ ExitSettled
  /\ TmpOwned
  /\ ManifestTrustworthy

IInv == TypeOK /\ PoolInv /\ DiskInv

-----------------------------------------------------------------------------
(* Type correctness                                                        *)

USE DEF memory, disk, vars

LEMMA InitType == Init => TypeOK
  BY DEF Init, TypeOK, Contribution

LEMMA ProcessType ==
  ASSUME TypeOK, Kill \/ InventoryUnreadable \/ \E I \in SUBSET Clusters : Start(I)
  PROVE  TypeOK'
  <1>1. CASE Kill
    BY <1>1 DEF Kill, TypeOK
  <1>2. CASE InventoryUnreadable
    BY <1>2, MaxRunsAssumption DEF InventoryUnreadable, TypeOK, Contribution
  <1>3. ASSUME NEW I \in SUBSET Clusters, Start(I)
        PROVE  TypeOK'
    BY <1>3, MaxRunsAssumption DEF Start, TypeOK, Contribution
  <1> QED
    BY <1>1, <1>2, <1>3

LEMMA RegionType ==
  ASSUME TypeOK, NEW r \in Regions, RegionStep(r)
  PROVE  TypeOK'
  <1>1. CASE StartRegion(r)
    BY <1>1 DEF StartRegion, TypeOK
  <1>2. CASE ShardDirFails(r)
    BY <1>2 DEF ShardDirFails, TypeOK
  <1>3. CASE RegionReturns(r)
    BY <1>3 DEF RegionReturns, TypeOK
  <1>4. CASE RegionRaises(r)
    BY <1>4 DEF RegionRaises, TypeOK
  <1> QED
    BY <1>1, <1>2, <1>3, <1>4 DEF RegionStep

LEMMA ClusterType ==
  ASSUME TypeOK, NEW c \in Clusters, ClusterStep(c)
  PROVE  TypeOK'
  <1> USE DEF Worker, WorkerBusy, WorkerDone
  <1>1. CASE StartCluster(c)
    BY <1>1 DEF StartCluster, TypeOK
  <1>2. CASE ClientFails(c)
    BY <1>2 DEF ClientFails, TypeOK
  <1>6. CASE FetchFails(c)
    <2>1. contribution' \in [Clusters -> Contribution]
      BY <1>6 DEF FetchFails, TypeOK, Contribution
    <2> QED
      BY <1>6, <2>1 DEF FetchFails, TypeOK
  <1>7. CASE FetchSucceeds(c)
    BY <1>7 DEF FetchSucceeds, TypeOK
  <1>8. ASSUME NEW ok \in BOOLEAN, LatencyEnds(c, ok)
        PROVE  TypeOK'
    <2>1. contribution' \in [Clusters -> Contribution]
      BY <1>8 DEF LatencyEnds, TypeOK, Contribution
    <2> QED
      BY <1>8, <2>1 DEF LatencyEnds, TypeOK
  <1>3. CASE OpenShardTmp(c)
    BY <1>3 DEF OpenShardTmp, TypeOK
  <1>4. CASE ReplaceShard(c)
    <2>1. contribution' \in [Clusters -> Contribution]
      BY <1>4 DEF ReplaceShard, TypeOK, Contribution
    <2>2. shardFile' \in [Ids -> Shard \cup {NoFile}]
      BY <1>4, ClustersAssumption DEF ReplaceShard, TypeOK, Contribution, Shard
    <2> QED
      BY <1>4, <2>1, <2>2 DEF ReplaceShard, TypeOK
  <1>5. CASE ShardWriteFails(c)
    BY <1>5 DEF ShardWriteFails, TypeOK
  <1> QED
    BY <1>1, <1>2, <1>3, <1>4, <1>5, <1>6, <1>7, <1>8 DEF ClusterStep

\* What the manifest is made of.
LEMMA ResultType ==
  ASSUME TypeOK
  PROVE  /\ AllShardIds \in SUBSET Clusters
         /\ AllErrors \in SUBSET (Clusters \cup Regions)
         /\ [run |-> run, entries |-> AllShardIds, errors |-> AllErrors] \in Manifest
  <1>1. AllShardIds \in SUBSET Clusters
    BY DEF AllShardIds, ShardIds, Members, TypeOK
  <1>2. AllErrors \in SUBSET (Clusters \cup Regions)
    BY DEF AllErrors, Errors, Members, TypeOK
  <1> QED
    BY <1>1, <1>2 DEF Manifest, TypeOK

LEMMA MainType ==
  ASSUME TypeOK, MainStep
  PROVE  TypeOK'
  <1>1. ASSUME NEW r \in Regions, CollectRegion(r)
        PROVE  TypeOK'
    BY <1>1 DEF CollectRegion, TypeOK
  <1>2. CASE LeavePool
    BY <1>2 DEF LeavePool, TypeOK
  <1>3. CASE CollectCost
    BY <1>3 DEF CollectCost, TypeOK
  <1>4. CASE OpenManifestTmp
    BY <1>4 DEF OpenManifestTmp, TypeOK
  <1>5. CASE ReplaceManifest
    <2>3. manifest' \in Manifest
      BY <1>5, ResultType DEF ReplaceManifest
    <2>4. exit' \in {-1, 0, 1, 2}
      BY <1>5 DEF ReplaceManifest, ExitCode
    <2> QED
      BY <1>5, <2>3, <2>4 DEF ReplaceManifest, TypeOK
  <1>6. CASE ManifestWriteFails
    BY <1>6 DEF ManifestWriteFails, TypeOK
  <1> QED
    BY <1>1, <1>2, <1>3, <1>4, <1>5, <1>6 DEF MainStep

LEMMA NextType ==
  ASSUME TypeOK, [Next]_vars
  PROVE  TypeOK'
  <1>1. ASSUME NEW c \in Clusters, MergeCluster(c)
        PROVE  TypeOK'
    BY <1>1 DEF MergeCluster, TypeOK
  <1>2. ASSUME NEW c \in Clusters, ClusterRaises(c)
        PROVE  TypeOK'
    BY <1>2 DEF ClusterRaises, TypeOK
  <1>3. CASE UNCHANGED vars
    BY <1>3 DEF TypeOK
  <1> QED
    BY <1>1, <1>2, <1>3, ProcessType, RegionType, ClusterType, MainType
    DEF Next, ProgramStep

\* Type correctness: every variable keeps its type in every behaviour.
THEOREM TypeCorrect == Spec => []TypeOK
  BY InitType, NextType, PTL DEF Spec

-----------------------------------------------------------------------------
(* The pools                                                               *)

LEMMA InitPool == Init => PoolInv
  BY DEF Init, PoolInv, WorkersInsidePool, RegionsInsidePool, UnstartedRegions,
         MergedReturned, RegionOutcome, PoolLeft, WorkerBusy, RegionBusy

LEMMA ProcessPool ==
  ASSUME TypeOK, PoolInv,
         Kill \/ InventoryUnreadable \/ \E I \in SUBSET Clusters : Start(I)
  PROVE  PoolInv'
  <1> USE DEF PoolInv, WorkersInsidePool, RegionsInsidePool, UnstartedRegions, MergedReturned,
              RegionOutcome, PoolLeft, WorkerBusy, RegionBusy, TypeOK
  <1>1. CASE Kill
    BY <1>1, ClustersAssumption DEF Kill
  <1>2. CASE InventoryUnreadable
    BY <1>2, ClustersAssumption DEF InventoryUnreadable
  <1>3. ASSUME NEW I \in SUBSET Clusters, Start(I)
        PROVE  PoolInv'
    BY <1>3, ClustersAssumption DEF Start, RegionsUsed
  <1> QED
    BY <1>1, <1>2, <1>3

LEMMA RegionPool ==
  ASSUME TypeOK, PoolInv, NEW r \in Regions, RegionStep(r)
  PROVE  PoolInv'
  <1> USE ClustersAssumption
      DEF PoolInv, WorkersInsidePool, RegionsInsidePool, UnstartedRegions, MergedReturned,
          RegionOutcome, PoolLeft, WorkerBusy, WorkerDone, RegionBusy, Members, RegionsUsed,
          Lost, TypeOK
  <1>1. CASE StartRegion(r)
    BY <1>1 DEF StartRegion
  <1>2. CASE ShardDirFails(r)
    BY <1>2 DEF ShardDirFails
  <1>3. CASE RegionReturns(r)
    BY <1>3 DEF RegionReturns
  <1>4. CASE RegionRaises(r)
    BY <1>4 DEF RegionRaises, PoolJoined
  <1> QED
    BY <1>1, <1>2, <1>3, <1>4 DEF RegionStep

\* A step of cluster c that moves its worker along.
LEMMA ClusterPool ==
  ASSUME TypeOK, PoolInv, NEW c \in Clusters, NEW to \in WorkerBusy \cup WorkerDone,
         worker[c] \in WorkerBusy \cup {"queued"},
         worker' = [worker EXCEPT ![c] = to],
         UNCHANGED <<run, main, exit, inventory, region, merged, collected>>
  PROVE  PoolInv'
  BY ClustersAssumption
  DEF PoolInv, WorkersInsidePool, RegionsInsidePool, UnstartedRegions, MergedReturned,
      RegionOutcome, PoolLeft, WorkerBusy, WorkerDone, RegionBusy, Members, RegionsUsed,
      Lost, TypeOK

LEMMA ClusterStepMoves ==
  ASSUME TypeOK, NEW c \in Clusters, ClusterStep(c)
  PROVE  /\ worker[c] \in WorkerBusy \cup {"queued"}
         /\ \E to \in WorkerBusy \cup WorkerDone : worker' = [worker EXCEPT ![c] = to]
         /\ UNCHANGED <<run, main, exit, inventory, region, merged, collected, manifest>>
  BY DEF ClusterStep, StartCluster, ClientFails, FetchFails, FetchSucceeds, LatencyEnds,
         OpenShardTmp, ReplaceShard, ShardWriteFails, Worker, WorkerBusy, WorkerDone

LEMMA MainPool ==
  ASSUME TypeOK, PoolInv, MainStep
  PROVE  PoolInv'
  <1> USE ClustersAssumption
      DEF PoolInv, WorkersInsidePool, RegionsInsidePool, UnstartedRegions, MergedReturned,
          RegionOutcome, PoolLeft, WorkerBusy, RegionBusy, Members, RegionsUsed, Lost, TypeOK
  <1>1. ASSUME NEW r \in Regions, CollectRegion(r)
        PROVE  PoolInv'
    BY <1>1 DEF CollectRegion
  <1>2. CASE LeavePool
    BY <1>2 DEF LeavePool, AllCollected
  <1>3. CASE CollectCost
    BY <1>3 DEF CollectCost
  <1>4. CASE OpenManifestTmp
    BY <1>4 DEF OpenManifestTmp
  <1>5. CASE ReplaceManifest
    BY <1>5 DEF ReplaceManifest
  <1>6. CASE ManifestWriteFails
    BY <1>6 DEF ManifestWriteFails
  <1> QED
    BY <1>1, <1>2, <1>3, <1>4, <1>5, <1>6 DEF MainStep

LEMMA MergePool ==
  ASSUME TypeOK, PoolInv, NEW c \in Clusters, MergeCluster(c) \/ ClusterRaises(c)
  PROVE  PoolInv'
  <1> USE ClustersAssumption
      DEF PoolInv, WorkersInsidePool, RegionsInsidePool, UnstartedRegions, MergedReturned,
          RegionOutcome, PoolLeft, WorkerBusy, RegionBusy, Members, RegionsUsed, Lost, TypeOK
  <1>1. CASE MergeCluster(c)
    BY <1>1 DEF MergeCluster
  <1>2. CASE ClusterRaises(c)
    BY <1>2 DEF ClusterRaises
  <1> QED
    BY <1>1, <1>2

LEMMA NextPool ==
  ASSUME TypeOK, PoolInv, [Next]_vars
  PROVE  PoolInv'
  <1>1. ASSUME NEW c \in Clusters, ClusterStep(c)
        PROVE  PoolInv'
    BY <1>1, ClusterPool, ClusterStepMoves
  <1>2. CASE UNCHANGED vars
    BY <1>2 DEF PoolInv, WorkersInsidePool, RegionsInsidePool, UnstartedRegions,
                MergedReturned, RegionOutcome, PoolLeft, Members, RegionsUsed, Lost
  <1> QED
    BY <1>1, <1>2, ProcessPool, RegionPool, MainPool, MergePool DEF Next, ProgramStep

-----------------------------------------------------------------------------
(* The disk                                                                *)

\* What a region contributes to the manifest depends on its future, its
\* clusters' contributions and what was merged, and on nothing else.
LEMMA SameResult ==
  ASSUME UNCHANGED <<inventory, region, contribution, merged, collected>>
  PROVE  /\ AllShardIds' = AllShardIds
         /\ AllErrors' = AllErrors
         /\ ExitCode' = ExitCode
         /\ RegionsUsed' = RegionsUsed
  BY DEF AllShardIds, ShardIds, AllErrors, Errors, Members, ExitCode, RegionFailed, RegionsUsed

\* Once the run has published, nothing inside the process moves any more.
LEMMA PublishedIsEnd ==
  ASSUME TypeOK, PoolInv, ManifestAge, Published
  PROVE  /\ main = "exited"
         /\ \A r \in Regions : region[r] \in {"none", "returned", "raised"}
         /\ \A c \in Clusters : worker[c] \in {"none"} \cup WorkerDone
  BY ClustersAssumption
  DEF PoolInv, WorkersInsidePool, RegionsInsidePool, ManifestAge, TypeOK, RegionBusy,
      WorkerBusy, WorkerDone

LEMMA InitDisk == Init => DiskInv
  BY DEF Init, DiskInv, ContributionSettled, ShardsFresh, ManifestAge, ExitSettled, TmpOwned,
         ManifestTrustworthy, Published

LEMMA ProcessDisk ==
  ASSUME TypeOK, PoolInv, DiskInv,
         Kill \/ InventoryUnreadable \/ \E I \in SUBSET Clusters : Start(I)
  PROVE  DiskInv'
  <1> USE DEF DiskInv, ContributionSettled, ShardsFresh, ManifestAge, ExitSettled, TmpOwned,
              ManifestTrustworthy, Published, Stopped, TypeOK
  <1>1. CASE Kill
    BY <1>1 DEF Kill
  <1>2. CASE InventoryUnreadable
    BY <1>2 DEF InventoryUnreadable, Manifest
  <1>3. ASSUME NEW I \in SUBSET Clusters, Start(I)
        PROVE  DiskInv'
    BY <1>3 DEF Start, Manifest
  <1> QED
    BY <1>1, <1>2, <1>3

\* A step of the running program that writes no file and settles no contribution.
LEMMA QuietDisk ==
  ASSUME TypeOK, PoolInv, DiskInv,
         main \in {"collecting", "costing"},
         main' \in {"collecting", "costing", "publishing"},
         UNCHANGED <<run, exit, inventory, contribution, disk>>,
         \A c \in Clusters :
           \/ worker'[c] = worker[c]
           \/ /\ worker[c] \in {"none", "queued", "fetching"}
              /\ worker'[c] # "returned"
  PROVE  DiskInv'
  <1> USE DEF DiskInv
  <1>1. ContributionSettled'
    BY DEF ContributionSettled
  <1>2. ShardsFresh'
    BY DEF ShardsFresh
  <1>3. ManifestAge' /\ ManifestTrustworthy' /\ ExitSettled'
    BY DEF ManifestAge, ManifestTrustworthy, ExitSettled, Published
  <1>4. TmpOwned'
    BY DEF TmpOwned
  <1> QED
    BY <1>1, <1>2, <1>3, <1>4

\* A worker with work left means that the outer pool is open.
LEMMA BusyMeansCollecting ==
  ASSUME TypeOK, PoolInv, NEW c \in Clusters, worker[c] \in WorkerBusy \cup {"queued"}
  PROVE  main = "collecting"
  BY ClustersAssumption DEF PoolInv, WorkersInsidePool, RegionsInsidePool, TypeOK, RegionBusy

\* No shard is written, and no contribution that reports one changes.
LEMMA ShardsStayFresh ==
  ASSUME ShardsFresh, UNCHANGED <<run, shardFile>>,
         \A d \in Clusters : contribution'[d].shard => contribution'[d] = contribution[d]
  PROVE  ShardsFresh'
  BY DEF ShardsFresh

LEMMA ClusterDisk ==
  ASSUME TypeOK, PoolInv, DiskInv, NEW c \in Clusters, ClusterStep(c)
  PROVE  DiskInv'
  <1>1. main = "collecting" /\ ~Published
    BY ClusterStepMoves, BusyMeansCollecting DEF DiskInv, ManifestAge
  <1>2. CASE StartCluster(c)
    BY <1>1, <1>2, QuietDisk DEF StartCluster, Worker, TypeOK
  <1>3. CASE ClientFails(c)
    BY <1>1, <1>3, QuietDisk DEF ClientFails, Worker, TypeOK
  <1>4. CASE FetchSucceeds(c)
    BY <1>1, <1>4, QuietDisk DEF FetchSucceeds, Worker, TypeOK
  <1>5. CASE FetchFails(c)
    <2> USE <1>1, <1>5 DEF FetchFails, Worker, DiskInv, TypeOK
    <2>1. ContributionSettled' /\ ShardsFresh'
      <3>1. ~contribution[c].shard /\ ~contribution'[c].shard /\ contribution'[c].error
        BY DEF ContributionSettled, Contribution
      <3>2. \A d \in Clusters \ {c} :
              contribution'[d] = contribution[d] /\ worker'[d] = worker[d]
        OBVIOUS
      <3>3. worker'[c] = "returned" /\ UNCHANGED <<main, run, shardFile>>
        OBVIOUS
      <3>4. ContributionSettled'
        BY <3>1, <3>2, <3>3 DEF ContributionSettled
      <3>5. \A d \in Clusters : contribution'[d].shard => contribution'[d] = contribution[d]
        BY <3>1, <3>2
      <3>6. ShardsFresh'
        BY <3>3, <3>5, ShardsStayFresh
      <3> QED
        BY <3>4, <3>6
    <2>2. ManifestAge' /\ ManifestTrustworthy' /\ ExitSettled' /\ TmpOwned'
      BY DEF ManifestAge, ManifestTrustworthy, ExitSettled, TmpOwned, Published
    <2> QED
      BY <2>1, <2>2
  <1>6. ASSUME NEW ok \in BOOLEAN, LatencyEnds(c, ok)
        PROVE  DiskInv'
    <2> USE <1>1, <1>6 DEF LatencyEnds, Worker, DiskInv, TypeOK
    <2>1. ContributionSettled' /\ ShardsFresh'
      <3>1. ~contribution[c].shard /\ ~contribution'[c].shard
        BY DEF ContributionSettled, Contribution
      <3>2. \A d \in Clusters \ {c} :
              contribution'[d] = contribution[d] /\ worker'[d] = worker[d]
        OBVIOUS
      <3>3. worker'[c] = "writing" /\ UNCHANGED <<main, run, shardFile>>
        OBVIOUS
      <3>4. ContributionSettled'
        BY <3>1, <3>2, <3>3 DEF ContributionSettled
      <3>5. \A d \in Clusters : contribution'[d].shard => contribution'[d] = contribution[d]
        BY <3>1, <3>2
      <3>6. ShardsFresh'
        BY <3>3, <3>5, ShardsStayFresh
      <3> QED
        BY <3>4, <3>6
    <2>2. ManifestAge' /\ ManifestTrustworthy' /\ ExitSettled' /\ TmpOwned'
      BY DEF ManifestAge, ManifestTrustworthy, ExitSettled, TmpOwned, Published
    <2> QED
      BY <2>1, <2>2
  <1>7. CASE OpenShardTmp(c)
    <2> USE <1>1, <1>7 DEF OpenShardTmp, Worker, DiskInv, TypeOK
    <2>1. ContributionSettled' /\ ShardsFresh'
      BY DEF ContributionSettled, ShardsFresh
    <2>2. ManifestAge' /\ ManifestTrustworthy' /\ ExitSettled'
      BY DEF ManifestAge, ManifestTrustworthy, ExitSettled, Published
    <2>3. TmpOwned'
      BY DEF TmpOwned
    <2> QED
      BY <2>1, <2>2, <2>3
  <1>8. CASE ReplaceShard(c)
    <2> USE <1>1, <1>8, ClustersAssumption DEF ReplaceShard, DiskInv, TypeOK
    <2>1. ContributionSettled'
      BY DEF ContributionSettled, Contribution
    <2>2. shardFile'[IdOf[c]] = [by |-> c, run |-> run, error |-> contribution[c].error]
      OBVIOUS
    <2>3. shardFile'[IdOf[c]] \in Shard /\ shardFile'[IdOf[c]] # NoFile
      BY <2>2, NoFileAssumption DEF Shard, Contribution
    <2>4. ShardsFresh'
      BY <2>2, <2>3 DEF ShardsFresh, Contribution, UniqueIds
    <2>5. ManifestAge' /\ ExitSettled'
      BY DEF ManifestAge, ExitSettled, Published
    <2>6. ManifestTrustworthy'
      BY <2>2, <2>3 DEF ManifestTrustworthy, ManifestAge, Manifest
    <2>7. TmpOwned'
      BY DEF TmpOwned
    <2> QED
      BY <2>1, <2>4, <2>5, <2>6, <2>7
  <1>9. CASE ShardWriteFails(c)
    <2> USE <1>1, <1>9 DEF ShardWriteFails, Worker, DiskInv, TypeOK
    <2>1. ContributionSettled' /\ ShardsFresh'
      BY DEF ContributionSettled, ShardsFresh
    <2>2. ManifestAge' /\ ManifestTrustworthy' /\ ExitSettled'
      BY DEF ManifestAge, ManifestTrustworthy, ExitSettled, Published
    <2>3. TmpOwned'
      BY DEF TmpOwned
    <2> QED
      BY <2>1, <2>2, <2>3
  <1> QED
    BY <1>2, <1>3, <1>4, <1>5, <1>6, <1>7, <1>8, <1>9 DEF ClusterStep

LEMMA RegionDisk ==
  ASSUME TypeOK, PoolInv, DiskInv, NEW r \in Regions, RegionStep(r)
  PROVE  DiskInv'
  <1>1. main = "collecting"
    BY DEF RegionStep, StartRegion, ShardDirFails, RegionReturns, RegionRaises, PoolInv,
           RegionsInsidePool, RegionBusy
  <1>2. CASE StartRegion(r)
    BY <1>1, <1>2, QuietDisk
    DEF StartRegion, Members, PoolInv, UnstartedRegions, TypeOK
  <1>3. CASE ShardDirFails(r) \/ RegionReturns(r) \/ RegionRaises(r)
    BY <1>1, <1>3, QuietDisk DEF ShardDirFails, RegionReturns, RegionRaises
  <1> QED
    BY <1>2, <1>3 DEF RegionStep

LEMMA MergeDisk ==
  ASSUME TypeOK, PoolInv, DiskInv, NEW c \in Clusters, MergeCluster(c) \/ ClusterRaises(c)
  PROVE  DiskInv'
  <1>1. main = "collecting"
    BY ClustersAssumption DEF MergeCluster, ClusterRaises, PoolInv, RegionsInsidePool, RegionBusy
  <1> QED
    BY <1>1, QuietDisk DEF MergeCluster, ClusterRaises

LEMMA MainDisk ==
  ASSUME TypeOK, PoolInv, DiskInv, MainStep
  PROVE  DiskInv'
  <1>1. CASE LeavePool \/ CollectCost \/ \E r \in Regions : CollectRegion(r)
    BY <1>1, QuietDisk DEF LeavePool, CollectCost, CollectRegion
  <1>2. CASE OpenManifestTmp
    <2> USE <1>2 DEF OpenManifestTmp, DiskInv, TypeOK
    <2>1. ContributionSettled' /\ ShardsFresh'
      BY DEF ContributionSettled, ShardsFresh
    <2>2. ManifestAge' /\ ManifestTrustworthy' /\ ExitSettled'
      BY DEF ManifestAge, ManifestTrustworthy, ExitSettled, Published
    <2>3. TmpOwned'
      BY DEF TmpOwned
    <2> QED
      BY <2>1, <2>2, <2>3
  <1>3. CASE ReplaceManifest
    <2> USE <1>3 DEF ReplaceManifest, DiskInv, TypeOK
    <2>1. ContributionSettled' /\ ShardsFresh'
      BY DEF ContributionSettled, ShardsFresh
    <2>2. \A c \in AllShardIds : c \in Clusters /\ contribution[c].shard
      BY DEF AllShardIds, ShardIds, Members
    <2>3. ManifestTrustworthy'
      <3>1. manifest'.entries = AllShardIds /\ manifest'.run = run
        OBVIOUS
      <3>2. \A c \in AllShardIds :
              shardFile[IdOf[c]] # NoFile /\ shardFile[IdOf[c]].run = run
        BY <2>2 DEF ShardsFresh
      <3> QED
        BY <3>1, <3>2 DEF ManifestTrustworthy
    <2>4. collected = RegionsUsed
      BY DEF PoolInv, PoolLeft, RegionsInsidePool
    <2>5. ManifestAge'
      <3>1. UNCHANGED <<AllShardIds, AllErrors, ExitCode, RegionsUsed>>
        BY SameResult DEF AllShardIds, ShardIds, AllErrors, Errors, Members, ExitCode,
                         RegionFailed, RegionsUsed
      <3> QED
        BY <2>4, <3>1 DEF ManifestAge, Published
    <2>6. ExitSettled'
      BY NoFileAssumption, ResultType DEF ExitSettled, Published
    <2>7. TmpOwned'
      <3>1. \A t \in tmp : t[1] = run => t[2] = ManifestTmp
        BY BusyMeansCollecting DEF TmpOwned, WorkerBusy
      <3> QED
        BY <3>1 DEF TmpOwned
    <2> QED
      BY <2>1, <2>3, <2>5, <2>6, <2>7
  <1>4. CASE ManifestWriteFails
    <2> USE <1>4 DEF ManifestWriteFails, DiskInv, TypeOK
    <2>1. ContributionSettled' /\ ShardsFresh'
      BY DEF ContributionSettled, ShardsFresh
    <2>2. ManifestAge' /\ ManifestTrustworthy' /\ ExitSettled'
      BY DEF ManifestAge, ManifestTrustworthy, ExitSettled, Published
    <2>3. TmpOwned'
      <3>1. \A t \in tmp : t[1] = run => t[2] = ManifestTmp
        BY BusyMeansCollecting DEF TmpOwned, WorkerBusy
      <3> QED
        BY <3>1 DEF TmpOwned
    <2> QED
      BY <2>1, <2>2, <2>3
  <1> QED
    BY <1>1, <1>2, <1>3, <1>4 DEF MainStep

LEMMA NextDisk ==
  ASSUME TypeOK, PoolInv, DiskInv, [Next]_vars
  PROVE  DiskInv'
  <1>1. CASE UNCHANGED vars
    BY <1>1, SameResult
    DEF DiskInv, ContributionSettled, ShardsFresh, ManifestAge, ExitSettled, TmpOwned,
        ManifestTrustworthy, Published
  <1> QED
    BY <1>1, ProcessDisk, RegionDisk, ClusterDisk, MergeDisk, MainDisk DEF Next, ProgramStep

\* The inductive invariant holds in every behaviour: every theorem below
\* follows from it.
THEOREM InductiveInvariant == Spec => []IInv
  <1>1. Init => IInv
    BY InitType, InitPool, InitDisk DEF IInv
  <1>2. IInv /\ [Next]_vars => IInv'
    BY NextType, NextPool, NextDisk DEF IInv
  <1> QED
    BY <1>1, <1>2, PTL DEF Spec

-----------------------------------------------------------------------------
(* What the invariant gives                                                *)

\* The manifest names only shards that exist and are at least as new as it is,
\* at every moment of every sequence of runs and kills (write_manifest).
THEOREM ManifestIsTrustworthy == Spec => []ManifestTrustworthy
  <1>1. IInv => ManifestTrustworthy
    BY DEF IInv, DiskInv
  <1> QED
    BY <1>1, InductiveInvariant, PTL

\* A process that ends by itself has unlinked or renamed its temporary files
\* (write_atomic).
THEOREM NoTempFileLeft == Spec => []NoTempLeft
  <1>1. IInv => NoTempLeft
    <2> SUFFICES ASSUME IInv, main = "exited", NEW t \in tmp, t[1] = run
                 PROVE  FALSE
      BY DEF NoTempLeft
    <2>1. t[2] \in Clusters /\ worker[t[2]] = "renaming"
      BY DEF IInv, DiskInv, TmpOwned
    <2> QED
      BY <2>1, BusyMeansCollecting DEF IInv, WorkerBusy
  <1> QED
    BY <1>1, InductiveInvariant, PTL

\* In a published run a region is lost exactly when its future raised.
LEMMA LostIsRaised ==
  ASSUME IInv, Published, NEW r \in RegionsUsed
  PROVE  /\ r \in collected
         /\ region[r] \in {"returned", "raised"}
         /\ Lost(r) <=> region[r] = "raised"
         /\ ~Lost(r) => Members(r) \subseteq merged
  <1> USE DEF IInv, PoolInv, DiskInv
  <1>1. r \in collected /\ r \in Regions
    BY ClustersAssumption DEF ManifestAge, RegionsUsed, TypeOK
  <1>2. region[r] \in {"returned", "raised"}
    BY <1>1 DEF PoolLeft
  <1>3. region[r] = "returned" => Members(r) \subseteq merged /\ ~Lost(r)
    BY <1>1 DEF RegionOutcome, MergedReturned, Lost
  <1>4. region[r] = "raised" => Lost(r)
    BY <1>1 DEF RegionOutcome
  <1> QED
    BY <1>1, <1>2, <1>3, <1>4

\* The merged result of a published run, from the clusters' outcomes alone.
LEMMA PublishedResult ==
  ASSUME IInv, Published
  PROVE  LET kept == {c \in inventory : ~Lost(RegionOf[c])}
         IN /\ manifest.entries = {c \in kept : contribution[c].shard}
            /\ manifest.errors = {c \in kept : contribution[c].error}
                                   \cup {r \in RegionsUsed : Lost(r)}
  <1> DEFINE kept == {c \in inventory : ~Lost(RegionOf[c])}
  <1>1. /\ collected = RegionsUsed
        /\ manifest.entries = AllShardIds /\ manifest.errors = AllErrors
    BY DEF IInv, DiskInv, ManifestAge
  <1>2. \A r \in RegionsUsed :
          /\ Lost(r) => ShardIds(r) = {} /\ Errors(r) = {r}
          /\ ~Lost(r) => /\ ShardIds(r) = {c \in Members(r) : contribution[c].shard}
                         /\ Errors(r) = {c \in Members(r) : contribution[c].error}
    BY LostIsRaised DEF ShardIds, Errors
  <1>3. AllShardIds = {c \in kept : contribution[c].shard}
    <2>1. ASSUME NEW c \in AllShardIds
          PROVE  c \in kept /\ contribution[c].shard
      <3>1. PICK r \in RegionsUsed : c \in ShardIds(r)
        BY <1>1 DEF AllShardIds
      <3> QED
        BY <3>1, <1>2 DEF Members
    <2>2. ASSUME NEW c \in kept, contribution[c].shard
          PROVE  c \in AllShardIds
      <3>1. c \in Members(RegionOf[c]) /\ RegionOf[c] \in RegionsUsed
        BY DEF Members, RegionsUsed
      <3> QED
        BY <3>1, <1>1, <1>2, <2>2 DEF AllShardIds
    <2> QED
      BY <2>1, <2>2
  <1>4. AllErrors = {c \in kept : contribution[c].error} \cup {r \in RegionsUsed : Lost(r)}
    <2>1. ASSUME NEW e \in AllErrors
          PROVE  \/ e \in kept /\ contribution[e].error
                 \/ e \in RegionsUsed /\ Lost(e)
      <3>1. PICK r \in RegionsUsed : e \in Errors(r)
        BY <1>1 DEF AllErrors
      <3> QED
        BY <3>1, <1>2 DEF Members
    <2>2. ASSUME NEW c \in kept, contribution[c].error
          PROVE  c \in AllErrors
      <3>1. c \in Members(RegionOf[c]) /\ RegionOf[c] \in RegionsUsed
        BY DEF Members, RegionsUsed
      <3> QED
        BY <3>1, <1>1, <1>2, <2>2 DEF AllErrors
    <2>3. ASSUME NEW r \in RegionsUsed, Lost(r)
          PROVE  r \in AllErrors
      BY <1>1, <1>2, <2>3 DEF AllErrors
    <2> QED
      BY <2>1, <2>2, <2>3
  <1> QED
    BY <1>1, <1>3, <1>4

\* Every region of the inventory failed, in the sense of run(), exactly when
\* no shard was kept.
LEMMA AllFailedIsNoShard ==
  ASSUME IInv, Published, inventory # {}
  PROVE  /\ collected # {}
         /\ (\A r \in collected : RegionFailed(r)) <=> manifest.entries = {}
  <1>1. collected = RegionsUsed /\ manifest.entries = AllShardIds
    BY DEF IInv, DiskInv, ManifestAge
  <1>2. collected # {}
    BY <1>1 DEF RegionsUsed
  <1>3. ASSUME NEW r \in RegionsUsed, ShardIds(r) = {}
        PROVE  Errors(r) # {}
    <2>1. CASE Lost(r)
      BY <2>1, LostIsRaised DEF Errors
    <2>2. CASE ~Lost(r)
      <3>1. PICK c \in Clusters : c \in Members(r) /\ c \in merged
        BY <2>2, LostIsRaised DEF Members, RegionsUsed, IInv, TypeOK
      <3>2. contribution[c].shard \/ contribution[c].error
        BY <3>1 DEF IInv, PoolInv, DiskInv, MergedReturned, ContributionSettled
      <3>3. region[r] # "raised"
        BY <2>2, LostIsRaised
      <3>4. ~contribution[c].shard
        BY <1>3, <3>1, <3>3 DEF ShardIds
      <3> QED
        BY <3>1, <3>2, <3>3, <3>4 DEF Errors
    <2> QED
      BY <2>1, <2>2
  <1>4. (\A r \in RegionsUsed : ShardIds(r) = {}) <=> AllShardIds = {}
    BY <1>1 DEF AllShardIds
  <1> QED
    BY <1>1, <1>2, <1>3, <1>4 DEF RegionFailed

\* What the stage writes and returns does not depend on how its threads were
\* scheduled, for any inventory and any pool size (the promise of
\* tests/test_stage2_concurrency.py about run() and collect()).
THEOREM ScheduleDoesNotMatter == Spec => []ScheduleIndependent
  <1>1. IInv => ScheduleIndependent
    <2> SUFFICES ASSUME IInv, Published
                 PROVE  ScheduleIndependent
      BY DEF ScheduleIndependent
    <2> DEFINE kept == {c \in inventory : ~Lost(RegionOf[c])}
               entries == {c \in kept : contribution[c].shard}
               errors == {c \in kept : contribution[c].error}
                           \cup {r \in RegionsUsed : Lost(r)}
    <2>1. manifest.entries = entries /\ manifest.errors = errors
      BY PublishedResult
    <2>2. exit = ExitCode /\ collected = RegionsUsed /\ manifest.errors = AllErrors
      BY DEF IInv, DiskInv, ManifestAge
    <2>3. CASE inventory = {}
      <3>1. collected = {} /\ AllErrors = {}
        BY <2>2, <2>3 DEF RegionsUsed, AllErrors
      <3> QED
        BY <2>1, <2>2, <2>3, <3>1 DEF ScheduleIndependent, ExitCode
    <2>4. CASE inventory # {}
      <3> HIDE DEF kept, entries, errors
      <3>1. exit = IF inventory # {} /\ entries = {} THEN 2 ELSE IF errors = {} THEN 0 ELSE 1
        BY <2>1, <2>2, <2>4, AllFailedIsNoShard DEF ExitCode
      <3> QED
        BY <2>1, <3>1 DEF ScheduleIndependent, kept, entries, errors
    <2> QED
      BY <2>3, <2>4
  <1> QED
    BY <1>1, InductiveInvariant, PTL

\* Exit code 0 means a complete collection, 2 one without a shard (run()).
THEOREM ExitCodeIsMeaningful == Spec => []ExitCodeMeaning
  <1>1. IInv => ExitCodeMeaning
    <2> SUFFICES ASSUME IInv, main = "exited"
                 PROVE  ExitCodeMeaning
      BY DEF ExitCodeMeaning
    <2>1. CASE ~Published
      BY <2>1 DEF IInv, DiskInv, ExitSettled, ExitCodeMeaning
    <2>2. CASE Published
      <3>1. /\ exit = ExitCode /\ collected = RegionsUsed
            /\ manifest.entries = AllShardIds /\ manifest.errors = AllErrors
        BY <2>2 DEF IInv, DiskInv, ManifestAge
      <3>2. ASSUME AllErrors = {}
            PROVE  manifest.entries = inventory
        <4>1. \A r \in RegionsUsed : ~Lost(r)
          BY <2>2, <3>1, <3>2, PublishedResult
        <4>2. \A c \in inventory : c \in merged /\ ~Lost(RegionOf[c])
          BY <4>1, <2>2, LostIsRaised DEF RegionsUsed, Members
        <4>3. \A c \in inventory : ~contribution[c].error
          BY <2>2, <3>1, <3>2, <4>2, PublishedResult
        <4>4. \A c \in inventory : contribution[c].shard
          BY <4>2, <4>3 DEF IInv, TypeOK, PoolInv, DiskInv, MergedReturned, ContributionSettled
        <4> QED
          BY <2>2, <4>2, <4>4, PublishedResult
      <3>3. ASSUME exit = 2
            PROVE  manifest.entries = {} /\ manifest.errors # {}
        <4>1. inventory # {}
          BY <3>1, <3>3 DEF ExitCode, RegionsUsed, IInv, TypeOK
        <4>2. manifest.entries = {}
          BY <2>2, <3>1, <3>3, <4>1, AllFailedIsNoShard DEF ExitCode
        <4>3. AllErrors # {}
          BY <3>1, <3>2, <4>1, <4>2
        <4> QED
          BY <3>1, <4>2, <4>3
      <3>4. exit = 0 => AllErrors = {}
        BY <3>1 DEF ExitCode
      <3>5. exit = 1 => AllErrors # {}
        BY <3>1 DEF ExitCode
      <3>6. exit \in {0, 1, 2}
        BY <3>1 DEF ExitCode
      <3> QED
        BY <2>2, <3>1, <3>2, <3>3, <3>4, <3>5, <3>6 DEF ExitCodeMeaning
    <2> QED
      BY <2>1, <2>2
  <1> QED
    BY <1>1, InductiveInvariant, PTL

\* Until the next run starts, every shard the manifest names is that cluster's,
\* of this run, and its recorded error is the manifest's (write_one_shard).
THEOREM ShardsAgreeWithManifest == Spec => []ShardsMatchManifest
  <1>1. IInv => ShardsMatchManifest
    <2> SUFFICES ASSUME IInv, Published, UniqueIds, NEW c \in manifest.entries
                 PROVE  shardFile[IdOf[c]] =
                          [by |-> c, run |-> run, error |-> c \in manifest.errors]
      BY DEF ShardsMatchManifest
    <2>1. c \in inventory /\ ~Lost(RegionOf[c]) /\ contribution[c].shard
      BY PublishedResult
    <2>2. c \in Clusters /\ c \notin Regions
      BY <2>1, ClustersAssumption DEF IInv, TypeOK
    <2>3. c \in manifest.errors <=> contribution[c].error
      <3>1. c \notin RegionsUsed
        BY <2>2, ClustersAssumption DEF RegionsUsed, IInv, TypeOK
      <3> QED
        BY <2>1, <3>1, PublishedResult
    <2>4. contribution[c].error \in BOOLEAN /\ (c \in manifest.errors) \in BOOLEAN
      BY <2>2 DEF IInv, TypeOK, Contribution
    <2>5. (c \in manifest.errors) = contribution[c].error
      BY <2>3, <2>4, Zenon
    <2>6. shardFile[IdOf[c]] = [by |-> c, run |-> run, error |-> contribution[c].error]
      BY <2>1, <2>2 DEF IInv, DiskInv, ShardsFresh
    <2> QED
      BY <2>5, <2>6, Zenon
  <1> QED
    BY <1>1, InductiveInvariant, PTL

-----------------------------------------------------------------------------
(* Action properties and refinement                                        *)

\* Only three actions change a file that readers see.
LEMMA FilesChange ==
  ASSUME [Next]_vars
  PROVE  /\ manifest' # manifest => ReplaceManifest
         /\ shardFile' # shardFile => \E c \in Clusters : ReplaceShard(c)
  BY DEF Next, ProgramStep, ClusterStep, RegionStep, MainStep, Start, InventoryUnreadable, Kill,
         StartRegion, ShardDirFails, MergeCluster, ClusterRaises, RegionReturns, RegionRaises,
         StartCluster, ClientFails, FetchFails, FetchSucceeds, LatencyEnds, OpenShardTmp,
         ReplaceShard, ShardWriteFails, Worker, CollectRegion, LeavePool, CollectCost,
         OpenManifestTmp, ReplaceManifest, ManifestWriteFails

\* The manifest is the last file a run writes: no worker is left when it is
\* replaced and no shard follows it (the order of run() and write_manifest()).
THEOREM ManifestComesLast == Spec => ManifestIsLast
  <1>1. IInv /\ [Next]_vars =>
          [/\ manifest' # manifest =>
                \A c \in Clusters : worker[c] \notin WorkerBusy \cup {"queued"}
           /\ shardFile' # shardFile => ~Published]_vars
    <2> SUFFICES ASSUME IInv, [Next]_vars
                 PROVE  /\ manifest' # manifest =>
                             \A c \in Clusters : worker[c] \notin WorkerBusy \cup {"queued"}
                        /\ shardFile' # shardFile => ~Published
      OBVIOUS
    <2>1. ReplaceManifest => \A c \in Clusters : worker[c] \notin WorkerBusy \cup {"queued"}
      BY BusyMeansCollecting DEF ReplaceManifest, IInv
    <2>2. ASSUME NEW c \in Clusters, ReplaceShard(c)
          PROVE  ~Published
      BY <2>2, PublishedIsEnd DEF ReplaceShard, IInv, DiskInv, WorkerDone
    <2> QED
      BY <2>1, <2>2, FilesChange
  <1> QED
    BY <1>1, InductiveInvariant, PTL DEF Spec, ManifestIsLast

\* Neither the pools nor the process write anything by themselves.
LEMMA OtherStepsStutter ==
  ASSUME [Next]_vars
  PROVE  \/ UNCHANGED <<run, shardFile, manifest>>
         \/ run' = run + 1 /\ UNCHANGED <<shardFile, manifest>>
         \/ \E c \in Clusters : ReplaceShard(c)
         \/ ReplaceManifest
  BY DEF Next, ProgramStep, ClusterStep, RegionStep, MainStep, Start, InventoryUnreadable, Kill,
         StartRegion, ShardDirFails, MergeCluster, ClusterRaises, RegionReturns, RegionRaises,
         StartCluster, ClientFails, FetchFails, FetchSucceeds, LatencyEnds, OpenShardTmp,
         ShardWriteFails, Worker, CollectRegion, LeavePool, CollectCost,
         OpenManifestTmp, ManifestWriteFails

\* The stage implements its contract with the readers: a started process is a
\* new era, a renamed shard a written item, the renamed manifest the published
\* index, and every other step changes nothing a reader sees.
THEOREM ImplementsStore == Spec => StoreSpec
  <1> DEFINE shard == [i \in Ids |-> IF shardFile[i] = NoFile THEN 0 ELSE shardFile[i].run]
             index == IF manifest = NoFile THEN [era |-> 0, ids |-> {}]
                      ELSE [era |-> manifest.run, ids |-> {IdOf[c] : c \in manifest.entries}]
  <1>1. Init => Store!Init
    BY DEF Init, Store!Init
  <1>2. ASSUME IInv, [Next]_vars
        PROVE  [Store!Next]_<<run, shard, index>>
    <2> USE <1>2
    <2>1. CASE UNCHANGED <<run, shardFile, manifest>>
      BY <2>1
    <2>2. CASE run' = run + 1 /\ UNCHANGED <<shardFile, manifest>>
      <3>1. shard' = shard /\ index' = index
        BY <2>2
      <3> QED
        BY <2>2, <3>1 DEF Store!Next, Store!NewEra
    <2>3. ASSUME NEW c \in Clusters, ReplaceShard(c)
          PROVE  Store!Next
      <3> DEFINE item == [by |-> c, run |-> run, error |-> contribution[c].error]
      <3>1. IdOf[c] \in Ids
        BY ClustersAssumption
      <3>2. shardFile' = [shardFile EXCEPT ![IdOf[c]] = item] /\ UNCHANGED <<run, manifest>>
        BY <2>3 DEF ReplaceShard
      <3>3. item \in Shard /\ item # NoFile
        BY NoFileAssumption DEF Shard, IInv, TypeOK, Contribution
      <3>4. shard' = [shard EXCEPT ![IdOf[c]] = run]
        <4> HIDE DEF item
        <4>1. item.run = run
          BY DEF item
        <4> QED
          BY <3>1, <3>2, <3>3, <4>1 DEF IInv, TypeOK
      <3>5. index.era < run
        <4>1. main = "collecting" /\ ~Published
          BY <2>3, BusyMeansCollecting
          DEF ReplaceShard, WorkerBusy, IInv, DiskInv, ManifestAge
        <4>2. run > 0 /\ (manifest # NoFile => manifest.run < run)
          BY <4>1 DEF IInv, DiskInv, ExitSettled, ManifestAge, Published, TypeOK, Manifest
        <4> QED
          BY <4>2
      <3>6. index' = index
        BY <3>2
      <3> QED
        BY <3>1, <3>2, <3>4, <3>5, <3>6 DEF Store!WriteItem, Store!Next
    <2>4. ASSUME ReplaceManifest
          PROVE  Store!Next
      <3> DEFINE doc == [run |-> run, entries |-> AllShardIds, errors |-> AllErrors]
      <3>1. manifest' = doc /\ UNCHANGED <<run, shardFile>> /\ doc \in Manifest /\ doc # NoFile
        BY <2>4, ResultType, NoFileAssumption DEF ReplaceManifest, IInv
      <3>2. index.era < run
        <4>1. main = "replacing" /\ ~Published
          BY <2>4 DEF ReplaceManifest, IInv, DiskInv, ManifestAge
        <4>2. run > 0 /\ (manifest # NoFile => manifest.run < run)
          BY <4>1 DEF IInv, DiskInv, ExitSettled, ManifestAge, Published, TypeOK, Manifest
        <4> QED
          BY <4>2
      <3>3. \A c \in AllShardIds :
              IdOf[c] \in Ids /\ shardFile[IdOf[c]] # NoFile /\ shardFile[IdOf[c]].run = run
        <4>1. \A c \in AllShardIds : c \in Clusters /\ contribution[c].shard
          BY DEF AllShardIds, ShardIds, Members, IInv, TypeOK
        <4>2. \A c \in Clusters : IdOf[c] \in Ids
          BY ClustersAssumption
        <4> QED
          BY <4>1, <4>2 DEF IInv, DiskInv, ShardsFresh
      <3>4. PICK S \in SUBSET Ids : S = {IdOf[c] : c \in AllShardIds}
        BY <3>3
      <3>5. index' = [era |-> run, ids |-> S]
        BY <3>1, <3>4
      <3>6. \A i \in S : shard[i] = run
        BY <3>3, <3>4
      <3>7. shard' = shard
        BY <3>1
      <3>8. Store!Publish(S)
        BY <3>1, <3>2, <3>5, <3>6, <3>7 DEF Store!Publish
      <3> QED
        BY <3>8 DEF Store!Next
    <2> QED
      BY <2>1, <2>2, <2>3, <2>4, OtherStepsStutter
  <1> QED
    BY <1>1, <1>2, InductiveInvariant, PTL DEF Spec, StoreSpec, Store!Spec

-----------------------------------------------------------------------------
(* The bound on memory                                                     *)

\* A pool that loses items, or gets one while it has room, keeps its bound.
LEMMA PoolStaysBounded ==
  ASSUME NEW S, IsFiniteSet(S), Cardinality(S) <= Concurrency,
         NEW T,
         \/ T \subseteq S
         \/ Cardinality(S) < Concurrency /\ \E x : T \subseteq S \cup {x}
  PROVE  Cardinality(T) <= Concurrency
  <1> USE ConcurrencyAssumption
  <1>1. Cardinality(S) \in Nat
    BY FS_CardinalityType
  <1>2. CASE T \subseteq S
    <2>1. IsFiniteSet(T) /\ Cardinality(T) <= Cardinality(S)
      BY <1>2, FS_Subset
    <2>2. Cardinality(T) \in Nat
      BY <2>1, FS_CardinalityType
    <2> QED
      BY <1>1, <2>1, <2>2
  <1>3. ASSUME Cardinality(S) < Concurrency, NEW x, T \subseteq S \cup {x}
        PROVE  Cardinality(T) <= Concurrency
    <2>1. IsFiniteSet(S \cup {x}) /\ Cardinality(S \cup {x}) <= Cardinality(S) + 1
      BY <1>1, FS_AddElement
    <2>2. IsFiniteSet(T) /\ Cardinality(T) <= Cardinality(S \cup {x})
      BY <1>3, <2>1, FS_Subset
    <2>3. Cardinality(T) \in Nat /\ Cardinality(S \cup {x}) \in Nat
      BY <2>1, <2>2, FS_CardinalityType
    <2> QED
      BY <1>1, <1>3, <2>1, <2>2, <2>3
  <1> QED
    BY <1>2, <1>3

\* Every pool within its size.
PoolSizes ==
  /\ Cardinality(BusyRegions) <= Concurrency
  /\ \A r \in Regions : Cardinality(BusyIn(r)) <= Concurrency

LEMMA PoolsFinite ==
  ASSUME TypeOK
  PROVE  /\ IsFiniteSet(BusyRegions)
         /\ \A r \in Regions : IsFiniteSet(BusyIn(r))
  <1>1. BusyRegions \subseteq Regions /\ \A r \in Regions : BusyIn(r) \subseteq Clusters
    BY DEF BusyRegions, BusyIn, Members, TypeOK
  <1> QED
    BY <1>1, ClustersAssumption, FS_Subset

\* A step adds at most one region to the outer pool, and only when it has room.
LEMMA OuterPoolStep ==
  ASSUME TypeOK, [Next]_vars
  PROVE  \/ BusyRegions' \subseteq BusyRegions
         \/ RegionSlotFree /\ \E r \in Regions : BusyRegions' \subseteq BusyRegions \cup {r}
  <1> USE DEF BusyRegions, RegionBusy, TypeOK
  <1>1. CASE Kill \/ InventoryUnreadable \/ \E I \in SUBSET Clusters : Start(I)
    BY <1>1 DEF Kill, InventoryUnreadable, Start
  <1>2. ASSUME NEW r \in Regions, StartRegion(r)
        PROVE  RegionSlotFree /\ BusyRegions' \subseteq BusyRegions \cup {r}
    BY <1>2 DEF StartRegion
  <1>3. ASSUME NEW r \in Regions, ShardDirFails(r) \/ RegionReturns(r) \/ RegionRaises(r)
        PROVE  BusyRegions' \subseteq BusyRegions
    BY <1>3 DEF ShardDirFails, RegionReturns, RegionRaises
  <1>4. ASSUME NEW c \in Clusters, MergeCluster(c) \/ ClusterRaises(c)
        PROVE  BusyRegions' \subseteq BusyRegions
    BY <1>4, ClustersAssumption DEF MergeCluster, ClusterRaises
  <1>5. ASSUME NEW c \in Clusters, ClusterStep(c)
        PROVE  BusyRegions' \subseteq BusyRegions
    BY <1>5, ClusterStepMoves
  <1>6. CASE MainStep
    BY <1>6 DEF MainStep, CollectRegion, LeavePool, CollectCost, OpenManifestTmp,
                ReplaceManifest, ManifestWriteFails
  <1>7. CASE UNCHANGED vars
    BY <1>7
  <1> QED
    BY <1>1, <1>2, <1>3, <1>4, <1>5, <1>6, <1>7 DEF Next, ProgramStep, RegionStep

\* A step adds at most one cluster to a region's pool, and only when it has room.
LEMMA InnerPoolStep ==
  ASSUME TypeOK, PoolInv, [Next]_vars, NEW r \in Regions
  PROVE  \/ BusyIn(r)' \subseteq BusyIn(r)
         \/ ClusterSlotFree(r) /\ \E c \in Clusters : BusyIn(r)' \subseteq BusyIn(r) \cup {c}
  <1> USE DEF BusyIn, WorkerBusy, Members, TypeOK
  <1>1. CASE Kill \/ InventoryUnreadable \/ \E I \in SUBSET Clusters : Start(I)
    BY <1>1 DEF Kill, InventoryUnreadable, Start
  <1>2. ASSUME NEW s \in Regions, StartRegion(s)
        PROVE  BusyIn(r)' \subseteq BusyIn(r)
    BY <1>2 DEF StartRegion
  <1>3. ASSUME NEW s \in Regions, ShardDirFails(s) \/ RegionReturns(s) \/ RegionRaises(s)
        PROVE  BusyIn(r)' \subseteq BusyIn(r)
    BY <1>3 DEF ShardDirFails, RegionReturns, RegionRaises
  <1>4. ASSUME NEW c \in Clusters, MergeCluster(c) \/ ClusterRaises(c)
        PROVE  BusyIn(r)' \subseteq BusyIn(r)
    BY <1>4 DEF MergeCluster, ClusterRaises
  <1>5. ASSUME NEW c \in Clusters, StartCluster(c)
        PROVE  \/ BusyIn(r)' \subseteq BusyIn(r)
               \/ ClusterSlotFree(r) /\ BusyIn(r)' \subseteq BusyIn(r) \cup {c}
    BY <1>5 DEF StartCluster, CanStart, Worker
  <1>6. ASSUME NEW c \in Clusters, ClusterStep(c), ~StartCluster(c)
        PROVE  BusyIn(r)' \subseteq BusyIn(r)
    BY <1>6 DEF ClusterStep, ClientFails, FetchFails, FetchSucceeds, LatencyEnds,
                OpenShardTmp, ReplaceShard, ShardWriteFails, Worker
  <1>7. CASE MainStep
    BY <1>7 DEF MainStep, CollectRegion, LeavePool, CollectCost, OpenManifestTmp,
                ReplaceManifest, ManifestWriteFails
  <1>8. CASE UNCHANGED vars
    BY <1>8
  <1> QED
    BY <1>1, <1>2, <1>3, <1>4, <1>5, <1>6, <1>7, <1>8 DEF Next, ProgramStep, RegionStep

\* Every busy worker is counted in the pool of a busy region, so there are no
\* more of them than pairs of a slot of the outer and a slot of an inner pool.
LEMMA NestedPoolsBounded ==
  ASSUME TypeOK, PoolInv, PoolSizes
  PROVE  Cardinality({c \in Clusters : worker[c] \in Holding}) <= Concurrency * Concurrency
  <1> DEFINE Held == {c \in Clusters : worker[c] \in Holding}
             Slots == 1..Concurrency
  <1>1. IsFiniteSet(Slots) /\ Cardinality(Slots) = Concurrency
    BY FS_Interval, ConcurrencyAssumption
  <1>2. \A S : IsFiniteSet(S) /\ Cardinality(S) <= Concurrency =>
          \E f \in [S -> Slots] : \A x, y \in S : f[x] = f[y] => x = y
    <2> SUFFICES ASSUME NEW S, IsFiniteSet(S), Cardinality(S) <= Concurrency
                 PROVE  \E f \in [S -> Slots] : \A x, y \in S : f[x] = f[y] => x = y
      OBVIOUS
    <2>1. Cardinality(S) \in Nat /\ ExistsBijection(1..Cardinality(S), S)
      BY FS_CardinalityType
    <2>2. ExistsBijection(S, 1..Cardinality(S))
      BY <2>1, Fun_ExistsBijSymmetric
    <2>3. PICK f \in Bijection(S, 1..Cardinality(S)) : TRUE
      BY <2>2 DEF ExistsBijection
    <2>4. f \in [S -> 1..Cardinality(S)] /\ \A x, y \in S : f[x] = f[y] => x = y
      BY <2>3 DEF Bijection, Injection, IsInjective
    <2>5. 1..Cardinality(S) \subseteq Slots
      BY <2>1, ConcurrencyAssumption
    <2> QED
      BY <2>4, <2>5
  <1>3. PICK outer \in [BusyRegions -> Slots] :
               \A r, s \in BusyRegions : outer[r] = outer[s] => r = s
    BY <1>2, PoolsFinite DEF PoolSizes
  <1>4. \A r \in Regions : \E f \in [BusyIn(r) -> Slots] :
               \A c, d \in BusyIn(r) : f[c] = f[d] => c = d
    BY <1>2, PoolsFinite DEF PoolSizes
  <1> DEFINE inner(r) == CHOOSE f \in [BusyIn(r) -> Slots] :
                            \A c, d \in BusyIn(r) : f[c] = f[d] => c = d
             slot == [c \in Held |-> <<outer[RegionOf[c]], inner(RegionOf[c])[c]>>]
  <1>5. \A r \in Regions : /\ inner(r) \in [BusyIn(r) -> Slots]
                           /\ \A c, d \in BusyIn(r) : inner(r)[c] = inner(r)[d] => c = d
    BY <1>4
  <1>6. \A c \in Held : /\ RegionOf[c] \in Regions /\ RegionOf[c] \in BusyRegions
                       /\ c \in BusyIn(RegionOf[c])
    BY ClustersAssumption DEF PoolInv, WorkersInsidePool, MergedReturned, Holding, WorkerBusy,
                              BusyRegions, BusyIn, Members, TypeOK
  <1> HIDE DEF inner, Slots, Held
  <1>7. slot \in [Held -> Slots \X Slots]
    BY <1>3, <1>5, <1>6
  <1>8. ASSUME NEW c \in Held, NEW d \in Held, slot[c] = slot[d]
        PROVE  c = d
    <2>1. outer[RegionOf[c]] = outer[RegionOf[d]]
      BY <1>8
    <2>2. RegionOf[c] = RegionOf[d]
      BY <2>1, <1>3, <1>6
    <2>3. inner(RegionOf[c])[c] = inner(RegionOf[c])[d]
      BY <1>8, <2>2
    <2> QED
      BY <2>2, <2>3, <1>5, <1>6
  <1>9. slot \in Injection(Held, Slots \X Slots)
    BY <1>7, <1>8 DEF Injection, IsInjective
  <1>10. /\ IsFiniteSet(Slots \X Slots)
         /\ Cardinality(Slots \X Slots) = Concurrency * Concurrency
    BY <1>1, FS_Product
  <1>11. Cardinality(Held) <= Cardinality(Slots \X Slots)
    BY <1>9, <1>10, FS_Injection
  <1> QED
    BY <1>10, <1>11 DEF Held

\* At any time no more clusters' series are in memory than the product of the
\* sizes of the two pools, for any number of regions and clusters and whichever
\* of them raise (RegionCollector.collect says "bounded by concurrency").
THEOREM MemoryBounded == Spec => []HeldSeriesBounded
  <1>1. Init => PoolSizes
    <2> SUFFICES ASSUME Init
                 PROVE  PoolSizes
      OBVIOUS
    <2>1. BusyRegions = {} /\ \A r \in Regions : BusyIn(r) = {}
      BY DEF Init, BusyRegions, BusyIn, Members, RegionBusy
    <2> QED
      BY <2>1, FS_EmptySet, ConcurrencyAssumption DEF PoolSizes
  <1>2. IInv /\ PoolSizes /\ [Next]_vars => PoolSizes'
    <2> SUFFICES ASSUME IInv, PoolSizes, [Next]_vars
                 PROVE  PoolSizes'
      OBVIOUS
    <2> USE DEF IInv
    <2>1. Cardinality(BusyRegions') <= Concurrency
      BY OuterPoolStep, PoolsFinite, PoolStaysBounded DEF PoolSizes, RegionSlotFree
    <2>2. ASSUME NEW r \in Regions
          PROVE  Cardinality(BusyIn(r)') <= Concurrency
      BY InnerPoolStep, PoolsFinite, PoolStaysBounded DEF PoolSizes, ClusterSlotFree
    <2> QED
      BY <2>1, <2>2 DEF PoolSizes
  <1>3. IInv /\ PoolSizes => HeldSeriesBounded
    BY NestedPoolsBounded DEF IInv, HeldSeriesBounded
  <1> QED
    BY <1>1, <1>2, <1>3, InductiveInvariant, PTL DEF Spec

===============================================================================
