--------------------------- MODULE DiscoverInventory ---------------------------
(***************************************************************************)
(* Stage 1 of the pipeline, scripts/discover_inventory.py: one process     *)
(* lists the replication groups and serverless caches of every region,     *)
(* enriches each with what further calls say about it, and replaces        *)
(* inventory.json.  DiscoveryOrchestrator scans regions in a thread pool;  *)
(* within a region everything happens in order, in one thread.             *)
(*                                                                         *)
(* A ClusterEnricher keeps the answers about parameter, security and       *)
(* subnet groups, because clusters share them.  It keeps answers of failed *)
(* calls as well, and only the cluster that made the call records the      *)
(* error.  An answer may have nothing in it; that is not an error to the   *)
(* code, so nothing counts it: "unanswered", a history variable that only  *)
(* the properties read, remembers which answers were empty.                *)
(*                                                                         *)
(* The account does not change during the runs.  A shared group is what is *)
(* read of it: its target parameters, its permissive rules, its subnets.   *)
(* Every other field of a record is copied from the listing and left out.  *)
(* A replication group without members uses no groups.  The file counts    *)
(* errors; the model keeps which ones were counted.                        *)
(***************************************************************************)
EXTENDS Integers, Sequences, FiniteSets

CONSTANTS
  Regions,          \* the regions to scan
  Resources,        \* the account's replication groups and serverless caches
  Serverless,       \* those that are serverless caches
  Missing,          \* what a region answers for a name it does not have
  Listing,          \* what a region lists of a kind, or the names asked for
  ByName,           \* kinds for which the command line gives names
  ParameterGroups, SecurityGroups, SubnetGroups,  \* groups clusters share
  Parts,            \* what can be read of a group
  Uses,             \* the groups a resource uses
  Content,          \* what there is to read of a group
  Concurrency,      \* --concurrency, the size of the pool of regions
  MaxRetries,       \* retry_with_backoff's max_retries
  MaxRuns,          \* bound: how many times the stage is started
  MaxBlank,         \* bound: about how many clusters and groups nothing is answered
  Unread,           \* a group that is not in the enricher's caches
  NoFile            \* the content of a path that does not exist

Kinds == {"groups", "caches"}
Groups == ParameterGroups \cup SecurityGroups \cup SubnetGroups

ASSUME AccountAssumption ==
  /\ Serverless \subseteq Resources
  /\ Missing \notin Resources
  /\ Listing \in [Regions -> [Kinds -> Seq(Resources \cup {Missing})]]
  /\ \A r \in Regions, k \in Kinds \ ByName :
       \A i \in DOMAIN Listing[r][k] : Listing[r][k][i] # Missing
  /\ Uses \in [Resources -> SUBSET Groups]
  /\ Content \in [Groups -> SUBSET Parts]
  /\ \A S \in SUBSET Parts : S # Unread

ASSUME KindsAssumption == Resources \cap (Kinds \cup {"scan"}) = {}
ASSUME ConcurrencyAssumption == Concurrency \in Nat \ {0}
ASSUME MaxRetriesAssumption == MaxRetries \in Nat
ASSUME MaxRunsAssumption == MaxRuns \in Nat
ASSUME MaxBlankAssumption == MaxBlank \in Nat

VARIABLES
  run,         \* number of times the stage was started
  main,        \* where the main thread is
  exit,        \* the process's exit code, -1 while there is none
  scan,        \* where each region's scan is
  attempt,     \* retries of the current call of a region's listing
  read,        \* how much of the current listing has been answered
  page,        \* the resources of the current listing so far
  found,       \* replication_groups and serverless_caches of a region
  next,        \* how many of them enrichment has been tried on
  cached,      \* the enricher's three caches
  records,     \* all_clusters of a region
  scanErrors,  \* errors of a region: listings and enrichments that failed
  unanswered,  \* clusters and groups of a region AWS answered about with nothing
  merged,      \* regions whose result the main thread has appended
  clusters,    \* the clusters of the appended results, in that order
  file         \* inventory.json

region == <<scan, attempt, read, page, found, next, cached, records, scanErrors, unanswered>>
vars == <<run, main, exit, region, merged, clusters, file>>

-----------------------------------------------------------------------------
(* Helpers.  A definition named like the one that follows it with a suffix *)
(* is that definition with a plausible fault.                              *)

Elements(s) == {s[i] : i \in DOMAIN s}

\* What a scan of the region is meant to find of a kind.
Wanted(r, k) == Elements(Listing[r][k]) \ {Missing}

Calls == {"details", "parameters", "security", "subnets", "tags"}
Record == [resource : Resources, content : [Groups -> SUBSET Parts], errors : SUBSET Calls]
Inventory == [run : Nat, clusters : Seq(Record),
              errors : SUBSET (Regions \X (Kinds \cup Resources \cup {"scan"}))]

ASSUME NoFileAssumption == NoFile \notin Inventory

ScanDone == {"returned", "raised"}
Scanning == Kinds \cup {"enriching"}
\* ThreadPoolExecutor(max_workers=concurrency)
SlotFree == Cardinality({r \in Regions : scan[r] \in Scanning}) < Concurrency

\* A result's errors; a region whose future raised gets a fresh result.
ErrorsOfReturned(r) == IF scan[r] = "raised" THEN {} ELSE scanErrors[r]
ErrorsOf(r) == IF scan[r] = "raised" THEN {"scan"} ELSE scanErrors[r]
AllErrors == UNION {{r} \X ErrorsOf(r) : r \in merged}

\* errors_count > 0: errors of regions and errors of clusters.
AnyError(inventory) ==
  \/ inventory.errors # {}
  \/ \E i \in DOMAIN inventory.clusters : inventory.clusters[i].errors # {}

\* _determine_exit_code
ExitCodeOfRegionErrors(inventory) ==
  IF inventory.clusters = <<>> THEN 2 ELSE IF inventory.errors # {} THEN 1 ELSE 0
ExitCode(inventory) ==
  IF inventory.clusters = <<>> THEN 2 ELSE IF AnyError(inventory) THEN 1 ELSE 0

-----------------------------------------------------------------------------
(* The process                                                             *)

Stopped == main \in {"idle", "exited", "killed"}

\* Nothing of an earlier process is in memory.
NoScan ==
  /\ attempt' = [r \in Regions |-> 0]
  /\ read' = [r \in Regions |-> 0]
  /\ page' = [r \in Regions |-> <<>>]
  /\ found' = [r \in Regions |-> <<>>]
  /\ next' = [r \in Regions |-> 0]
  /\ cached' = [r \in Regions |-> [g \in Groups |-> Unread]]
  /\ records' = [r \in Regions |-> <<>>]
  /\ scanErrors' = [r \in Regions |-> {}]
  /\ unanswered' = [r \in Regions |-> {}]
  /\ merged' = {}
  /\ clusters' = <<>>

Init ==
  /\ run = 0
  /\ main = "idle"
  /\ exit = -1
  /\ scan = [r \in Regions |-> "none"]
  /\ attempt = [r \in Regions |-> 0]
  /\ read = [r \in Regions |-> 0]
  /\ page = [r \in Regions |-> <<>>]
  /\ found = [r \in Regions |-> <<>>]
  /\ next = [r \in Regions |-> 0]
  /\ cached = [r \in Regions |-> [g \in Groups |-> Unread]]
  /\ records = [r \in Regions |-> <<>>]
  /\ scanErrors = [r \in Regions |-> {}]
  /\ unanswered = [r \in Regions |-> {}]
  /\ merged = {}
  /\ clusters = <<>>
  /\ file = NoFile

\* The process starts and resolves account and regions.
Start ==
  /\ Stopped
  /\ run < MaxRuns
  /\ run' = run + 1
  /\ main' = "scanning"
  /\ exit' = -1
  /\ scan' = [r \in Regions |-> "queued"]
  /\ NoScan
  /\ UNCHANGED file

\* STS or DescribeRegions fails: main catches a ClientError and exits with 2,
\* another exception ends the interpreter with 1.
StartFails(code) ==
  /\ Stopped
  /\ run < MaxRuns
  /\ run' = run + 1
  /\ main' = "exited"
  /\ exit' = code
  /\ scan' = [r \in Regions |-> "none"]
  /\ NoScan
  /\ UNCHANGED file

\* The process dies between two steps: memory is lost.
Kill ==
  /\ ~Stopped
  /\ main' = "killed"
  /\ scan' = [r \in Regions |-> "none"]
  /\ NoScan
  /\ UNCHANGED <<run, exit, file>>

-----------------------------------------------------------------------------
(* RegionScanner.scan: the two listings                                    *)

Region(r) ==
  /\ main = "scanning"
  /\ UNCHANGED <<run, main, exit, merged, clusters, file>>

StartScan(r) ==
  /\ Region(r)
  /\ scan[r] = "queued"
  /\ SlotFree
  /\ scan' = [scan EXCEPT ![r] = "groups"]
  /\ UNCHANGED <<attempt, read, page, found, next, cached, records, scanErrors, unanswered>>

\* RegionScanner's clients cannot be made: the exception becomes the future's.
ScanRaises(r) ==
  /\ Region(r)
  /\ scan[r] = "queued"
  /\ SlotFree
  /\ scan' = [scan EXCEPT ![r] = "raised"]
  /\ UNCHANGED <<attempt, read, page, found, next, cached, records, scanErrors, unanswered>>

\* There is a call left whose outcome is open: without names one more page may
\* always follow.
Calling(r) ==
  /\ scan[r] \in Kinds
  /\ scan[r] \in ByName => read[r] < Len(Listing[r][scan[r]])

\* retry_with_backoff sleeps and calls again.
ThrottledForever(r) ==
  /\ Region(r)
  /\ Calling(r)
  /\ attempt' = [attempt EXCEPT ![r] = (attempt[r] + 1) % (MaxRetries + 1)]
  /\ UNCHANGED <<scan, read, page, found, next, cached, records, scanErrors, unanswered>>
Throttled(r) ==
  /\ Region(r)
  /\ Calling(r)
  /\ attempt[r] < MaxRetries
  /\ attempt' = [attempt EXCEPT ![r] = attempt[r] + 1]
  /\ UNCHANGED <<scan, read, page, found, next, cached, records, scanErrors, unanswered>>

\* A call of the listing of kind k succeeds.  Without names it is a page, which
\* may be the last although it has as much as there is; every page but the last
\* has something.  With names it is the answer about one of them, which is
\* passed over when the region does not have it (a *NotFoundFault).
Answered(r, k) ==
  IF k \in ByName THEN {read[r] + 1} ELSE (read[r] + 1)..Len(Listing[r][k])
AnswerFromFirstPage(r, k, m) ==
  IF Listing[r][k][m] = Missing THEN <<>> ELSE SubSeq(Listing[r][k], 1, m)
Answer(r, k, m) ==
  IF Listing[r][k][m] = Missing THEN <<>> ELSE SubSeq(Listing[r][k], read[r] + 1, m)
NextPage(r, m) ==
  LET k == scan[r]
  IN /\ Region(r)
     /\ k \in Kinds
     /\ read[r] < Len(Listing[r][k])
     /\ m \in Answered(r, k)
     /\ read' = [read EXCEPT ![r] = m]
     /\ page' = [page EXCEPT ![r] = page[r] \o Answer(r, k, m)]
     /\ attempt' = [attempt EXCEPT ![r] = 0]
     /\ UNCHANGED <<scan, found, next, cached, records, scanErrors, unanswered>>

NextPhase(r) == [scan EXCEPT ![r] = IF scan[r] = "groups" THEN "caches" ELSE "enriching"]

\* The listing has ended: what it found is kept.
ListingEnds(r) ==
  /\ Region(r)
  /\ scan[r] \in Kinds
  /\ read[r] = Len(Listing[r][scan[r]])
  /\ scan' = NextPhase(r)
  /\ found' = [found EXCEPT ![r] = found[r] \o page[r]]
  /\ page' = [page EXCEPT ![r] = <<>>]
  /\ read' = [read EXCEPT ![r] = 0]
  /\ attempt' = [attempt EXCEPT ![r] = 0]
  /\ UNCHANGED <<next, cached, records, scanErrors, unanswered>>

\* A call failed, at once or after all its retries: the pages before it are
\* dropped, the scan goes on.
ListingFailsSilently(r) ==
  /\ Region(r)
  /\ Calling(r)
  /\ scan' = NextPhase(r)
  /\ found' = [found EXCEPT ![r] = found[r] \o page[r]]
  /\ page' = [page EXCEPT ![r] = <<>>]
  /\ read' = [read EXCEPT ![r] = 0]
  /\ attempt' = [attempt EXCEPT ![r] = 0]
  /\ UNCHANGED <<next, cached, records, scanErrors, unanswered>>
ListingFails(r) ==
  /\ Region(r)
  /\ Calling(r)
  /\ scan' = NextPhase(r)
  /\ scanErrors' = [scanErrors EXCEPT ![r] = @ \cup {scan[r]}]
  /\ page' = [page EXCEPT ![r] = <<>>]
  /\ read' = [read EXCEPT ![r] = 0]
  /\ attempt' = [attempt EXCEPT ![r] = 0]
  /\ UNCHANGED <<found, next, cached, records, unanswered>>

-----------------------------------------------------------------------------
(* ClusterEnricher: one resource after the other                           *)

\* The calls enrichment makes that fail, and what those that succeed answer with
\* nothing (no cluster of that id, no such group), of those it makes: what
\* DescribeCacheClusters does not say is not looked up, and neither is what the
\* caches have.
Known(n, failed, blank) == IF "details" \in failed \/ n \in blank THEN {} ELSE Uses[n]
Lookup(r, n, failed, blank) == {g \in Known(n, failed, blank) : cached[r][g] = Unread}
CanFail(r, n, failed, blank) ==
  LET looked == Lookup(r, n, failed, blank)
  IN /\ "details" \in failed => n \notin Serverless
     /\ "parameters" \in failed => looked \cap ParameterGroups # {}
     /\ "security" \in failed => looked \cap SecurityGroups # {}
     /\ "subnets" \in failed => looked \cap SubnetGroups # {}
CallFailed(g, failed) ==
  \/ g \in ParameterGroups /\ "parameters" \in failed
  \/ g \in SecurityGroups /\ "security" \in failed
  \/ g \in SubnetGroups /\ "subnets" \in failed
CanBeBlank(r, n, failed, blank) ==
  /\ Cardinality(blank \cup UNION {unanswered[q] : q \in Regions}) <= MaxBlank
  /\ n \in blank => n \notin Serverless /\ "details" \notin failed
  /\ \A g \in blank \ {n} : g \in Lookup(r, n, failed, blank) /\ ~CallFailed(g, failed)

\* What a lookup reads: the parameters of the pages before a failing one, nothing
\* of a security or subnet group when its call failed.
Answers(g, failed, pages, blank) ==
  CASE g \in ParameterGroups /\ "parameters" \in failed -> Content[g] \cap pages
    [] g \in SecurityGroups /\ "security" \in failed -> {}
    [] g \in SubnetGroups /\ "subnets" \in failed -> {}
    [] g \in blank -> {}
    [] OTHER -> Content[g]
Reading(r, n, failed, pages, blank) ==
  [g \in Groups |-> IF g \in Lookup(r, n, failed, blank) THEN Answers(g, failed, pages, blank)
                    ELSE cached[r][g]]

\* All of it is kept for the clusters that follow, but a security group that is
\* not in the answer: it is asked for again.
CachesAfter(r, n, failed, pages, blank) ==
  [g \in Groups |-> IF g \in blank \cap SecurityGroups THEN Unread
                    ELSE Reading(r, n, failed, pages, blank)[g]]

RecordOfUnsharedErrors(r, n, failed, pages, blank) ==
  [resource |-> n,
   content |-> [g \in Groups |-> IF g \in Known(n, failed, blank)
                                 THEN Reading(r, n, failed, pages, blank)[g] ELSE {}],
   errors |-> failed \ {"security"}]
RecordOf(r, n, failed, pages, blank) ==
  [resource |-> n,
   content |-> [g \in Groups |-> IF g \in Known(n, failed, blank)
                                 THEN Reading(r, n, failed, pages, blank)[g] ELSE {}],
   errors |-> failed]

\* The lookups of the next resource, whatever becomes of its record.
Enriching(r, failed, pages, blank) ==
  LET n == found[r][next[r] + 1]
  IN /\ scan[r] = "enriching"
     /\ next[r] < Len(found[r])
     /\ Region(r)
     /\ CanFail(r, n, failed, blank)
     /\ CanBeBlank(r, n, failed, blank)
     /\ next' = [next EXCEPT ![r] = next[r] + 1]
     /\ cached' = [cached EXCEPT ![r] = CachesAfter(r, n, failed, pages, blank)]
     /\ unanswered' = [unanswered EXCEPT ![r] = @ \cup blank]
     /\ UNCHANGED <<scan, attempt, read, page, found>>

Enrich(r, failed, pages, blank) ==
  LET n == found[r][next[r] + 1]
  IN /\ Enriching(r, failed, pages, blank)
     /\ records' = [records EXCEPT ![r] = Append(@, RecordOf(r, n, failed, pages, blank))]
     /\ UNCHANGED scanErrors

\* Enrichment raises on something the record was not expected to be: the
\* resource is dropped, its own errors with it, the caches keep what was read.
EnrichRaises(r, failed, pages, blank) ==
  LET n == found[r][next[r] + 1]
  IN /\ Enriching(r, failed, pages, blank)
     /\ scanErrors' = [scanErrors EXCEPT ![r] = @ \cup {n}]
     /\ UNCHANGED records

\* The answers AWS may give with nothing in them while the next resource is looked up.
Askable(r) ==
  IF scan[r] = "enriching" /\ next[r] < Len(found[r])
  THEN LET n == found[r][next[r] + 1] IN {n} \cup Uses[n] ELSE {}

ScanReturns(r) ==
  /\ Region(r)
  /\ scan[r] = "enriching"
  /\ next[r] = Len(found[r])
  /\ scan' = [scan EXCEPT ![r] = "returned"]
  /\ UNCHANGED <<attempt, read, page, found, next, cached, records, scanErrors, unanswered>>

-----------------------------------------------------------------------------
(* DiscoveryOrchestrator: results are taken in the order they arrive       *)

Merge(r) ==
  /\ main = "scanning"
  /\ scan[r] \in ScanDone
  /\ r \notin merged
  /\ merged' = merged \cup {r}
  /\ clusters' = IF scan[r] = "raised" THEN clusters ELSE clusters \o records[r]
  /\ UNCHANGED <<run, main, exit, region, file>>

Assembled == [run |-> run, clusters |-> clusters, errors |-> AllErrors]

\* assemble and write_atomic, of which the rename is the step that shows.
AllMerged == merged = Regions
WriteInventory ==
  /\ main = "scanning"
  /\ AllMerged
  /\ file' = Assembled
  /\ main' = "written"
  /\ UNCHANGED <<run, exit, region, merged, clusters>>

Exit ==
  /\ main = "written"
  /\ main' = "exited"
  /\ exit' = ExitCode(Assembled)
  /\ UNCHANGED <<run, region, merged, clusters, file>>

\* The write raises through main: the interpreter exits with 1.
WriteFails ==
  /\ main = "scanning"
  /\ AllMerged
  /\ main' = "exited"
  /\ exit' = 1
  /\ UNCHANGED <<run, region, merged, clusters, file>>

-----------------------------------------------------------------------------
(* Specification                                                           *)

RegionStep(r) ==
  \/ StartScan(r)
  \/ ScanRaises(r)
  \/ Throttled(r)
  \/ \E m \in 1..Len(Listing[r]["groups"]) \cup 1..Len(Listing[r]["caches"]) : NextPage(r, m)
  \/ ListingEnds(r)
  \/ ListingFails(r)
  \/ \E failed \in SUBSET Calls, pages \in SUBSET Parts, blank \in SUBSET Askable(r) :
       Enrich(r, failed, pages, blank)
  \/ \E failed \in SUBSET Calls, pages \in SUBSET Parts, blank \in SUBSET Askable(r) :
       EnrichRaises(r, failed, pages, blank)
  \/ ScanReturns(r)

ProgramStep ==
  \/ \E r \in Regions : RegionStep(r) \/ Merge(r)
  \/ WriteInventory
  \/ WriteFails
  \/ Exit

Next ==
  \/ Start
  \/ \E code \in {1, 2} : StartFails(code)
  \/ ProgramStep
  \/ Kill

Spec == Init /\ [][Next]_vars

\* Threads are scheduled and every call returns or fails; how calls end is open.
FairSpec == Spec /\ WF_vars(ProgramStep)

-----------------------------------------------------------------------------
(* Properties                                                              *)

TypeOK ==
  /\ run \in Nat
  /\ main \in {"idle", "scanning", "written", "exited", "killed"}
  /\ exit \in {-1, 0, 1, 2}
  /\ scan \in [Regions -> {"none", "queued"} \cup Scanning \cup ScanDone]
  /\ attempt \in [Regions -> 0..MaxRetries]
  /\ read \in [Regions -> Nat]
  /\ page \in [Regions -> Seq(Resources)]
  /\ found \in [Regions -> Seq(Resources)]
  /\ next \in [Regions -> Nat]
  /\ cached \in [Regions -> [Groups -> {Unread} \cup SUBSET Parts]]
  /\ records \in [Regions -> Seq(Record)]
  /\ scanErrors \in [Regions -> SUBSET (Kinds \cup Resources)]
  /\ unanswered \in [Regions -> SUBSET (Resources \cup Groups)]
  /\ merged \subseteq Regions
  /\ clusters \in Seq(Record)
  /\ file \in Inventory \cup {NoFile}

\* A record without errors that says of each group what the account has; nothing
\* only where the answer about the resource or the group was empty.
Truthful(rec, empty) ==
  /\ rec.errors = {}
  /\ \A g \in Groups :
       IF g \notin Uses[rec.resource] THEN rec.content[g] = {}
       ELSE \/ rec.content[g] = Content[g]
            \/ rec.content[g] = {} /\ {rec.resource, g} \cap empty # {}

\* What was asked for in every region is listed, truthfully, and nothing else is.
Complete(list) ==
  /\ \A r \in Regions, k \in Kinds : \A n \in Wanted(r, k) :
       \E rec \in Elements(list) : rec.resource = n /\ Truthful(rec, unanswered[r])
  /\ \A rec \in Elements(list) : \E r \in Regions, k \in Kinds :
       rec.resource \in Wanted(r, k) /\ Truthful(rec, unanswered[r])

\* The inventory on disk is this run's own.
WrittenByThisRun == file # NoFile /\ file.run = run /\ main \in {"written", "exited"}

\* An inventory that counts no error lists every resource that was asked for in
\* every region and nothing else, and its records say what the account has, although
\* a failed lookup is shared through the caches by clusters that record no error.
\* It may lack only what a call that succeeded answered with nothing: no error is
\* counted for a cluster, a group or a subnet group that is not in the answer, and
\* the clusters that share it through the caches count none either.
CleanInventoryIsComplete ==
  WrittenByThisRun /\ ~AnyError(file) => Complete(file.clusters)

\* Exit code 0, on which run_review relies, promises such an inventory, written
\* by this very run and with a cluster in it.
SuccessIsClean ==
  main = "exited" /\ exit = 0 =>
    /\ file # NoFile
    /\ file.run = run
    /\ ~AnyError(file)
    /\ file.clusters # <<>>

\* A failure costs what it is about and nothing else: a resource is missing from
\* the inventory only if its region, its listing or its own enrichment failed and
\* the inventory counts that.
FailuresAreContained ==
  file # NoFile =>
    \A r \in Regions, k \in Kinds : \A n \in Wanted(r, k) :
      \/ \E i \in DOMAIN file.clusters : file.clusters[i].resource = n
      \/ \E e \in {"scan", k, n} : <<r, e>> \in file.errors

\* No resource is listed twice, however pages and retries fall.
NoDuplicates ==
  \A i, j \in DOMAIN clusters : clusters[i].resource = clusters[j].resource => i = j

\* A discovery that is not killed ends.
DiscoveryEnds == (main = "scanning") ~> Stopped
===============================================================================
