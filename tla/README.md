# TLA+ models of the ElastiCache operations review

This directory specifies, model-checks and proves properties of the review
pipeline in `scripts/`. Every definition is translated from the Python source;
`PROJECT.json` maps each one to the lines it stands for.

## 1. The system

`run_review.py` runs five stages as child processes over one output directory.
Then an agent reads the files, writes `notes.json`, and `generate_html_report.py`
renders the report.

| Part | State it keeps | Operations | Talks to |
| --- | --- | --- | --- |
| Pipeline driver (`run_review.py`) | the current stage, its exit code | start a stage, stop at the first failure | child processes, the output directory |
| Stage 1, discovery (`discover_inventory.py`) | per region: clusters, errors, three caches; on disk `inventory.json` | scan regions in a thread pool, paginate, enrich, assemble | ElastiCache and EC2 APIs |
| Stage 2, metrics (`fetch_metrics.py`) | futures of two nested pools, one result per region; on disk `metrics/<id>.json` and the manifest `metrics.json` | collect a cluster, write its shard, merge, write the manifest | CloudWatch, Cost Explorer |
| Metrics store (`_metrics_store.py`) | none | list the ids of a manifest, load one shard | the files of Stage 2 |
| Stage 3, analysis (`analyze_metrics.py`) | per cluster: model results, a finding counter; on disk `analysis.json` | ten models, findings, deduplication | metrics store, inventory |
| Stage 3.5, configuration (`check_configuration.py`) | a finding counter; on disk `config_findings.json` | sixteen predicates per cluster | inventory |
| Reduction and report (`generate_html_report.py`) | none between calls; on disk `report_data.json`, `report.html` | reduce metrics, verify notes, score, render | every file above, `notes.json`, `pricing.json` |

What is hard about it, and what makes each part correct:

- *Stage 2 is concurrent.* A pool of regions contains pools of clusters, and a
  failure may happen in any thread at any step. The files and the exit code must
  not depend on the schedule, the pools must not wait for each other, and the
  manifest must never name a shard that is not there.
- *Stage 2 reads through a paginated, throttled API.* Every datapoint must
  arrive exactly once and in order.
- *The directory outlives the processes.* Reviews fail or are killed and are
  started again over their own leftovers, and every stage finds its input by
  file name. No stage may read another review's file, and what the stages contribute
  to the report of a complete review must be of one review.
- *Notes outlive the data they judge.* They must not be shown on other data.
- *Discovery caches answers, failed ones too*, and takes regions as they finish.
  Only the cluster that made a failing call records it, yet an inventory that
  counts no error must be complete and true, and whatever is missing from one
  that does must be counted. (An answer that holds nothing is no error to the code;
  that is the one exception.)
- *Analysis, checks, scores and savings are sequential* but full of boundaries and
  of ways to lose something: empty series, unchecked clusters, duplicate names,
  predicates and models that raise, findings that hide one another. What a report
  shows of a cluster must be what its record and its measurements say, and
  "not checked" must never read as "passed".

`PROJECT.json` lists these hazards at their lines, with the properties that cover
them.

## 2. Modules

| Module | What it is |
| --- | --- |
| `DiscoverInventory` | Stage 1: the region pool, listings, enrichment and its caches, assembly, exit codes |
| `FetchMetrics` | Stage 2: main thread, region threads, cluster threads, disk, kills and reruns |
| `MetricsStore` | what Stage 2 promises to the readers of its files; `FetchMetrics` is shown to implement it |
| `GetMetricData` | how one cluster's series are read from CloudWatch |
| `ReviewPipeline` | the driver, the stages by what they read and write, the agent and the renderer |
| `Fleet` | the inventory as the later stages read it |
| `CheckConfiguration` | Stage 3.5: the sixteen checks and the checker's loop |
| `Positions` | lists by position, as Python's `sorted` and comprehensions treat them |
| `MetricSeries` | series: normalisation, collection over nodes, statistics |
| `MetricModels` | percentiles, workload, trends, utilization, breaches |
| `ClusterModels` | efficiency ratios, shard balance, traffic pattern, steadiness, correlations |
| `AnalyzeFleet` | Stage 3: the orchestrator over those models, and the findings generator |
| `ReportContent` | the reduction, the gates for notes, and what the report says |
| `FleetReview` | these together: from the files of Stages 1 and 2 to the report |
| `AnalyzeFleetProofs`, `CheckConfigurationProofs`, `DiscoverInventoryProofs`, `FetchMetricsProofs`, `FleetReviewProofs`, `GetMetricDataProofs`, `ReviewPipelineProofs` | inductive invariants and theorems |
| `PositionsProofs` | lemmas the proofs about reads, analysis and report share: orders, lists and what is picked of them, concatenations, peaks, finite sets, sums over them and folds over sequences |
| `MCDiscoverInventory`, `MCFetchMetrics`, `MCFleetReview`, `MCGetMetricData`, `MCReviewPipeline` | instances for TLC |

`ReviewPipeline` and `FleetReview` are two views of the second half of a review.
In the first a file is its provenance, there may be several reviews, and any stage
may be killed; in the second a file is its content, and there is one review.

A definition whose name is that of the next one with a suffix
(`ErrorsWithoutShard` before `Errors`) is that definition with a plausible fault.
Replacing the one by the other shows which property notices; no specification
uses it.

### DiscoverInventory

`scan[r]` is where `RegionScanner.scan` is: its two listings, the enrichment loop,
its end. `page` and `read` are the running listing (a generator that is collected
at once, so a failing page drops those before it), `found` what the scan goes on
to enrich, `next` the position in that loop, `cached` the three caches of
`ClusterEnricher`, `records` and `scanErrors` what the scan will return, `merged`
and `clusters` what the `as_completed` loop has taken.

A listing without names comes in pages of any size and may have one more, whose
call can fail; every page but the last is assumed to hold something. With names
each is a call of its own, and a name the region does not have is passed over.
Every call may be throttled, fail at once or fail after its last retry.
`Enrich` is `enrich_replication_group` or `enrich_serverless_cache` with any set
of its calls failing (`CanFail`: only those it makes, which depends on the caches
and on `DescribeCacheClusters`); a failing parameter lookup keeps the parameters
of the pages before. A call may also succeed and hold nothing (`blank`): an empty
`CacheClusters` list leaves no group to look up, an empty subnet group is cached, a
security group missing from its answer is not, and none of them is recorded as an
error. `unanswered` is a history variable of what was answered so; the code does not
keep it, and nothing reads it but the properties and the bound
`MaxBlank`. `Enrich` is one action because nothing it touches is seen by
another thread. `EnrichRaises` is the exception that drops the resource.
`StartFails` is a failing account or region lookup, `WriteFails` a failing
`write_atomic`, `Kill` the end of the process at any point.

Abstracted: the fields copied from the listing, and what a group contains beyond
a set of parts. The account stays as it is during the runs. The file counts
errors only; the model keeps which.

### FetchMetrics

`main`, `region[r]` and `worker[c]` are the program counters of
`CollectionOrchestrator.run`, `RegionCollector.collect` and `_collect_cluster`;
`contribution[c]` is the metadata a worker returns, `merged` and `collected` what
the two `as_completed` loops have consumed, `tmp`, `shardFile` and `manifest` the
disk. There is an action for each step another thread or a kill can come between:
starting a region or a cluster when its pool has a free thread, the standard
series, the latency series, opening and renaming each file, merging, collecting.
Every exception path is an action: no client, a failed query (caught, no shard),
failed latency (caught, shard with an error), a shard that cannot be written (not
caught: it leaves the worker, ends the region's loop once its pool has drained,
and replaces the region's result by one error), a manifest that cannot be
written. `Kill` loses the memory and keeps the disk; `Start` reads any inventory.

Abstracted: the series, and the counters in the metadata. A shard is who wrote
it, in which run, and whether it records an error. The workers that hold a cluster's
series (`Holding`) are those between the standard series and the shard. Which thread already has a
client is not tracked, so `ClientFails` may happen to any cluster. Cost Explorer
is a single step, because its failures are swallowed.

### GetMetricData

`from` and `first` are the loops of `BatchExecutor.execute` over windows and
batches, `unsent` is what the `NextToken` stands for, `attempt` is the retry
counter of the current page, `partial` what each page held. A response names
every query of the batch and holds, of each, any newest part of what is left:
pages come newest first, as CloudWatch sends them by default. A datapoint is its
timestamp. What one page holds is a set, because the code sorts each result on
arrival. Whether a window's end belongs to it is left open (`closed`): the code
claims to deduplicate boundary timestamps. `Stitch` is `stitch_time_series`: the
pages by their first timestamps (`SortedChunks`), one after the other (`Joined`),
of each timestamp the first occurrence (`Deduplicated`);
`LatencySeries` is what the latency collector makes of the same pages. The
client library's own retries are part of what one attempt is.

### ReviewPipeline

A file is its provenance: the review that wrote it, and the reviews that wrote what it
was computed from. `NextStage` and `EndReview` are the two outcomes of `run_stage` in
`main`; a stage may fail without touching its file, and Stages 1 and 2 may also replace
their file and still exit with 1. `WriteNotes` is the agent (external): it judges a
finding of a complete review and may quote a right number, a wrong one, none, or write
no prose at all (`NoProse`), in which case `verify_notes` returns before it looks at
anything. `WritePricing` is the other file the agent leaves, of which only the review
matters. `Render` is a render with default paths between two reviews: it takes whatever
files exist, prefers `report_data.json`, and writes nothing when the notes fail the
gate. Findings are numbered by position, as `_next_finding_id` does.

### Fleet, CheckConfiguration

A record holds the fields the later stages read, as values or as what their
readers tell apart, and `malformed`, the fields whose shape makes their reader
raise. Two records may carry one `cluster_id`. Days are counted from 2026-01-31,
the first end of support in the table.

`record` and `check` are the two loops of `run` and `check_cluster`, `found` and
`skipped` the lists being built, `counter` the fleet-wide number of findings,
`results`, `total` and `bySeverity` what `run` returns. Each evaluation of a check
has one of five outcomes, an action each: not applicable to the type, the
predicate raises, it declines (`_Skip`), it passes, it fails. `RejectInput` is
every exit before the loop, `SkipUnnamed` the record without a name. The
predicates are operators; `ReadsMalformed` says which of them raise, that is which
get as far as reading the malformed field.

### MetricSeries, MetricModels, ClusterModels

Each model is an operator from the normalised series (and the record) to what is
later read of its result. A missing value is `Absent`. Values are integers, percentiles (with
numpy's interpolation) hundredths, daily and hourly averages twelfths, and every
ratio, coefficient of variation, slope, r and r² is compared by
cross-multiplication, so nothing is rounded where the code rounds the value it
compares to three or four decimals. The derived series (per-minute rates and
percentages) are kept in hundredths, rounded to the nearest as the code rounds them to two
decimals; `UnitOf` says which metrics those are. A shard is a list of nodes; a serverless cache
is one entry that the readers of `nodes` do not see. Series are concatenated node
by node, never merged by time, because the code does so. What only appears in
texts is left out: medians, the highest hour, the fit for serverless.

The file has one list of timestamps per cluster, the grid. `Times` is what
`_normalize_metrics` gives a series of it: as many as there are, from the first on.
The collectors then append timestamps and values of the nodes to two lists, which `zip`
pairs (`Zipped`): a series longer than the grid has fewer timestamps than values, so that
its values take those of the next node, and the last values of all have none (`Absent`).
`Dated` are the points that are left for the models that look at dates; the others read
the values alone (`Points`).

### AnalyzeFleet

`pending` are the clusters still to analyse, `cluster` and `data` the one under
analysis, `position` the place in the list of models, `outputs` and `failed` what
`_analyze_cluster` accumulates, `analyzed` what is kept. A model may raise
(`ModelRaises`, at most `MaxRaised` times); if it was the first, the others are
skipped one by one. The generator is one operator: conclusions of every model in
its order, numbering, workload context, deduplication. It may raise as well, which
leaves no findings and one more error. A shard that cannot be read and a record
without a name end the process, although other clusters were analysed.

What Stage 2 stores is `IsStored`: nodes with their series, and a grid that is the
timestamps of the first series that is not empty (`Grids`; the order of a dictionary's
keys is left open). `measuredAt`, when each value was measured, is history: the file does
not hold it and no model reads it, the properties compare with it.

### ReportContent, FleetReview

`BuildReportData` is the reduction, `NotesVerified` and `CoverageVerified` the two
gates, `BuildPayload` what is embedded in the report: rows, findings, panels, scores,
savings, coverage of the checks, notes. The payload is computed from the files, each
part as its function does it. Quoted figures are either supported or not. `Bucketize`
cuts the grid, not the series, into chart points. Overall scores and means over the
fleet are in tenths, rounded to the nearest. `FleetReview` runs Stage 3, Stage 3.5, the
reduction, the agent (external) and the render in the order of `run_review.py`. When
Stage 3 fails, the driver stops and the checks may still be started by hand; when the
checks or the reduction fail, the report can still be rendered without their file, and
the model does so.

## 3. What the runs check

| Run | Bounds | Shows |
| --- | --- | --- |
| `discover` | 2 regions in a pool of 2; 2 clusters sharing a parameter, a security and a subnet group, a serverless cache; one listing in pages, one by name with a missing name; one retry; one cluster or group answered with nothing; one run | `CleanInventoryIsComplete`, `SuccessIsClean`, `FailuresAreContained`, `NoDuplicates`, `DiscoveryEnds`, the inductive invariant |
| `fetch_schedule` | 4 clusters, 3 of them in one region, pools of 2, one run | `ScheduleIndependent`, `ExitCodeMeaning`, `RunEnds` |
| `fetch_reruns` | 3 clusters, 2 regions, pools of 1, two runs with kills | `ManifestTrustworthy`, `ShardsMatchManifest`, `ManifestIsLast`, `NoTempLeft`, `HeldSeriesBounded`, the inductive invariant, and that the store contract is implemented |
| `series` | 3 queries in batches of 2, one whole and one short window, one retry | `SeriesExact`, `CollectionEnds`, the inductive invariant |
| `review_content` | about 350 fleets: one or two records (five in one fleet), one or two nodes, four days of two periods | see below |
| `pipeline` | two reviews, two subjects, three values, two of which breach | `CompleteReviewIsFresh`, `OwnInputs`, `StagePartsAreOneReview`, `ReviewEnds` |

Why the bounds are enough. Two clusters are the least that can share an answer,
and one part per group the least that can be missing from it; two elements the
least a listing can be paged into. A second discovery adds nothing: a run reads
no file. Three clusters for two threads is the smallest pool
with a queue behind it; two regions for one thread the smallest outer pool with
one; the second region shows what a raised region does to another. Two runs show
every relation between a file and a later run; a third adds none, since files are
compared with the current run and the manifest's only. Two windows of different
length and two batches of different size contain every boundary of the loops;
three datapoints in a window can be paged in every order of sizes. Two reviews
and two subjects are the smallest renumbering of findings. Everything the
theorems state holds for all values of the constants anyway.

Six kinds of state are unbounded in the program and bounded here, by name:
`MaxRuns`, `MaxReviews` (starts), `MaxRetries` (the code's own constant, 5),
`Histories` (what CloudWatch may hold of a query), `MaxBlank` (clusters and groups
answered with nothing) and `MaxRaised` (models that raise in a run).

Some of these properties say less than their subject might suggest, because the code
promises less:

- `CleanInventoryIsComplete` allows one thing to be missing or empty in an inventory
  without errors: what AWS answered with nothing (`discover_inventory.py:750`, 1096,
  1139), and what is looked up only with that answer. A test expects it
  (`tests/test_cluster_enricher.py:96`).
- `HeldSeriesBounded` bounds the clusters whose series are in memory by the square of
  `Concurrency`. The docstring of `RegionCollector.collect` (`fetch_metrics.py:1444`)
  says "bounded by `concurrency` shards", which is true of one region; regions are
  collected in a pool of the same size. The bound is not the pools' own: workers that
  outlived the pool of a raised region would exceed it.
- `StagePartsAreOneReview` is about inventory, analysis, charts and configuration
  findings. Notes and prices are taken because their files exist
  (`generate_html_report.py:4219`, 4239) and may be of an earlier review;
  `pipeline_notes` below is such a report.

`review_content` shows, of every state of a review and every report:

- `ResultsMatchRecords`, `FindingsNumbered`, `TotalsMatchFindings`,
  `SupportUrgency`: what Stage 3.5 keeps is a function of the record, its numbers
  and totals are right, and SEC-06 never improves with time;
- `AnalysisIsAccountedFor`: a missing result has an error, a dropped conclusion
  has a reason; `IncidentsAreRuns`: the incident loop against the definition of a
  maximal stretch;
- `SilenceMeansPassed`: where a report shows nothing for a check, the check is
  listed as not run or the record passes it;
- `ScoresAccountForFindings`, `SystemicFindingsAnswered`: scores and notes against the
  findings they stand for;
- `SavingsAreEvidenced`: a cluster that is to be switched off served nothing in the
  window by the time its requests were measured, provided that is the time the grid
  gives them (`OnGrid`; the run `idle_traffic` shows what happens otherwise), and the
  sums are those of the options shown;
- `ChartsKeepPeaks`: no value measured in a period of the grid is above its curve;
- `EveryStepIsProgress`: the review ends.

Its fleets (`MCFleetReview`) vary what a predicate, a gate or a model branches
on: every field a check reads, unset, zero and at the bound; each malformed field;
dates on both sides of every date of the table; inputs that are missing, broken
or without clusters; two records of one name, in both orders; two clusters that
share their findings; and for the models a fleet for each outcome that needs one:
idle, saturated, pulsing, rising, recovering and serverless loads, shards that
differ always or once. The code's constants are scaled so that eight values
contain every boundary: a value stands for 40 minutes (5), a day has 2 values
(288), the utilization window 4 (7 days), a statistic needs 3 (10), a trend 3
days (7), the last day of a breach 2 (288), a chart point takes 3 (12), so that
the last bucket of eight is short. A second cluster is the least that can share
a name, a pattern or an order; a fleet of five has a pattern on three of them, the half
rounded up, and one on two. Nodes may have stopped early, joined late, or report a
metric for a shorter time than the others, so that series outrun the grid.

### Where the code does not do what it says

Each of these runs ends in a counterexample to a sentence of the source:

| Run | Sentence | What happens |
| --- | --- | --- |
| `fetch_collision` | workers write distinct shard paths (`fetch_metrics.py:1297`) | clusters of one name in two regions share a path |
| `pipeline_checks` | a metrics failure must not cost the configuration checks (`run_review.py:292`) | the review ends before they run |
| `pipeline_notes` | stale notes fail the render (`generate_html_report.py:4214`) | a note is attached to another finding that now has its number |
| `breach_recency` | `currently_breaching` says whether a metric is above its threshold now (`analyze_metrics.py:2390`) | of several nodes only the last one's last day counts |
| `idle_traffic` | the IDLE verdict rests on traffic (`analyze_metrics.py:1799`) | a node that joined late serves, its values are dated too early and leave the window, and the cluster is IDLE |
| `series_latency` | latency is collected with pagination (`fetch_metrics.py:1541`) | a later page replaces an earlier one |

Other sentences the models do not follow, because the code does not:

- `future.result()` can raise, although `fetch_metrics.py:1483` says it does not:
  `write_one_shard` and `_client` are called outside the `try` block. `ClusterRaises`,
  `RegionRaises` and `CollectRegion` model it: the region's result is replaced by one
  error, shards on disk included, which `ScheduleIndependent` states.
- `ShardBalanceModel` looks primaries up under `nodes` (`analyze_metrics.py:3104`),
  a field Stage 1 never writes (`members`, `discover_inventory.py:1382`), so replicas
  are compared as if they were shards (docstring at 2979).
- `verify_notes` returns before it checks the ids when notes hold only verdicts;
  two notes about one finding count the first in the coverage ledger and show the
  last.
- A record without a name is skipped by the checks (`check_configuration.py:963`)
  but ends Stage 3 and the render with an exception
  (`analyze_metrics.py:5123`, `generate_html_report.py:1859`).
- A cluster with neither analysis nor checks scores 100, and clusters that only
  the metrics know count towards patterns but not towards the size of the fleet
  (this only makes more patterns need an answer).
- A retention that is not a number passes REL-04 and is skipped by REL-04b.
- Values have no dates of their own. Stage 2 keeps those of a cluster's first series
  (`fetch_metrics.py:1853`), and Stage 3 gives the i-th value of every series the i-th
  of them (`analyze_metrics.py:537`), "truncate to the shorter length so zip-based
  consumers stay aligned" notwithstanding: only the timestamps are cut. Values of a node
  that joined later, or after a gap, are dated too early (`idle_traffic`); a series longer
  than the grid shifts the dates of the next node's values; and charts end with the grid.
- The incidents of several nodes can run into one another where one node's series
  ends and the next begins; `IncidentsAreRuns` is about clusters of one node.

### Fairness

`FairSpec` is weak fairness of the program's own steps taken together, never of
an outcome: threads are scheduled, a call returns, fails or times out at the
client (botocore has default timeouts), a child
process ends. A listing has finitely many pages. Nothing is assumed of kills, of the operator, of
the agent, or of which result a call has. `CollectionEnds` and `DiscoveryEnds` therefore cover
endless throttling and `RunEnds` any mixture of failures.

For the programs with such a specification deadlock checking is off, because each is meant to stop.
That they stop only where they should is what `RunEnds`, `CollectionEnds`,
`DiscoveryEnds` and `ReviewEnds` say.

`FleetReview` is sequential and needs no fairness to say that a review ends:
deadlock checking is on, only `Finished` stutters, and `EveryStepIsProgress` gives
each step a smaller number of steps left to take.

## 4. What is proved

All theorems hold for every value of the constants that satisfies the named
assumptions (finite sets of clusters and regions, `Concurrency` at least one, and
so on), and are checked by TLAPS from first principles.

*Stage 1* (`DiscoverInventoryProofs`). The invariant of a region: the page holds
what has been answered of its listing; what was found is what the listings that
recorded no error are meant to find; each resource tried so far has a record or
an error; and as long as no error is recorded, the caches hold only true answers
and the records are true. The last part is what makes sharing failed answers
harmless for an inventory without errors: whoever put one into a cache has left
an error behind, in its own record or, if that was dropped, in the region's. What AWS
answered with nothing leaves no error, so "true" is meant but for `unanswered`: a group
in it may be empty for every cluster that uses it, and a cluster in it has no groups. From
it follow `CleanInventory`, `SuccessMeansClean` and `NothingIsLostSilently`, for
every account, pool size and retry budget. `NothingIsListedTwice` has a hypothesis,
`ListedOnce`: no region is asked for one name twice. Without it the conclusion is
false of the code, which makes one call per name on the command line and keeps
every answer; the instance satisfies it (`ListedOnceHere`).

*Stage 2* (`FetchMetricsProofs`). The invariant relates the counters of the three
levels: a region in or behind its pool has no result; a returned region has merged all
its clusters, and each of them has returned; a raised one has only workers that are
done; a shard a worker claims is on disk, with this run's number; temporary files of
this run belong to workers that are writing; what is published is what the collected
regions say. Without these the properties are not inductive: the manifest is computed
from `collected`, `merged` and `contribution`, long after the worker that made them
true. From it follow `ManifestIsTrustworthy`, `ShardsAgreeWithManifest`,
`ScheduleDoesNotMatter`, `ExitCodeIsMeaningful`, `NoTempFileLeft`, `MemoryBounded`, the
action property `ManifestComesLast`, and `ImplementsStore`: under the mapping of each
file to the run that wrote it, every step of Stage 2 is a step of `MetricsStore` or a
stutter. `MemoryBounded` is an argument of its own: a worker that holds a series is
busy, its region's pool is then still open (`PoolInv`), and so the two pools give each
such cluster a pair of slots that no other has (`NestedPoolsBounded`).

*CloudWatch reads* (`GetMetricDataProofs`). While a window is read, the queries
of the batches before the current one have everything up to the window's end,
those of the current batch have that except what the token stands for, and the
others everything up to its start; windows meet without a gap. So what is
received in the end is exactly what is due (`NothingIsLost`). `SeriesAreExact` adds
what the list looks like: it ascends, without repetition, and holds exactly what is
due, for windows and batches of any size and pages of any number. The invariant gains
that two pages of a query meet in one timestamp at most, and only where a window ends
(`PagesApart`). Sorted by their first timestamps such pages can be joined into a list
that never descends, however `sorted` orders equal keys; deduplication keeps of each
timestamp the first, which leaves the others in place (`FirstOnesAscend`).

*Review pipeline* (`ReviewPipelineProofs`). The invariant says which files are
this review's when a stage is running, and of a report that the stages' parts of it are
of one provenance. From it: a review that returns 0 has replaced all five files
(`SuccessIsFresh`), no stage reads another review's file (`NoForeignInputs`), and the
parts of the report of a complete review that the stages contribute are of one review
(`StagesMixNoReviews`).

*Analysis* (`AnalyzeFleetProofs`), for every fleet, every series and every choice of
models that raise. `NoConclusionIsLost`: each model's findings are a list of
well-formed conclusions (one lemma per model), the workload context removes only
what is normal for the workload and never lowers a severity, and deduplication
keeps of each group one finding that nothing in the group outranks; so whatever a
model concluded is found again, as severe, in what is kept. The invariant says of
the cluster under analysis that each result so far is the model's or is listed as
an error (`ResultsSoFar`), and of every cluster before it that this has been
carried into `analyzed`. `IncidentsReported`, for series of any length: the loop over the
values has at every position closed exactly the runs of breaching values that ended
before it, in order, and holds the start of the one that is open (`Tracked`); the three
it reports are the first of an order by length, so that no run left out is longer
(`LongestReported`). That the result kept for a cluster is the one computed from its
series, in memory and in the file, is an invariant of its own (`ResultsInvariant`). A
third invariant (`AnalysisWritten`) is what later proofs
need of `analysis.json`: finitely many clusters, their findings with distinct ids.

*Configuration checks* (`CheckConfigurationProofs`), for every inventory, policy
and date. The first invariant says of the record under evaluation that `found`
and `skipped` are what the checks before `check` give for it (`UnderCheck`), and
of the records before it that the last of each name has its result
(`CheckedSoFar`); at the end of the registry the one turns into the other, which
is `ResultsAreTheRecords`. On it rest `SupportOnlyGetsWorse`, whose arithmetic is
that the grade and the premium are monotone in the date, and, with an invariant
about numbers (kept numbers are below those of the record in progress, which are
consecutive), `FindingIdsAreUnique` and `TotalsAreTrue`.

*The second half of a review* (`FleetReviewProofs`). Every step of `FleetReview` is
a step of the checker or leaves its variables alone (`ReviewImplementsChecks`), so
the theorems above hold of it. Two facts carry that through the files to the
report: `config_findings.json`, once there, holds for every name the result of its
last record (`FileInv`; the checker has passed the end of the inventory when it
writes), and a report is made last, from the files as they are (`RenderedInv`).
With them `SilenceIsPassing`: in every report a finding of a check is shown exactly
if the record fails it, and where none is shown the check has passed or is listed
as not run. It needs that the value for a missing field is not itself a coverage
record (`CoverageAssumption`).

In the same way every step is one of Stage 3 or leaves it alone
(`ReviewImplementsAnalysis`). About the report:

- `FleetPatternsAreAnswered`. The invariant (`GatesPassed`) keeps with a report that
  its notes passed the gates on the findings it lists; that what recurs in the report
  recurs in those findings is that a note changes neither key nor cluster; and that
  the last note about a finding is the one that was counted is that there is only one.
- `ChartsLoseNoPeak`, for series and grids of any length and buckets of any size: every
  position of the grid falls into a bucket, the last one included, and the highest value
  of a bucket is its point (`CurveKeepsPeaks`); what a bucket can hold of a series is what
  lies within the grid (`FirstValues`).
- `ScoresAreOfTheFindings`. The scores add up penalties over the two files, the
  property over the findings shown. Both sums are the same because the findings
  shown for a cluster and a pillar are the images of those of the two files, no two
  of which look alike: their ids differ, within the analysis by deduplication
  (`AnalysisWritten`), within the checks by their numbers (`FileNumbered`).
- `SavingsRestOnEvidence`. The file holds what the models computed (`ResultsInvariant`),
  and normalisation leaves the traffic counters alone. Where they were measured at the
  timestamps of the grid, each node's part of the joined list keeps its own dates
  (`GridCut`, `ListsJoinedSideBySide`, `CountersCollected`), so the window is one of
  real time (`CountersDated`, `WindowRead`). An idle verdict means that each counter's
  values in the window, of all nodes, add up to nothing; a total of counts is no less
  than each of them (`TotalCovers`), so every one is zero (`NothingServed`,
  `IdleServedNothing`). The clusters the report advises to switch off are those whose
  cost the code summed, because where nothing can be priced there is no cost either; and
  the best commitment is that of an option which passes the gate of a steady cluster
  without a warning.
- `ReviewKeepsConclusions`, `ReviewKeepsIncidents`: what is proved of Stage 3 holds of it
  within a review.
- `ReviewsEnd`: the measure `Remaining` decreases with every step, for inventories
  and fleets of any size.

Two of these proofs corrected the model. `Remaining` used a fixed number of steps for
the analysis and would have been negative for some ninety records. And `ChartPeak`
was written `UNION {..} \ {..}` without parentheses, which TLC and the prover read
differently; it now says which is meant.

What the series and results are assumed to be is stated in `AnalyzeFleet`.
`MetricsFilesAssumption`: what Stage 2 stores is a list of nodes with distinct ids
(they are the keys of a dictionary) whose series are sequences of numbers or missing
values, under pairs of metric and statistic, and a grid that is the timestamps of one of
them. `ResultsAssumption`: every model but
the balance of the shards returns a dictionary, never nothing. `CountersAssumption`:
counts of requests are not negative. `PricingsAssumption`, in `ReportContent`, is what the
agent is told to write (`references/report-generation.md:77`): costs are natural
numbers, a cluster without a node type has no cost and no options, and a move to
Graviton is not a commitment. TLC evaluates them for all fleets of the run.

Sums, folds and other recursions over finite sets are within reach of the prover, by
taking a smallest counterexample instead of citing an induction theorem
(`SmallestSubset` in `PositionsProofs`). The lemmas `SumWithout`, `SumJoined` and
`SumRenamed` say that a sum does not depend on the order, splits over a partition and
survives renaming; `FoldRows` and `PrefixInduction` make of a fold over a sequence a table of
its results after each position, about which an invariant of the loop can be shown;
`ListsFlattened` says what a concatenation holds.

Only model-checked are the liveness properties (`RunEnds`, `CollectionEnds`,
`DiscoveryEnds`, `ReviewEnds`), which the prover cannot state under fairness. All other
properties of the passing runs are theorems.

## 5. Plan and what is not modelled

Left, in this order:

1. An abstract inventory (a function of the account and of which calls failed) that
   `DiscoverInventory` implements, and `ReviewPipeline` over it where the exit
   codes meet; then the same records read by `FleetReview`.
2. The facts and the cost section of the payload, score bands,
   the order of panels (`_attention_key`), and how a quoted figure matches the
   values under its citations (`prose_figures`, `_resolve_cite`).

Not modelled: the HTML template and formatting, query and metric tables, argument
parsing and logging, the example fleet and documentation generators, and the
agent itself. They hold no state and take no decision a property here is about.
