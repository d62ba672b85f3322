---------------------------- MODULE GetMetricData ----------------------------
(***************************************************************************)
(* How one cluster's series are read from CloudWatch: BatchExecutor and    *)
(* LatencyDetailCollector of scripts/fetch_metrics.py.  The time range is  *)
(* cut into windows, the queries into batches, every batch of every window *)
(* is one paginated call, and every page is retried on its own.  Both      *)
(* collectors run this loop: the standard one with windows of two days and *)
(* batches of 500, the latency one with a single window of 24 hours and    *)
(* batches of 70.  They differ in what they make of the pages.             *)
(*                                                                         *)
(* A datapoint is its timestamp: values only follow their timestamp.  What *)
(* one page holds of a query is a set of timestamps, because the code      *)
(* sorts it on arrival.                                                    *)
(***************************************************************************)
EXTENDS Positions

CONSTANTS
  NumQueries,   \* the cluster's queries are 1..NumQueries
  MaxPerBatch,  \* max_per_batch, max_queries_per_call
  Start, End,   \* start_time and end_time
  ChunkLen,     \* chunk_days
  Histories,    \* what CloudWatch may hold of a query: sets of timestamps
  MaxRetries    \* max_retries

ASSUME QueriesAssumption == NumQueries \in Nat /\ MaxPerBatch \in Nat \ {0}
ASSUME RangeAssumption == Start \in Nat /\ End \in Nat /\ ChunkLen \in Nat \ {0}
ASSUME HistoriesAssumption == Histories \subseteq SUBSET Nat
ASSUME RetriesAssumption == MaxRetries \in Nat

VARIABLES
  has,      \* the datapoints CloudWatch holds of each query
  closed,   \* whether a window's end belongs to the window
  unsent,   \* what the current call has not returned yet: the NextToken
  state,    \* "calling", "done" or "failed"
  from,     \* chunk_start of the current window
  first,    \* number of queries in the batches before the current one
  attempt,  \* attempts of the current page that failed
  partial   \* per query, what each page held of it, in order of arrival

service == <<has, closed>>
vars == <<service, unsent, state, from, first, attempt, partial>>

-----------------------------------------------------------------------------
(* Windows, batches and series.  A definition named like the one that      *)
(* follows it with a suffix is that definition with a plausible fault.     *)

Queries == 1..NumQueries

\* _chunk_time_range: the window that starts at from.
ChunkEnd(f) == IF f + ChunkLen < End THEN f + ChunkLen ELSE End

\* _batch_queries: the batch that starts after the first f queries.
Batch(f) == {q \in Queries : f < q /\ q <= f + MaxPerBatch}

\* What a request for the window from lo to hi is to return.
Due(q, lo, hi) == {t \in has[q] : lo < hi /\ lo <= t /\ (t < hi \/ (closed /\ t = hi))}

Ascending(S) == Ordered(S, <)
\* The key stitch_time_series sorts by: the first timestamp, "" for an empty
\* chunk, which is before all of them.
FirstTimestamp(S) == IF S = {} THEN -1 ELSE CHOOSE t \in S : \A u \in S : t <= u
\* sorted() keeps chunks with the same key in their order.
SortedChunks(chunks) ==
  LET Before(i, j) == \/ FirstTimestamp(chunks[i]) < FirstTimestamp(chunks[j])
                      \/ FirstTimestamp(chunks[i]) = FirstTimestamp(chunks[j]) /\ i < j
      order == Ordered(DOMAIN chunks, Before)
  IN [i \in DOMAIN order |-> chunks[order[i]]]
Joined(chunks) == FlattenSeq([i \in DOMAIN chunks |-> Ascending(chunks[i])])
\* The first occurrence of each timestamp.
Deduplicated(timestamps) ==
  FoldLeft(LAMBDA seen, t : IF Contains(seen, t) THEN seen ELSE Append(seen, t), <<>>, timestamps)

\* stitch_time_series: sort the chunks, concatenate them, keep the first
\* occurrence of a timestamp.
StitchUnsorted(chunks) == Deduplicated(Joined(chunks))
Stitch(chunks) == Deduplicated(Joined(SortedChunks(chunks)))

\* The series of the latency collector: the page that came last.
LatencySeries(chunks) == IF chunks = <<>> THEN <<>> ELSE Ascending(chunks[Len(chunks)])

\* Every datapoint received of a query so far.
Received(q) == UNION {partial[q][i] : i \in DOMAIN partial[q]}

-----------------------------------------------------------------------------
(* The collector and the service                                           *)

\* A call for the batch after the first f queries of the window that starts at c.
Request(c, f) ==
  [q \in Queries |-> IF q \in Batch(f) THEN Due(q, c, ChunkEnd(c)) ELSE {}]

Init ==
  /\ has \in [Queries -> Histories]
  /\ closed \in BOOLEAN
  /\ from = Start
  /\ first = 0
  /\ attempt = 0
  /\ partial = [q \in Queries |-> <<>>]
  /\ state = IF NumQueries = 0 \/ Start >= End THEN "done" ELSE "calling"
  /\ unsent = Request(Start, 0)

\* A response names every query of the batch and holds the newest datapoints
\* of each that were not sent yet, possibly none.
Page(q, cut) == {t \in unsent[q] : cut[q] <= t}
Store(cut) ==
  partial' = [q \in Queries |->
                IF q \in Batch(first) THEN Append(partial[q], Page(q, cut)) ELSE partial[q]]

\* A page with a NextToken: something of the batch is still to come.
NextPage(cut) ==
  /\ state = "calling"
  /\ \E q \in Batch(first) : Page(q, cut) # {}
  /\ \E q \in Batch(first) : Page(q, cut) # unsent[q]
  /\ Store(cut)
  /\ unsent' = [q \in Queries |-> IF q \in Batch(first) THEN unsent[q] \ Page(q, cut)
                                  ELSE unsent[q]]
  /\ attempt' = 0
  /\ UNCHANGED <<service, state, from, first>>

MoreBatchesLosingLast == first + 2 * MaxPerBatch <= NumQueries
MoreBatches == first + MaxPerBatch < NumQueries
NextChunk == ChunkEnd(from)

\* The last page of a call: go on with the next batch, the next window, or end.
LastPage(cut) ==
  /\ state = "calling"
  /\ \A q \in Batch(first) : Page(q, cut) = unsent[q]
  /\ Store(cut)
  /\ attempt' = 0
  /\ \/ /\ MoreBatches
        /\ first' = first + MaxPerBatch
        /\ UNCHANGED <<from, state>>
     \/ /\ ~MoreBatches
        /\ first' = 0
        /\ from' = NextChunk
        /\ state' = IF NextChunk < End THEN "calling" ELSE "done"
  /\ unsent' = Request(from', first')
  /\ UNCHANGED service

\* retry_with_backoff: a transient error of a page that has retries left.
RetryResettingCount ==
  /\ state = "calling"
  /\ attempt' = IF attempt < MaxRetries THEN attempt + 1 ELSE 0
  /\ UNCHANGED <<service, unsent, state, from, first, partial>>
Retry ==
  /\ state = "calling"
  /\ attempt < MaxRetries
  /\ attempt' = attempt + 1
  /\ UNCHANGED <<service, unsent, state, from, first, partial>>

\* Retries are exhausted, or the error is not a transient one: the exception
\* leaves execute(), and with it goes everything received.
Fail ==
  /\ state = "calling"
  /\ state' = "failed"
  /\ UNCHANGED <<service, unsent, from, first, attempt, partial>>

-----------------------------------------------------------------------------
(* Specification                                                           *)

Respond == \E cut \in [Batch(first) -> Start..End + 1] : NextPage(cut) \/ LastPage(cut)

Next == Respond \/ Retry \/ Fail

Spec == Init /\ [][Next]_vars

\* Every request gets an answer, an error or a client-side timeout, and the
\* program goes on with it.  Nothing is assumed of which of them.
FairSpec == Spec /\ WF_vars(Next)

-----------------------------------------------------------------------------
(* Properties                                                              *)

TypeOK ==
  /\ has \in [Queries -> Histories]
  /\ closed \in BOOLEAN
  /\ unsent \in [Queries -> SUBSET Nat]
  /\ state \in {"calling", "done", "failed"}
  /\ from \in Nat /\ Start <= from
  /\ first \in Nat
  /\ attempt \in 0..MaxRetries
  /\ partial \in [Queries -> Seq(SUBSET Nat)]

\* stitch_time_series: "deduplicated, monotonically ordered timestamps".  The
\* series of each query is exactly what CloudWatch holds of it in the time
\* range: no gap at a window, batch or page boundary and none after a retry,
\* no timestamp twice, and in ascending order although pages come newest first.
SeriesExact ==
  state = "done" =>
    \A q \in Queries : Stitch(partial[q]) = Ascending(Due(q, Start, End))

\* The part of SeriesExact that does not depend on sorting.
EverythingReceived ==
  state = "done" => \A q \in Queries : Received(q) = Due(q, Start, End)

\* However often each page is throttled, the collection of a cluster ends.
CollectionEnds == <>(state # "calling")

-----------------------------------------------------------------------------
(* A claim of the code's comments that the code does not keep              *)

\* LatencyDetailCollector.collect: "Collect p50, p95, p99 latency [...] for last
\* 24 hours [...] executes via GetMetricData with pagination".  A query whose
\* datapoints came on several pages keeps all of them.
LatencyComplete ==
  state = "done" =>
    \A q \in Queries : LatencySeries(partial[q]) = Ascending(Due(q, Start, End))
===============================================================================
