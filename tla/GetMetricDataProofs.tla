------------------------- MODULE GetMetricDataProofs -------------------------
(***************************************************************************)
(* What is received of a cluster's series is exactly what CloudWatch holds *)
(* of them in the time range, for every number of queries, batch size,     *)
(* range, window length and retry budget, and stitching the pages lists it *)
(* in order, each timestamp once.                                          *)
(***************************************************************************)
EXTENDS GetMetricData, PositionsProofs

\* Either all timestamps of A are before those of B or the other way round, up to
\* one they share.
Apart(A, B) == (\A a \in A, b \in B : a <= b) \/ (\A a \in A, b \in B : b <= a)

\* What has been received of query q while the window from `from` is read: the
\* windows before it, and of the window itself what its batch has returned.
Progress(q) ==
  /\ q <= first => Received(q) = Due(q, Start, ChunkEnd(from))
  /\ q \in Batch(first) => Received(q) \cup unsent[q] = Due(q, Start, ChunkEnd(from))
  /\ q > first + MaxPerBatch => Received(q) = Due(q, Start, from)

\* Pages and windows meet in at most one timestamp: what was received of a query page
\* by page, and what the current call has still to return of it.
PagesApart(q) ==
  /\ \A i, j \in 1..Len(partial[q]) : i < j => Apart(partial[q][i], partial[q][j])
  /\ state = "calling" /\ q \in Batch(first) =>
       \A i \in 1..Len(partial[q]) : Apart(partial[q][i], unsent[q])

\* The inductive invariant.
IInv ==
  /\ TypeOK
  /\ \A q \in Queries : PagesApart(q)
  /\ state = "calling" => from < End /\ \A q \in Queries : Progress(q)
  /\ EverythingReceived

-----------------------------------------------------------------------------
(* Lemmas                                                                  *)

\* _chunk_time_range terminates: a window that starts before the end is not empty.
LEMMA WindowNotEmpty ==
  ASSUME NEW c \in Nat, c < End
  PROVE  ChunkEnd(c) \in Nat /\ c < ChunkEnd(c)
  BY RangeAssumption DEF ChunkEnd

\* _chunk_time_range leaves no gap between two windows: what is due in the range
\* up to a window's start and in the window is what is due up to its end.
LEMMA WindowsMeet ==
  ASSUME TypeOK, NEW q \in Queries, state = "calling", from < End
  PROVE  Due(q, Start, from) \cup Due(q, from, ChunkEnd(from)) = Due(q, Start, ChunkEnd(from))
<1>1. from \in Nat /\ Start <= from /\ has[q] \subseteq Nat
  BY HistoriesAssumption DEF TypeOK
<1>2. ChunkEnd(from) \in Nat /\ from < ChunkEnd(from)
  BY <1>1, WindowNotEmpty
<1> QED
  BY <1>1, <1>2, RangeAssumption DEF Due

\* Storing a page adds its datapoints to what is received and nothing else.
LEMMA StoreAdds ==
  ASSUME TypeOK, NEW q \in Queries, NEW cut, Store(cut)
  PROVE  Received(q)' = Received(q) \cup (IF q \in Batch(first) THEN Page(q, cut) ELSE {})
<1>1. partial[q] \in Seq(SUBSET Nat) /\ Page(q, cut) \in SUBSET Nat
  BY DEF TypeOK, Page
<1>2. CASE q \in Batch(first)
  <2>1. partial'[q] = Append(partial[q], Page(q, cut))
    BY <1>2 DEF Store
  <2> DEFINE p == partial[q]
             n == Len(p)
  <2>2. /\ DOMAIN Append(p, Page(q, cut)) = (DOMAIN p) \cup {n + 1}
        /\ \A i \in DOMAIN p : Append(p, Page(q, cut))[i] = p[i]
        /\ Append(p, Page(q, cut))[n + 1] = Page(q, cut)
    BY <1>1
  <2> HIDE DEF p, n
  <2>3. UNION {Append(p, Page(q, cut))[i] : i \in DOMAIN Append(p, Page(q, cut))}
          = (UNION {p[i] : i \in DOMAIN p}) \cup Page(q, cut)
    BY <2>2
  <2> QED
    BY <1>2, <2>1, <2>3 DEF Received, p
<1>3. CASE q \notin Batch(first)
  BY <1>3 DEF Store, Received
<1> QED
  BY <1>2, <1>3

-----------------------------------------------------------------------------
(* stitch_time_series                                                      *)

\* A set's timestamps in ascending order, each once.
LEMMA AscendingLists ==
  ASSUME NEW S \in SUBSET Nat, IsFiniteSet(S)
  PROVE  /\ Ascending(S) \in Seq(S) /\ Range(Ascending(S)) = S
         /\ Len(Ascending(S)) = Cardinality(S) /\ Cardinality(S) \in Nat
         /\ \A i, j \in 1..Len(Ascending(S)) : i < j => Ascending(S)[i] < Ascending(S)[j]
  <1> DEFINE n == Cardinality(S)
             s == Ascending(S)
  <1>1. /\ s \in [1..n -> S] /\ n \in Nat
        /\ \A x \in S : \E i \in 1..n : s[i] = x
        /\ \A i, j \in 1..n : i < j => s[i] < s[j]
    <2>1. S \in SUBSET Int
      OBVIOUS
    <2> QED
      BY <2>1, PositionsOrdered DEF Ascending
  <1> HIDE DEF n, s
  <1>2. s = [i \in 1..n |-> s[i]] /\ \A i \in 1..n : s[i] \in S
    BY <1>1
  <1>3. s \in Seq(Range(s)) /\ DOMAIN s = 1..n /\ Len(s) = n
    BY <1>1, <1>2, IsSequence
  <1>4. Range(s) = S
    BY <1>1, <1>2, <1>3 DEF Range
  <1> QED
    BY <1>1, <1>3, <1>4 DEF n, s

\* What a place of such a list holds.
LEMMA AscendingPlaces ==
  ASSUME NEW S
  PROVE  /\ Ascending(S) = [i \in 1..Cardinality(S) |-> Ascending(S)[i]]
         /\ \A i \in 1..Cardinality(S) :
              Ascending(S)[i] = CHOOSE x \in S : Cardinality({y \in S : y < x}) = i - 1
  <1>1. Ascending(S) = [i \in 1..Cardinality(S) |-> Ascending(S)[i]]
    BY DEF Ascending, Ordered
  <1>2. \A i \in 1..Cardinality(S) :
          Ascending(S)[i] = CHOOSE x \in S : Cardinality({y \in S : y < x}) = i - 1
    BY DEF Ascending, Ordered
  <1> QED
    BY <1>1, <1>2

\* There is only one such list.
LEMMA OneAscendingList ==
  ASSUME NEW s \in Seq(Nat), \A i, j \in 1..Len(s) : i < j => s[i] < s[j]
  PROVE  s = Ascending(Range(s))
  <1> DEFINE n == Len(s)
             S == Range(s)
             order == Ascending(S)
             smaller(x) == {y \in S : y < x}
             listed(i) == {s[j] : j \in 1..(i - 1)}
  <1>1. n \in Nat /\ s = [i \in 1..n |-> s[i]] /\ \A i \in 1..n : s[i] \in Nat /\ s[i] \in S
    BY DEF Range
  <1>2. S = {s[j] : j \in 1..n} /\ S \in SUBSET Nat
    BY DEF Range
  <1>3. \A i, j \in 1..n : s[i] = s[j] => i = j
    <2> TAKE i \in 1..n, j \in 1..n
    <2>1. i \in Int /\ j \in Int /\ s[i] \in Int /\ s[j] \in Int
      BY <1>1
    <2> QED
      BY <2>1
  <1> HIDE DEF n, S
  <1>4. ASSUME NEW m \in 0..n
        PROVE  IsFiniteSet({s[j] : j \in 1..m}) /\ Cardinality({s[j] : j \in 1..m}) = m
    <2> DEFINE image == {s[j] : j \in 1..m}
               f == [j \in 1..m |-> s[j]]
    <2>1. m \in Nat /\ \A j \in 1..m : j \in 1..n
      BY <1>1
    <2>2. IsFiniteSet(1..m) /\ Cardinality(1..m) = m
      BY <2>1, PositionsCounted
    <2>3. f \in Bijection(1..m, image)
      <3>1. f \in [1..m -> image] /\ \A x \in image : \E j \in 1..m : f[j] = x
        OBVIOUS
      <3>2. \A i, j \in 1..m : f[i] = f[j] => i = j
        BY <1>3, <2>1
      <3> HIDE DEF f, image
      <3> QED
        BY <3>1, <3>2 DEF Bijection, Injection, Surjection, IsInjective
    <2> HIDE DEF f, image
    <2>4. IsFiniteSet(image) /\ Cardinality(image) = Cardinality(1..m)
      BY <2>2, <2>3, FS_Bijection DEF ExistsBijection
    <2> QED
      BY <2>2, <2>4 DEF image
  <1>5. IsFiniteSet(S) /\ Cardinality(S) = n
    <2>1. n \in 0..n
      BY <1>1
    <2> QED
      BY <1>2, <1>4, <2>1
  <1>6. ASSUME NEW i \in 1..n
        PROVE  Cardinality(smaller(s[i])) = i - 1
    <2>1. i \in Int /\ i - 1 \in 0..n
      BY <1>1
    <2>2. smaller(s[i]) = {s[j] : j \in 1..(i - 1)}
      <3>1. ASSUME NEW j \in 1..n
            PROVE  s[j] < s[i] <=> j \in 1..(i - 1)
        <4>1. j \in Int /\ s[j] \in Int /\ s[i] \in Int
          BY <1>1
        <4>2. j < i => s[j] < s[i]
          BY <1>1 DEF n
        <4>3. i < j => s[i] < s[j]
          BY <1>1 DEF n
        <4>4. j < i <=> j \in 1..(i - 1)
          BY <1>1, <2>1, <4>1
        <4> QED
          BY <2>1, <4>1, <4>2, <4>3, <4>4
      <3>2. \A j \in 1..(i - 1) : j \in 1..n
        BY <1>1, <2>1
      <3>3. smaller(s[i]) = {s[j] : j \in {j \in 1..n : s[j] < s[i]}}
        BY <1>2
      <3>4. {j \in 1..n : s[j] < s[i]} = 1..(i - 1)
        BY <3>1, <3>2
      <3> QED
        BY <3>3, <3>4
    <2> QED
      BY <1>4, <2>1, <2>2
  <1>10. order = [i \in 1..Cardinality(S) |-> order[i]]
    BY AscendingPlaces, Zenon
  <1>7. order = [i \in 1..n |-> order[i]]
    BY <1>5, <1>10
  <1>8. \A i \in 1..Cardinality(S) :
          order[i] = CHOOSE x \in S : Cardinality(smaller(x)) = i - 1
    BY AscendingPlaces, Zenon
  <1> HIDE DEF smaller, order
  <1>9. ASSUME NEW i \in 1..n
        PROVE  order[i] = s[i]
    <2>1. order[i] \in S /\ Cardinality(smaller(order[i])) = i - 1
      BY <1>1, <1>5, <1>6, <1>8
    <2>2. PICK j \in 1..n : order[i] = s[j]
      BY <1>2, <2>1
    <2>3. i \in Int /\ j \in Int /\ j - 1 = i - 1
      BY <1>1, <1>6, <2>1, <2>2
    <2>4. i = j
      BY <2>3
    <2> QED
      BY <2>2, <2>4
  <1> QED
    BY <1>1, <1>7, <1>9 DEF order, S

\* The chunks after the sort are the same chunks, by their first timestamps.
LEMMA ChunksSorted ==
  ASSUME NEW chunks \in Seq(SUBSET Nat),
         \A i, j \in 1..Len(chunks) : i < j => Apart(chunks[i], chunks[j])
  PROVE  /\ SortedChunks(chunks) \in Seq(SUBSET Nat)
         /\ DOMAIN SortedChunks(chunks) = 1..Len(chunks)
         /\ Range(SortedChunks(chunks)) = Range(chunks)
         /\ \A i, j \in 1..Len(chunks) : i < j =>
              /\ FirstTimestamp(SortedChunks(chunks)[i]) <= FirstTimestamp(SortedChunks(chunks)[j])
              /\ Apart(SortedChunks(chunks)[i], SortedChunks(chunks)[j])
  <1> DEFINE n == Len(chunks)
             key(i) == FirstTimestamp(chunks[i])
             Before(i, j) == \/ key(i) < key(j)
                             \/ key(i) = key(j) /\ i < j
             D == DOMAIN chunks
             earlier(x) == {y \in D : Before(y, x)}
             R == {p \in (1..n) \X (1..n) : Before(p[1], p[2])}
             place(i) == CHOOSE x \in D : Cardinality(earlier(x)) = i - 1
             order == [i \in 1..Cardinality(D) |-> place(i)]
             sorted == SortedChunks(chunks)
  <1>1. n \in Nat /\ D = 1..n /\ \A i \in 1..n : chunks[i] \in SUBSET Nat /\ i \in Int
    OBVIOUS
  <1>2. IsFiniteSet(1..n) /\ Cardinality(1..n) = n
    BY <1>1, PositionsCounted
  <1>3. \A i \in 1..n : key(i) \in Int
    <2> TAKE i \in 1..n
    <2>1. chunks[i] # {} => \E t \in chunks[i] : \A u \in chunks[i] : t <= u
      BY <1>1, LeastExists
    <2>2. chunks[i] # {} => key(i) \in chunks[i]
      BY <2>1 DEF FirstTimestamp
    <2> QED
      BY <1>1, <2>2 DEF FirstTimestamp
  <1>9. sorted = [i \in DOMAIN order |-> chunks[order[i]]]
    BY DEF SortedChunks, Ordered
  <1>7. order = [i \in 1..Cardinality(D) |-> order[i]]
    <2> HIDE DEF place
    <2> QED
      OBVIOUS
  <1>8. \A i \in 1..Cardinality(D) : order[i] = CHOOSE x \in D : Cardinality(earlier(x)) = i - 1
    OBVIOUS
  <1> HIDE DEF n, key, place, order, sorted, D
  <1>4. \A x, y \in 1..n : <<x, y>> \in R <=> Before(x, y)
    OBVIOUS
  <1>5. StrictOrder(1..n, R)
    <2> HIDE DEF R
    <2>1. \A x \in 1..n : ~Before(x, x)
      BY <1>1, <1>3
    <2>2. \A x, y \in 1..n : x # y => Before(x, y) \/ Before(y, x)
      <3> TAKE x \in 1..n, y \in 1..n
      <3>1. key(x) \in Int /\ key(y) \in Int /\ x \in Int /\ y \in Int
        BY <1>1, <1>3
      <3> QED
        BY <3>1
    <2>3. \A x, y, z \in 1..n : Before(x, y) /\ Before(y, z) => Before(x, z)
      BY <1>1, <1>3
    <2> HIDE DEF Before
    <2> QED
      BY <1>4, <2>1, <2>2, <2>3 DEF StrictOrder
  <1>6. \A x \in 1..n : Preceding(1..n, R, x) = earlier(x)
    <2> HIDE DEF R, Before
    <2> QED
      BY <1>1, <1>4 DEF Preceding
  <1> HIDE DEF R, earlier
  <1>10. \A i \in 1..n : order[i] \in 1..n /\ Cardinality(Preceding(1..n, R, order[i])) = i - 1
    <2> TAKE i \in 1..n
    <2>3. i \in 1..Cardinality(1..n)
      BY <1>2
    <2>4. PICK y \in 1..n : Cardinality(Preceding(1..n, R, y)) = i - 1
      BY <1>2, <1>5, <2>3, MembersRanked
    <2>1. PICK x \in 1..n : Cardinality(earlier(x)) = i - 1
      BY <1>6, <2>4
    <2>2. order[i] \in 1..n /\ Cardinality(earlier(order[i])) = i - 1
      BY <1>1, <1>2, <1>8, <2>1
    <2> QED
      BY <1>6, <2>2
  <1>11. /\ order \in [1..n -> 1..n]
         /\ \A x \in 1..n : \E i \in 1..n : order[i] = x
         /\ \A i, j \in 1..n : order[i] = order[j] => i = j
         /\ \A i, j \in 1..n : i < j <=> <<order[i], order[j]>> \in R
    <2> DEFINE S == 1..n
    <2>1. D = S /\ IsFiniteSet(S) /\ Cardinality(S) = n /\ StrictOrder(S, R)
      BY <1>1, <1>2, <1>5
    <2>2. order = [i \in 1..Cardinality(S) |-> order[i]]
      BY <1>7, <2>1
    <2>3. \A i \in 1..Cardinality(S) : order[i] \in S /\ Cardinality(Preceding(S, R, order[i])) = i - 1
      BY <1>10, <2>1
    <2> HIDE DEF S
    <2>4. RankedList(order, S, R)
      BY <2>2, <2>3 DEF RankedList
    <2>5. /\ order \in [1..Cardinality(S) -> S]
          /\ \A i, j \in 1..Cardinality(S) : order[i] = order[j] => i = j
          /\ \A x \in S : \E i \in 1..Cardinality(S) : order[i] = x
          /\ \A i, j \in 1..Cardinality(S) : i < j <=> <<order[i], order[j]>> \in R
      <3> HIDE DEF D, R, order
      <3> QED
        BY <2>1, <2>4, ListedByRank
    <2> QED
      BY <2>1, <2>5 DEF S
  <1>12. DOMAIN sorted = 1..n /\ \A i \in 1..n : sorted[i] = chunks[order[i]]
    BY <1>9, <1>11
  <1>13. sorted \in Seq(SUBSET Nat)
    <2>1. sorted \in [1..n -> SUBSET Nat]
      BY <1>1, <1>9, <1>11, <1>12
    <2> QED
      BY <1>1, <2>1
  <1>14. Range(sorted) = Range(chunks)
    <2>1. \A i \in 1..n : order[i] \in 1..n
      BY <1>11
    <2>2. /\ Range(sorted) = {sorted[i] : i \in 1..n}
          /\ Range(chunks) = {chunks[i] : i \in 1..n}
      BY <1>1, <1>12 DEF Range, D
    <2>3. {sorted[i] : i \in 1..n} \in SUBSET {chunks[i] : i \in 1..n}
      BY <1>12, <2>1
    <2>4. ASSUME NEW x \in 1..n
          PROVE  chunks[x] \in {sorted[i] : i \in 1..n}
      <3>1. PICK i \in 1..n : order[i] = x
        BY <1>11
      <3>2. sorted[i] = chunks[x]
        BY <1>12, <3>1
      <3> QED
        BY <3>2
    <2> QED
      BY <2>2, <2>3, <2>4
  <1>15. ASSUME NEW i \in 1..n, NEW j \in 1..n, i < j
         PROVE  /\ FirstTimestamp(sorted[i]) <= FirstTimestamp(sorted[j])
                /\ Apart(sorted[i], sorted[j])
    <2>1. order[i] \in 1..n /\ order[j] \in 1..n
      BY <1>11
    <2>2. Before(order[i], order[j])
      BY <1>4, <1>11, <1>15, <2>1
    <2>3. key(order[i]) <= key(order[j])
      BY <1>3, <2>1, <2>2
    <2>4. order[i] # order[j]
      BY <1>1, <1>11, <1>15
    <2>5. Apart(chunks[order[i]], chunks[order[j]]) \/ Apart(chunks[order[j]], chunks[order[i]])
      <3>1. order[i] < order[j] \/ order[j] < order[i]
        BY <1>1, <2>1, <2>4
      <3> QED
        BY <2>1, <3>1 DEF n
    <2>6. Apart(chunks[order[i]], chunks[order[j]])
      BY <2>5 DEF Apart
    <2> QED
      BY <1>12, <2>3, <2>6 DEF key
  <1> QED
    BY <1>12, <1>13, <1>14, <1>15 DEF n, sorted

\* A timestamp of a list that was not there before is after all that were.
NewOnesAscend(s) ==
  \A q \in 1..Len(s) : \/ \E p \in 1..(q - 1) : s[p] = s[q]
                       \/ \A p \in 1..(q - 1) : s[p] < s[q]

\* The first occurrences are in ascending order.
LEMMA FirstOnesAscend ==
  ASSUME NEW all \in Seq(Nat), NewOnesAscend(all)
  PROVE  Deduplicated(all) = Ascending(Range(all))
  <1> DEFINE n == Len(all)
             Keep(seen, t) == IF Contains(seen, t) THEN seen ELSE Append(seen, t)
             step == [p \in Seq(Nat) \X (1..n) |-> Keep(p[1], all[p[2]])]
             pick == [s \in SUBSET (1..n) |-> Max(s)]
             kept == CHOOSE table : table = [s \in SUBSET (DOMAIN all) |->
                       IF s = {} THEN <<>> ELSE Keep(table[s \ {Max(s)}], all[Max(s)])]
  <1>1. n \in Nat /\ DOMAIN all = 1..n /\ \A i \in 1..n : all[i] \in Nat
    OBVIOUS
  <1>2. Deduplicated(all) = kept[DOMAIN all]
    BY DEF Deduplicated, FoldLeft, MapThenFoldSet
  <1>3. kept = [s \in SUBSET (1..n) |->
                  IF s = {} THEN <<>> ELSE Keep(kept[s \ {Max(s)}], all[Max(s)])]
    <2>1. IsFiniteSet(1..n) /\ <<>> \in Seq(Nat)
      BY <1>1, PositionsCounted
    <2>2. \A t \in Seq(Nat), x \in 1..n : step[<<t, x>>] = Keep(t, all[x]) /\ step[<<t, x>>] \in Seq(Nat)
      BY <1>1
    <2>3. \A s \in SUBSET (1..n) : s # {} => pick[s] = Max(s) /\ pick[s] \in s
      BY <1>1, PrefixSteps
    <2> HIDE DEF step, pick, n
    <2>4. PICK table : FoldsInto(table, 1..n, Seq(Nat), <<>>, step, pick)
      <3>1. StaysWithin(1..n, Seq(Nat), <<>>, step, pick)
        <4>1. /\ \A t \in Seq(Nat), x \in 1..n : step[<<t, x>>] \in Seq(Nat)
              /\ \A s \in SUBSET (1..n) : s # {} => pick[s] \in s
          BY <2>2, <2>3
        <4> QED
          BY <2>1, <4>1 DEF StaysWithin
      <3> QED
        BY <3>1, FoldTable
    <2>7. table \in [SUBSET (1..n) -> Seq(Nat)]
      BY <2>4 DEF FoldsInto
    <2>5. \A s \in SUBSET (1..n) :
            table[s] = IF s = {} THEN <<>> ELSE Keep(table[s \ {Max(s)}], all[Max(s)])
      <3> TAKE s \in SUBSET (1..n)
      <3>1. CASE s = {}
        BY <2>4, <3>1 DEF FoldStep, FoldsInto
      <3>2. CASE s # {}
        <4>1. Max(s) \in 1..n /\ s \ {Max(s)} \in SUBSET (1..n) /\ pick[s] = Max(s)
          BY <2>3, <3>2
        <4>2. table[s] = step[<<table[s \ {Max(s)}], Max(s)>>]
          BY <2>4, <3>2, <4>1 DEF FoldStep, FoldsInto
        <4> QED
          BY <2>2, <2>7, <3>2, <4>1, <4>2
      <3> QED
        BY <3>1, <3>2
    <2>6. table = [s \in SUBSET (1..n) |->
                     IF s = {} THEN <<>> ELSE Keep(table[s \ {Max(s)}], all[Max(s)])]
      <3> HIDE DEF Keep
      <3> QED
        BY <2>5, <2>7
    <2> QED
      BY <1>1, <2>6
  <1> HIDE DEF kept, n
  \* What is kept of the first k timestamps.
  <1> DEFINE Seen(k) == kept[1..k]
             ascends(s) == \A i, j \in 1..Len(s) : i < j => s[i] < s[j]
             good == {k \in 0..n : /\ Seen(k) \in Seq(Nat)
                                   /\ Range(Seen(k)) = {all[p] : p \in 1..k}
                                   /\ ascends(Seen(k))}
  <1>4. Seen(0) = <<>> /\ \A k \in 1..n : Seen(k) = Keep(Seen(k - 1), all[k])
    BY <1>1, <1>3, PrefixSteps
  <1> HIDE DEF Seen
  <1>5. 0 \in good
    <2>1. Range(<<>>) = {} /\ 1..0 = {} /\ Len(<<>>) = 0 /\ <<>> \in Seq(Nat)
      BY DEF Range
    <2>2. ascends(<<>>)
      BY <2>1
    <2>3. {all[p] : p \in 1..0} = {}
      BY <2>1
    <2> HIDE DEF ascends
    <2>4. 0 \in 0..n
      BY <1>1
    <2> QED
      BY <1>4, <2>1, <2>2, <2>3, <2>4
  <1>6. ASSUME NEW k \in 1..n, k - 1 \in good
        PROVE  k \in good
    <2> DEFINE seen == Seen(k - 1)
               m == Len(seen)
               t == all[k]
    <2>1. seen \in Seq(Nat) /\ Range(seen) = {all[p] : p \in 1..(k - 1)} /\ ascends(seen)
      BY <1>6
    <2>2. k \in Nat /\ k \in 0..n /\ 1..k = (1..(k - 1)) \cup {k} /\ t \in Nat
      BY <1>1
    <2>3. {all[p] : p \in 1..k} = {all[p] : p \in 1..(k - 1)} \cup {t}
      BY <2>2
    <2>4. Seen(k) = Keep(seen, t)
      BY <1>4
    <2>5. Contains(seen, t) <=> t \in Range(seen)
      BY <2>1 DEF Contains, Range
    <2> HIDE DEF seen, t
    <2>6. CASE t \in Range(seen)
      BY <2>1, <2>2, <2>3, <2>4, <2>5, <2>6
    <2>7. CASE t \notin Range(seen)
      <3>1. Seen(k) = Append(seen, t)
        BY <2>4, <2>5, <2>7
      <3>2. /\ m \in Nat /\ Append(seen, t) \in Seq(Nat) /\ Len(Append(seen, t)) = m + 1
            /\ \A i \in 1..m : Append(seen, t)[i] = seen[i] /\ seen[i] \in Range(seen)
            /\ Append(seen, t)[m + 1] = t
            /\ DOMAIN Append(seen, t) = (1..m) \cup {m + 1}
            /\ DOMAIN seen = 1..m
        BY <2>1, <2>2 DEF Range
      <3> HIDE DEF m
      <3>3. \A p \in 1..(k - 1) : all[p] < t
        <4>1. \A p \in 1..(k - 1) : all[p] # all[k]
          BY <2>1, <2>7 DEF t
        <4> QED
          BY <4>1 DEF NewOnesAscend, n, t
      <3>4. \A i \in 1..m : seen[i] < t
        BY <2>1, <3>2, <3>3
      <3>5. ascends(Append(seen, t))
        <4> SUFFICES ASSUME NEW i \in 1..(m + 1), NEW j \in 1..(m + 1), i < j
                     PROVE  Append(seen, t)[i] < Append(seen, t)[j]
          BY <3>2
        <4>1. i \in 1..m
          BY <3>2
        <4>2. CASE j = m + 1
          BY <3>2, <3>4, <4>1, <4>2
        <4>3. CASE j # m + 1
          <5>1. j \in 1..m
            BY <3>2, <4>3
          <5>2. seen[i] < seen[j]
            BY <2>1, <4>1, <5>1 DEF m
          <5> QED
            BY <3>2, <4>1, <5>1, <5>2
        <4> QED
          BY <4>2, <4>3
      <3>6. Range(Append(seen, t)) = Range(seen) \cup {t}
        BY <3>2 DEF Range
      <3> HIDE DEF ascends
      <3> QED
        BY <2>1, <2>2, <2>3, <3>1, <3>2, <3>5, <3>6
    <2> QED
      BY <2>6, <2>7
  <1>7. n \in good
    <2>1. n \in 0..n
      BY <1>1
    <2> HIDE DEF good
    <2> QED
      BY <1>1, <1>5, <1>6, <2>1, PrefixInduction
  <1>8. /\ Deduplicated(all) \in Seq(Nat) /\ ascends(Deduplicated(all))
        /\ Range(Deduplicated(all)) = {all[p] : p \in 1..n}
    BY <1>1, <1>2, <1>7 DEF Seen
  <1>9. Range(all) = {all[p] : p \in 1..n}
    BY <1>1 DEF Range
  <1> QED
    BY <1>8, <1>9, OneAscendingList

\* The chunks in the order of their first timestamps, one after the other.
InOrder(chunks) ==
  \A i, j \in 1..Len(chunks) : i < j =>
    FirstTimestamp(chunks[i]) <= FirstTimestamp(chunks[j]) /\ Apart(chunks[i], chunks[j])

\* The key of a chunk that is not empty is one of its timestamps and not after any.
LEMMA FirstIsLeast ==
  ASSUME NEW S \in SUBSET Nat, NEW x \in S
  PROVE  FirstTimestamp(S) \in S /\ FirstTimestamp(S) <= x
  <1>1. \E t \in S : \A u \in S : t <= u
    BY LeastExists
  <1> QED
    BY <1>1 DEF FirstTimestamp

\* What is new in a chunk is after everything in the chunks before it.
LEMMA NextChunkAscends ==
  ASSUME NEW s \in Seq(Nat), NewOnesAscend(s), NEW c \in Seq(Nat),
         \A i, j \in 1..Len(c) : i < j => c[i] < c[j],
         \A x \in Range(c) : x \in Range(s) \/ \A y \in Range(s) : y < x
  PROVE  NewOnesAscend(s \o c)
  <1> DEFINE m == Len(s)
             n == Len(c)
             t == s \o c
  <1>1. /\ m \in Nat /\ n \in Nat /\ t \in Seq(Nat) /\ Len(t) = m + n
        /\ \A i \in 1..m : t[i] = s[i] /\ s[i] \in Range(s)
        /\ \A i \in 1..n : t[m + i] = c[i] /\ c[i] \in Range(c)
        /\ \A x \in Range(s) : \E i \in 1..m : s[i] = x
    BY DEF Range
  <1> SUFFICES ASSUME NEW q \in 1..(m + n)
               PROVE  \/ \E p \in 1..(q - 1) : t[p] = t[q]
                      \/ \A p \in 1..(q - 1) : t[p] < t[q]
    BY <1>1 DEF NewOnesAscend
  <1>2. CASE q <= m
    <2>1. q \in 1..m /\ \A p \in 1..(q - 1) : p \in 1..m
      BY <1>1, <1>2
    <2>2. \/ \E p \in 1..(q - 1) : s[p] = s[q]
          \/ \A p \in 1..(q - 1) : s[p] < s[q]
      BY <2>1 DEF NewOnesAscend
    <2> HIDE DEF t
    <2> QED
      BY <1>1, <2>1, <2>2
  <1>3. CASE q > m
    <2>1. q - m \in 1..n /\ m + (q - m) = q /\ \A p \in 1..m : p \in 1..(q - 1)
      BY <1>1, <1>3
    <2> DEFINE x == c[q - m]
    <2>2. t[q] = x /\ x \in Range(c)
      BY <1>1, <2>1
    <2> HIDE DEF t, x, n, m
    <2>3. CASE x \in Range(s)
      BY <1>1, <2>1, <2>2, <2>3
    <2>4. CASE x \notin Range(s)
      <3>1. \A p \in 1..m : t[p] < x
        BY <1>1, <2>2, <2>4
      <3>2. ASSUME NEW p \in 1..(q - 1), ~(p <= m)
            PROVE  t[p] < x
        <4>1. p - m \in 1..n /\ m + (p - m) = p /\ p - m < q - m
          BY <1>1, <1>3, <2>1, <3>2
        <4>2. t[p] = c[p - m]
          BY <1>1, <4>1
        <4> QED
          BY <2>1, <4>1, <4>2 DEF x, n
      <3>3. \A p \in 1..(q - 1) : p <= m => p \in 1..m
        BY <1>1
      <3> QED
        BY <2>2, <3>1, <3>2, <3>3
    <2> QED
      BY <2>3, <2>4
  <1> QED
    BY <1>1, <1>2, <1>3

\* Chunks in order, one after the other.
LEMMA ChunksJoined ==
  ASSUME NEW chunks \in Seq(SUBSET Nat), \A i \in 1..Len(chunks) : IsFiniteSet(chunks[i]),
         InOrder(chunks)
  PROVE  /\ Joined(chunks) \in Seq(Nat) /\ NewOnesAscend(Joined(chunks))
         /\ Range(Joined(chunks)) = UNION Range(chunks)
  <1> DEFINE n == Len(chunks)
             lists == [i \in DOMAIN chunks |-> Ascending(chunks[i])]
             upto(k) == UNION {chunks[i] : i \in 1..k}
  <1>1. n \in Nat /\ DOMAIN chunks = 1..n /\ \A i \in 1..n : i \in Int /\ chunks[i] \in SUBSET Nat
    OBVIOUS
  <1>2. ASSUME NEW i \in 1..n
        PROVE  /\ lists[i] \in Seq(Nat) /\ Range(lists[i]) = chunks[i]
               /\ \A p, q \in 1..Len(lists[i]) : p < q => lists[i][p] < lists[i][q]
    <2>1. lists[i] = Ascending(chunks[i]) /\ IsFiniteSet(chunks[i]) /\ chunks[i] \in SUBSET Nat
      BY <1>1
    <2>2. Ascending(chunks[i]) \in Seq(chunks[i]) /\ Range(Ascending(chunks[i])) = chunks[i]
      BY <2>1, AscendingLists
    <2>3. Ascending(chunks[i]) \in Seq(Nat)
      BY <2>1, <2>2
    <2> QED
      BY <2>1, <2>2, <2>3, AscendingLists
  <1>3. lists \in Seq(Seq(Nat)) /\ Len(lists) = n /\ Joined(chunks) = FlattenSeq(lists)
    <2>1. lists \in [1..n -> Seq(Nat)]
      BY <1>1, <1>2
    <2>2. Joined(chunks) = FlattenSeq(lists)
      BY DEF Joined
    <2> HIDE DEF lists
    <2> QED
      BY <1>1, <2>1, <2>2
  <1>4. PICK joined : JoinedSoFar(joined, lists, Nat)
    BY <1>3, SequencesJoined
  <1>5. /\ joined \in [0..n -> Seq(Nat)] /\ joined[0] = <<>>
        /\ \A k \in 1..n : joined[k] = joined[k - 1] \o lists[k]
        /\ joined[n] = Joined(chunks)
    BY <1>3, <1>4 DEF JoinedSoFar
  <1> HIDE DEF n, lists
  <1> DEFINE good == {k \in 0..n : NewOnesAscend(joined[k]) /\ Range(joined[k]) = upto(k)}
  <1>6. 0 \in good
    <2>1. Range(<<>>) = {} /\ 1..0 = {} /\ NewOnesAscend(<<>>)
      BY DEF Range, NewOnesAscend
    <2>2. 0 \in 0..n /\ upto(0) = {}
      BY <1>1, <2>1
    <2> HIDE DEF upto
    <2> QED
      BY <1>5, <2>1, <2>2
  <1>7. ASSUME NEW k \in 1..n, k - 1 \in good
        PROVE  k \in good
    <2> DEFINE s == joined[k - 1]
               c == lists[k]
    <2>1. k \in 0..n /\ k - 1 \in 0..n /\ 1..k = (1..(k - 1)) \cup {k} /\ \A i \in 1..(k - 1) : i \in 1..n /\ i < k
      BY <1>1
    <2>2. s \in Seq(Nat) /\ NewOnesAscend(s) /\ Range(s) = upto(k - 1)
      BY <1>5, <1>7, <2>1
    <2>3. c \in Seq(Nat) /\ Range(c) = chunks[k] /\ \A p, q \in 1..Len(c) : p < q => c[p] < c[q]
      BY <1>2
    <2>4. joined[k] = s \o c
      BY <1>5
    <2> HIDE DEF s, c
    <2>5. ASSUME NEW x \in chunks[k], x \notin Range(s), NEW y \in Range(s)
          PROVE  y < x
      <3>1. PICK i \in 1..(k - 1) : y \in chunks[i]
        BY <2>2, <2>5
      <3>2. /\ chunks[i] \in SUBSET Nat /\ chunks[k] \in SUBSET Nat /\ x \in Nat /\ y \in Nat
            /\ FirstTimestamp(chunks[i]) <= FirstTimestamp(chunks[k]) /\ Apart(chunks[i], chunks[k])
        BY <1>1, <2>1, <3>1 DEF InOrder, n
      <3>3. /\ FirstTimestamp(chunks[i]) \in chunks[i] /\ FirstTimestamp(chunks[i]) \in Nat
            /\ FirstTimestamp(chunks[k]) \in Nat /\ FirstTimestamp(chunks[k]) <= x
        BY <3>1, <3>2, FirstIsLeast
      <3>4. chunks[i] \in SUBSET Range(s)
        BY <2>2
      <3>5. FirstTimestamp(chunks[i]) # x /\ y # x
        BY <2>5, <3>3, <3>4
      <3> QED
        BY <3>1, <3>2, <3>3, <3>5 DEF Apart
    <2>6. NewOnesAscend(s \o c)
      BY <2>2, <2>3, <2>5, NextChunkAscends
    <2>7. Range(s \o c) = Range(s) \cup Range(c)
      BY <2>2, <2>3, OwnEntries, EntriesJoined
    <2>8. upto(k) = upto(k - 1) \cup chunks[k]
      BY <2>1
    <2> HIDE DEF upto
    <2> QED
      BY <2>1, <2>2, <2>3, <2>4, <2>6, <2>7, <2>8
  <1>8. n \in good
    <2>1. n \in 0..n
      BY <1>1
    <2> HIDE DEF good
    <2> QED
      BY <1>1, <1>6, <1>7, <2>1, PrefixInduction
  <1>9. upto(n) = UNION Range(chunks)
    BY <1>1 DEF Range
  <1>10. n \in 0..n
    BY <1>1
  <1> QED
    BY <1>5, <1>8, <1>9, <1>10

\* The stitched series of chunks that are apart has every timestamp of a chunk once,
\* in ascending order.
LEMMA ChunksStitched ==
  ASSUME NEW chunks \in Seq(SUBSET Nat), \A i \in 1..Len(chunks) : IsFiniteSet(chunks[i]),
         \A i, j \in 1..Len(chunks) : i < j => Apart(chunks[i], chunks[j])
  PROVE  Stitch(chunks) = Ascending(UNION Range(chunks))
  <1> DEFINE sorted == SortedChunks(chunks)
  <1>1. /\ sorted \in Seq(SUBSET Nat) /\ Len(sorted) = Len(chunks)
        /\ Range(sorted) = Range(chunks) /\ InOrder(sorted)
    <2>1. /\ sorted \in Seq(SUBSET Nat) /\ DOMAIN sorted = 1..Len(chunks)
          /\ Range(sorted) = Range(chunks)
          /\ \A i, j \in 1..Len(chunks) : i < j =>
               FirstTimestamp(sorted[i]) <= FirstTimestamp(sorted[j]) /\ Apart(sorted[i], sorted[j])
      BY ChunksSorted
    <2> HIDE DEF sorted
    <2>2. Len(sorted) = Len(chunks)
      BY <2>1
    <2> QED
      BY <2>1, <2>2 DEF InOrder
  <1> HIDE DEF sorted
  <1>2. \A i \in 1..Len(sorted) : IsFiniteSet(sorted[i])
    <2> TAKE i \in 1..Len(sorted)
    <2>1. sorted[i] \in Range(sorted)
      BY <1>1 DEF Range
    <2>2. \A c \in Range(chunks) : IsFiniteSet(c)
      BY DEF Range
    <2> QED
      BY <1>1, <2>1, <2>2
  <1>3. /\ Joined(sorted) \in Seq(Nat) /\ NewOnesAscend(Joined(sorted))
        /\ Range(Joined(sorted)) = UNION Range(chunks)
    BY <1>1, <1>2, ChunksJoined
  <1>4. Deduplicated(Joined(sorted)) = Ascending(UNION Range(chunks))
    BY <1>3, FirstOnesAscend
  <1> QED
    BY <1>4 DEF Stitch, sorted

-----------------------------------------------------------------------------
(* The inductive invariant                                                 *)

\* The pages of a query stay apart when the next one is stored.
LEMMA StoreKeepsApart ==
  ASSUME TypeOK, state = "calling", NEW q \in Queries, NEW cut, Store(cut), PagesApart(q)
  PROVE  \A i, j \in 1..Len(partial'[q]) : i < j => Apart(partial'[q][i], partial'[q][j])
<1>1. partial[q] \in Seq(SUBSET Nat) /\ Page(q, cut) \in SUBSET Nat /\ Page(q, cut) \in SUBSET unsent[q]
  BY DEF TypeOK, Page
<1>2. CASE q \in Batch(first)
  <2> DEFINE p == partial[q]
             n == Len(p)
             next == Append(p, Page(q, cut))
  <2>1. partial'[q] = next
    BY <1>2 DEF Store
  <2>2. /\ n \in Nat /\ Len(next) = n + 1 /\ \A i \in 1..n : next[i] = p[i]
        /\ next[n + 1] = Page(q, cut)
    BY <1>1
  <2>3. /\ \A i, j \in 1..n : i < j => Apart(p[i], p[j])
        /\ \A i \in 1..n : Apart(p[i], Page(q, cut))
    BY <1>1, <1>2 DEF PagesApart, Apart
  <2> HIDE DEF p, n, next
  <2> QED
    BY <2>1, <2>2, <2>3
<1>3. CASE q \notin Batch(first)
  BY <1>3 DEF Store, PagesApart
<1> QED
  BY <1>2, <1>3

\* Each page is part of what was received.
LEMMA PagesReceived ==
  ASSUME TypeOK, NEW q \in Queries
  PROVE  \A i \in 1..Len(partial[q]) : partial[q][i] \in SUBSET Received(q)
<1>1. partial[q] \in Seq(SUBSET Nat)
  BY DEF TypeOK
<1> QED
  BY <1>1 DEF Received

LEMMA InitEstablishes == Init => IInv
<1> SUFFICES ASSUME Init PROVE IInv
  OBVIOUS
<1>1. \A c, f : Request(c, f) \in [Queries -> SUBSET Nat]
  BY HistoriesAssumption DEF Request, Due, Init
<1>2. TypeOK
  BY <1>1, RangeAssumption, RetriesAssumption, HistoriesAssumption DEF TypeOK, Init
<1>3. \A q \in Queries : Received(q) = {} /\ Due(q, Start, Start) = {}
  BY RangeAssumption DEF Received, Init, Due
<1>4. state = "calling" => from < End /\ \A q \in Queries : Progress(q)
  <2> SUFFICES ASSUME state = "calling", NEW q \in Queries
               PROVE  from < End /\ Progress(q)
    BY RangeAssumption, QueriesAssumption DEF Init, Queries
  <2>1. from < End
    BY RangeAssumption DEF Init
  <2>2. Due(q, Start, from) \cup Due(q, from, ChunkEnd(from)) = Due(q, Start, ChunkEnd(from))
    BY <1>2, <2>1, WindowsMeet
  <2>3. q \in Batch(0) => unsent[q] = Due(q, from, ChunkEnd(from))
    BY DEF Init, Request
  <2>4. from = Start /\ first = 0 /\ ~(q <= 0)
    BY DEF Init, Queries
  <2> QED
    BY <1>3, <2>1, <2>2, <2>3, <2>4 DEF Progress
<1>5. EverythingReceived
  <2> SUFFICES ASSUME state = "done", NEW q \in Queries
               PROVE  Due(q, Start, End) = {}
    BY <1>3 DEF EverythingReceived
  <2>1. ~(Start < End)
    BY QueriesAssumption, RangeAssumption DEF Init, Queries
  <2> QED
    BY <2>1 DEF Due
<1>6. \A q \in Queries : PagesApart(q)
  BY DEF PagesApart, Init
<1> QED
  BY <1>2, <1>4, <1>5, <1>6 DEF IInv

LEMMA NextPageKeeps ==
  ASSUME IInv, NEW cut \in [Batch(first) -> Start..End + 1], NextPage(cut)
  PROVE  IInv'
<1>1. TypeOK /\ from < End /\ state = "calling" /\ state' = "calling" /\ from' = from
      /\ first' = first /\ has' = has /\ closed' = closed
  BY DEF IInv, NextPage, service
<1>2. TypeOK'
  <2>1. partial' \in [Queries -> Seq(SUBSET Nat)]
    <3> SUFFICES ASSUME NEW q \in Queries
                 PROVE  Append(partial[q], Page(q, cut)) \in Seq(SUBSET Nat)
      BY <1>1 DEF NextPage, Store, TypeOK
    <3>1. Page(q, cut) \in SUBSET Nat
      BY <1>1 DEF Page, TypeOK
    <3> QED
      BY <1>1, <3>1 DEF TypeOK
  <2>2. unsent' \in [Queries -> SUBSET Nat]
    BY <1>1 DEF NextPage, TypeOK
  <2> QED
    BY <1>1, <2>1, <2>2, RetriesAssumption DEF TypeOK, NextPage
<1>3. ASSUME NEW q \in Queries
      PROVE  Progress(q)'
  <2>1. Received(q)' = Received(q) \cup (IF q \in Batch(first) THEN Page(q, cut) ELSE {})
    BY <1>1, StoreAdds DEF NextPage
  <2>2. q \in Batch(first) => unsent'[q] = unsent[q] \ Page(q, cut) /\ Page(q, cut) \subseteq unsent[q]
    BY DEF NextPage, Page
  <2>3. q \in Batch(first) <=> first < q /\ q <= first + MaxPerBatch
    BY DEF Batch
  <2>4. Progress(q)
    BY <1>1 DEF IInv
  <2>5. \A lo, hi : Due(q, lo, hi)' = Due(q, lo, hi)
    BY <1>1 DEF Due
  <2>6. ChunkEnd(from)' = ChunkEnd(from) /\ Batch(first)' = Batch(first)
    BY <1>1 DEF ChunkEnd, Batch
  <2>7. first \in Nat /\ q \in Int
    BY <1>1 DEF TypeOK, Queries
  <2> QED
    BY <1>1, <2>1, <2>2, <2>3, <2>4, <2>5, <2>6, <2>7, QueriesAssumption DEF Progress, Due
<1>4. ASSUME NEW q \in Queries
      PROVE  PagesApart(q)'
  <2>1. PagesApart(q)
    BY DEF IInv
  <2>2. \A i, j \in 1..Len(partial'[q]) : i < j => Apart(partial'[q][i], partial'[q][j])
    BY <1>1, <2>1, StoreKeepsApart DEF NextPage
  <2>3. ASSUME q \in Batch(first), NEW i \in 1..Len(partial'[q])
        PROVE  Apart(partial'[q][i], unsent'[q])
    <3>1. /\ partial[q] \in Seq(SUBSET Nat) /\ Page(q, cut) \in SUBSET Nat /\ cut[q] \in Int
          /\ unsent[q] \in SUBSET Nat
      BY <1>1, <2>3, RangeAssumption DEF TypeOK, Page
    <3>2. partial'[q] = Append(partial[q], Page(q, cut)) /\ unsent'[q] = unsent[q] \ Page(q, cut)
      BY <2>3 DEF NextPage, Store
    <3>3. Apart(Page(q, cut), unsent[q] \ Page(q, cut))
      BY <3>1 DEF Page, Apart
    <3>4. CASE i \in 1..Len(partial[q])
      <4>1. Apart(partial[q][i], unsent[q]) /\ partial'[q][i] = partial[q][i]
        BY <1>1, <2>1, <2>3, <3>1, <3>2, <3>4 DEF PagesApart
      <4> QED
        BY <3>2, <4>1 DEF Apart
    <3>5. CASE i \notin 1..Len(partial[q])
      <4>1. i = Len(partial[q]) + 1
        BY <2>3, <3>1, <3>2, <3>5
      <4> QED
        BY <3>1, <3>2, <3>3, <4>1
    <3> QED
      BY <3>4, <3>5
  <2>4. Batch(first)' = Batch(first)
    BY <1>1 DEF Batch
  <2> QED
    BY <2>2, <2>3, <2>4 DEF PagesApart
<1> QED
  BY <1>1, <1>2, <1>3, <1>4 DEF IInv, EverythingReceived

LEMMA LastPageKeeps ==
  ASSUME IInv, NEW cut \in [Batch(first) -> Start..End + 1], LastPage(cut)
  PROVE  IInv'
<1>1. TypeOK /\ from < End /\ state = "calling" /\ has' = has /\ closed' = closed
  BY DEF IInv, LastPage, service
<1>2. TypeOK'
  <2>1. partial' \in [Queries -> Seq(SUBSET Nat)]
    <3> SUFFICES ASSUME NEW q \in Queries
                 PROVE  Append(partial[q], Page(q, cut)) \in Seq(SUBSET Nat)
      BY <1>1 DEF LastPage, Store, TypeOK
    <3>1. Page(q, cut) \in SUBSET Nat
      BY <1>1 DEF Page, TypeOK
    <3> QED
      BY <1>1, <3>1 DEF TypeOK
  <2>2. \A c, f : Request(c, f)' \in [Queries -> SUBSET Nat]
    BY <1>1, HistoriesAssumption DEF Request, Due, TypeOK
  <2>3. unsent' \in [Queries -> SUBSET Nat]
    BY <1>1, HistoriesAssumption DEF LastPage, Request, Due, TypeOK
  <2>4. from' \in Nat /\ Start <= from' /\ first' \in Nat
    BY <1>1, RangeAssumption, QueriesAssumption DEF LastPage, TypeOK, NextChunk, ChunkEnd
  <2> QED
    BY <1>1, <2>1, <2>3, <2>4, RetriesAssumption DEF TypeOK, LastPage
<1>3. ASSUME NEW q \in Queries
      PROVE  /\ Received(q)' = Received(q) \cup (IF q \in Batch(first) THEN unsent[q] ELSE {})
             /\ q <= first + MaxPerBatch => Received(q)' = Due(q, Start, ChunkEnd(from))
             /\ q > first + MaxPerBatch => Received(q)' = Due(q, Start, from)
  <2>1. Received(q)' = Received(q) \cup (IF q \in Batch(first) THEN Page(q, cut) ELSE {})
    BY <1>1, StoreAdds DEF LastPage
  <2>2. q \in Batch(first) => Page(q, cut) = unsent[q]
    BY DEF LastPage
  <2>3. q \in Batch(first) <=> first < q /\ q <= first + MaxPerBatch
    BY DEF Batch
  <2>4. Progress(q)
    BY <1>1 DEF IInv
  <2>5. first \in Nat /\ q \in Int
    BY <1>1 DEF TypeOK, Queries
  <2> QED
    BY <2>1, <2>2, <2>3, <2>4, <2>5, QueriesAssumption DEF Progress
<1>4. \A q, lo, hi : Due(q, lo, hi)' = Due(q, lo, hi)
  BY <1>1 DEF Due
<1>7. ASSUME NEW q \in Queries
      PROVE  \A i, j \in 1..Len(partial'[q]) : i < j => Apart(partial'[q][i], partial'[q][j])
  BY <1>1, StoreKeepsApart DEF LastPage, IInv
\* A window's datapoints are not before those of the windows before it.
<1>8. ASSUME NEW q \in Queries, NEW t \in Nat, Received(q)' \in SUBSET Due(q, Start, t),
             NEW hi, unsent'[q] = Due(q, t, hi)
      PROVE  \A i \in 1..Len(partial'[q]) : Apart(partial'[q][i], unsent'[q])
  <2>1. \A i \in 1..Len(partial'[q]) : partial'[q][i] \in SUBSET Received(q)'
    <3>1. partial'[q] \in Seq(SUBSET Nat)
      BY <1>2 DEF TypeOK
    <3> QED
      BY <3>1 DEF Received
  <2>2. has[q] \in SUBSET Nat
    BY <1>1, HistoriesAssumption DEF TypeOK
  <2>3. /\ \A a \in Due(q, Start, t) : a \in Nat /\ a <= t
        /\ \A b \in Due(q, t, hi) : b \in Nat /\ t <= b
    BY <2>2 DEF Due
  <2> QED
    BY <1>8, <2>1, <2>3 DEF Apart
<1>5. CASE MoreBatches /\ first' = first + MaxPerBatch /\ from' = from /\ state' = state
  <2>1. ASSUME NEW q \in Queries
        PROVE  Progress(q)'
    <3>1. Due(q, Start, from) \cup Due(q, from, ChunkEnd(from)) = Due(q, Start, ChunkEnd(from))
      BY <1>1, WindowsMeet
    <3>2. q \in Batch(first)' => unsent'[q] = Due(q, from, ChunkEnd(from))
      BY <1>1, <1>5 DEF LastPage, Request, Batch, Due, ChunkEnd
    <3>3. q \in Batch(first)' <=> first' < q /\ q <= first' + MaxPerBatch
      BY DEF Batch
    <3>4. first \in Nat /\ q \in Int
      BY <1>1 DEF TypeOK, Queries
    <3>5. ChunkEnd(from)' = ChunkEnd(from)
      BY <1>5 DEF ChunkEnd
    <3>6. /\ Due(q, Start, ChunkEnd(from))' = Due(q, Start, ChunkEnd(from))
          /\ Due(q, Start, from)' = Due(q, Start, from)
      BY <1>1, <1>5, <3>5 DEF Due
    <3> QED
      BY <1>3, <1>5, <3>1, <3>2, <3>3, <3>4, <3>6, QueriesAssumption DEF Progress
  <2>2. ASSUME NEW q \in Queries
        PROVE  PagesApart(q)'
    <3>1. ASSUME q \in Batch(first)'
          PROVE  \A i \in 1..Len(partial'[q]) : Apart(partial'[q][i], unsent'[q])
      <4>1. unsent'[q] = Due(q, from, ChunkEnd(from))
        BY <1>1, <1>5, <3>1 DEF LastPage, Request, Batch, Due, ChunkEnd
      <4>2. q > first + MaxPerBatch
        BY <1>5, <3>1 DEF Batch
      <4>3. Received(q)' = Due(q, Start, from)
        BY <1>3, <4>2
      <4>4. from \in Nat
        BY <1>1 DEF TypeOK
      <4> QED
        BY <1>8, <4>1, <4>3, <4>4
    <3> QED
      BY <1>7, <3>1 DEF PagesApart
  <2> QED
    BY <1>1, <1>2, <1>5, <2>1, <2>2 DEF IInv, EverythingReceived
<1>6. CASE ~MoreBatches /\ first' = 0 /\ from' = NextChunk
           /\ state' = (IF NextChunk < End THEN "calling" ELSE "done")
  <2>1. ASSUME NEW q \in Queries
        PROVE  Received(q)' = Due(q, Start, from')
    <3>1. q <= first + MaxPerBatch
      BY <1>1, <1>6, QueriesAssumption DEF MoreBatches, TypeOK, Queries
    <3> QED
      BY <1>3, <1>6, <3>1 DEF NextChunk
  <2>4. ASSUME NEW q \in Queries
        PROVE  PagesApart(q)'
    <3>1. ASSUME state' = "calling", q \in Batch(first)'
          PROVE  \A i \in 1..Len(partial'[q]) : Apart(partial'[q][i], unsent'[q])
      <4>1. unsent'[q] = Due(q, from', ChunkEnd(from'))
        BY <1>1, <1>4, <1>6, <3>1 DEF LastPage, Request, Batch, Due, ChunkEnd
      <4>2. from' \in Nat
        BY <1>2 DEF TypeOK
      <4> QED
        BY <1>8, <2>1, <4>1, <4>2
    <3> QED
      BY <1>7, <3>1 DEF PagesApart
  <2>2. CASE NextChunk < End
    <3>1. ASSUME NEW q \in Queries
          PROVE  Progress(q)'
      <4>1. Due(q, Start, from)' \cup Due(q, from, ChunkEnd(from))' = Due(q, Start, ChunkEnd(from))'
        <5>1. from' \in Nat /\ Start <= from' /\ has'[q] \subseteq Nat /\ from' < End
          BY <1>2, <1>6, <2>2, HistoriesAssumption DEF TypeOK
        <5>2. ChunkEnd(from') \in Nat /\ from' < ChunkEnd(from')
          BY <5>1, WindowNotEmpty
        <5>3. ChunkEnd(from)' = ChunkEnd(from')
          BY DEF ChunkEnd
        <5> QED
          BY <5>1, <5>2, <5>3, RangeAssumption DEF Due
      <4>2. q \in Batch(first)' => unsent'[q] = Due(q, from, ChunkEnd(from))'
        BY <1>1, <1>6 DEF LastPage, Request, Batch, Due, ChunkEnd
      <4>3. ~(q <= first')
        BY <1>6 DEF Queries
      <4>4. Received(q)' = Due(q, Start, from)'
        BY <1>1, <2>1 DEF Due
      <4> QED
        BY <4>1, <4>2, <4>3, <4>4 DEF Progress
    <3> QED
      BY <1>2, <1>6, <2>2, <2>4, <3>1 DEF IInv, EverythingReceived
  <2>3. CASE ~(NextChunk < End)
    <3>1. NextChunk = End
      BY <1>1, <2>3, RangeAssumption DEF NextChunk, ChunkEnd, TypeOK
    <3>2. \A q \in Queries : Received(q)' = Due(q, Start, End)'
      BY <1>1, <1>6, <2>1, <3>1 DEF Due
    <3> QED
      BY <1>2, <1>6, <2>3, <2>4, <3>2 DEF IInv, EverythingReceived
  <2> QED
    BY <2>2, <2>3
<1> QED
  BY <1>5, <1>6 DEF LastPage

LEMMA NextKeeps == IInv /\ [Next]_vars => IInv'
<1> SUFFICES ASSUME IInv, [Next]_vars PROVE IInv'
  OBVIOUS
<1>1. CASE Respond
  BY <1>1, NextPageKeeps, LastPageKeeps DEF Respond
<1>2. CASE Retry
  <2>1. TypeOK'
    BY <1>2, RetriesAssumption DEF Retry, IInv, TypeOK, service
  <2>2. \A q \in Queries : Progress(q)' <=> Progress(q)
    BY <1>2 DEF Retry, service, Progress, Received, Due, Batch, ChunkEnd
  <2>3. \A q \in Queries : PagesApart(q)' <=> PagesApart(q)
    BY <1>2 DEF Retry, PagesApart, Batch
  <2> QED
    BY <1>2, <2>1, <2>2, <2>3 DEF Retry, IInv, EverythingReceived, service
<1>3. CASE Fail
  <2>1. \A q \in Queries : PagesApart(q) => PagesApart(q)'
    BY <1>3 DEF Fail, PagesApart
  <2> QED
    BY <1>3, <2>1 DEF Fail, IInv, TypeOK, EverythingReceived, service
<1>4. CASE UNCHANGED vars
  <2>1. \A q \in Queries : Progress(q)' <=> Progress(q)
    BY <1>4 DEF vars, service, Progress, Received, Due, Batch, ChunkEnd
  <2>2. \A q \in Queries : PagesApart(q)' <=> PagesApart(q)
    BY <1>4 DEF vars, PagesApart, Batch
  <2> QED
    BY <1>4, <2>1, <2>2 DEF vars, IInv, TypeOK, EverythingReceived, Received, Due, service
<1> QED
  BY <1>1, <1>2, <1>3, <1>4 DEF Next

-----------------------------------------------------------------------------
(* Theorems                                                                *)

\* The invariant holds in every behaviour of the collector.
THEOREM InductiveInvariant == Spec => []IInv
  BY InitEstablishes, NextKeeps, PTL DEF Spec

\* The variables have their types.
THEOREM TypeCorrect == Spec => []TypeOK
<1>1. IInv => TypeOK
  BY DEF IInv
<1> QED
  BY <1>1, InductiveInvariant, PTL

\* BatchExecutor.execute: a collection that ends without an error has received,
\* of each query, every datapoint of the time range and none from outside,
\* however the range is cut, the queries are batched and the pages are retried.
THEOREM NothingIsLost == Spec => []EverythingReceived
<1>1. IInv => EverythingReceived
  BY DEF IInv
<1> QED
  BY <1>1, InductiveInvariant, PTL

\* stitch_time_series: the series of each query is what CloudWatch holds of it in the
\* time range, each timestamp once and in ascending order, although pages arrive newest
\* first and windows share their ends.
THEOREM SeriesAreExact == Spec => []SeriesExact
<1>1. IInv => SeriesExact
  <2> SUFFICES ASSUME IInv, state = "done", NEW q \in Queries
               PROVE  Stitch(partial[q]) = Ascending(Due(q, Start, End))
    BY DEF SeriesExact
  <2> DEFINE chunks == partial[q]
  <2>1. /\ chunks \in Seq(SUBSET Nat)
        /\ \A i, j \in 1..Len(chunks) : i < j => Apart(chunks[i], chunks[j])
        /\ Received(q) = Due(q, Start, End)
    BY DEF IInv, TypeOK, PagesApart, EverythingReceived
  <2>2. UNION Range(chunks) = Received(q)
    BY <2>1 DEF Range, Received
  <2>3. \A i \in 1..Len(chunks) : IsFiniteSet(chunks[i])
    <3> TAKE i \in 1..Len(chunks)
    <3>1. chunks[i] \in SUBSET Received(q)
      BY PagesReceived DEF IInv
    <3>2. IsFiniteSet(Start..End) /\ Due(q, Start, End) \in SUBSET (Start..End)
      <4>1. has[q] \in SUBSET Nat
        BY HistoriesAssumption DEF IInv, TypeOK
      <4>2. IsFiniteSet(Start..End)
        BY RangeAssumption, FS_Interval
      <4>3. Due(q, Start, End) \in SUBSET (Start..End)
        BY <4>1, RangeAssumption DEF Due
      <4> QED
        BY <4>1, <4>2, <4>3
    <3> QED
      BY <2>1, <3>1, <3>2, FS_Subset
  <2> HIDE DEF chunks
  <2>4. Stitch(chunks) = Ascending(UNION Range(chunks))
    BY <2>1, <2>3, ChunksStitched
  <2> QED
    BY <2>1, <2>2, <2>4 DEF chunks
<1> QED
  BY <1>1, InductiveInvariant, PTL
===============================================================================
