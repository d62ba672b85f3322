----------------------- MODULE DiscoverInventoryProofs -----------------------
(***************************************************************************)
(* Proofs about Stage 1: an inventory without errors lacks only what AWS   *)
(* answered with nothing, although failed lookups are kept in caches and   *)
(* shared.                                                                 *)
(***************************************************************************)
EXTENDS DiscoverInventory, SequenceTheorems, TLAPS

-----------------------------------------------------------------------------
(* The inductive invariant                                                 *)

\* A scan has recorded an error, its own or one of a cluster.
Dirty(r) ==
  \/ scanErrors[r] # {}
  \/ \E i \in DOMAIN records[r] : records[r][i].errors # {}

\* The listings a scan has behind it.
Passed(r) == CASE scan[r] = "caches" -> {"groups"}
               [] scan[r] \in {"enriching", "returned"} -> Kinds
               [] OTHER -> {}

Fresh(r) ==
  /\ next[r] = 0 /\ records[r] = <<>>
  /\ cached[r] = [g \in Groups |-> Unread]

\* Before the enrichment nothing is read of a resource; a page holds what has
\* been answered of its listing.
ListingInv(r) ==
  /\ scan[r] \in {"none", "queued", "raised"} =>
       /\ Fresh(r) /\ found[r] = <<>> /\ scanErrors[r] = {}
       /\ read[r] = 0 /\ page[r] = <<>>
  /\ scan[r] \in Kinds =>
       /\ Fresh(r)
       /\ read[r] <= Len(Listing[r][scan[r]])
       /\ Elements(page[r]) =
            {Listing[r][scan[r]][i] : i \in 1..read[r]} \ {Missing}

\* What was found is what the listings that did not fail are meant to find.
FoundInv(r) ==
  /\ scanErrors[r] \cap Kinds \subseteq Passed(r)
  /\ Elements(found[r]) = UNION {Wanted(r, k) : k \in Passed(r) \ scanErrors[r]}

\* Each resource found so far has a record or an error.
EnrichedInv(r) ==
  /\ next[r] <= Len(found[r])
  /\ scan[r] = "returned" => next[r] = Len(found[r])
  /\ {found[r][i] : i \in 1..next[r]} =
       {records[r][i].resource : i \in DOMAIN records[r]} \cup (scanErrors[r] \cap Resources)

\* A scan without errors has only true answers in its caches, or what was answered
\* with nothing, and only such records: whoever put a failed answer there has
\* recorded the error.
TruthIn(cache, empty) ==
  \A g \in Groups : \/ cache[g] \in {Unread, Content[g]}
                    \/ cache[g] = {} /\ g \in empty
TruthInv(r) ==
  ~Dirty(r) =>
    /\ TruthIn(cached[r], unanswered[r])
    /\ \A i \in DOMAIN records[r] : Truthful(records[r][i], unanswered[r])

RegionInv(r) == ListingInv(r) /\ FoundInv(r) /\ EnrichedInv(r) /\ TruthInv(r)

\* The clusters of the inventory are those of the regions whose results the main
\* thread has; once it is written they are all there.
MergedInv ==
  /\ \A r \in merged : scan[r] \in ScanDone
  /\ Elements(clusters) = UNION {Elements(records[r]) : r \in merged}
  /\ main = "written" => AllMerged /\ file = Assembled

\* Until the run has written, what is on disk is an earlier run's.
FileInv ==
  file # NoFile => /\ file.run <= run
                   /\ main = "scanning" => file.run < run

IInv ==
  /\ TypeOK
  /\ \A r \in Regions : RegionInv(r)
  /\ MergedInv
  /\ FileInv
  /\ SuccessIsClean
  /\ CleanInventoryIsComplete
  /\ FailuresAreContained

-----------------------------------------------------------------------------
(* Sequences                                                               *)

\* Appending a list appends its elements.
LEMMA ElementsConcat ==
  ASSUME NEW S, NEW s \in Seq(S), NEW t \in Seq(S)
  PROVE  Elements(s \o t) = Elements(s) \cup Elements(t)
<1>1. /\ s \o t \in Seq(S)
      /\ Len(s \o t) = Len(s) + Len(t)
      /\ \A i \in 1..(Len(s) + Len(t)) :
           (s \o t)[i] = IF i <= Len(s) THEN s[i] ELSE t[i - Len(s)]
  OBVIOUS
<1>2. /\ DOMAIN s = 1..Len(s) /\ DOMAIN t = 1..Len(t)
      /\ DOMAIN (s \o t) = 1..(Len(s) + Len(t))
      /\ Len(s) \in Nat /\ Len(t) \in Nat
  BY <1>1
<1>3. ASSUME NEW x \in Elements(s \o t)
      PROVE  x \in Elements(s) \cup Elements(t)
  <2>1. PICK i \in 1..(Len(s) + Len(t)) : x = (s \o t)[i]
    BY <1>2, <1>3 DEF Elements
  <2>2. CASE i <= Len(s)
    BY <2>1, <2>2, <1>1, <1>2 DEF Elements
  <2>3. CASE i > Len(s)
    <3>1. i - Len(s) \in 1..Len(t) /\ x = t[i - Len(s)]
      BY <2>1, <2>3, <1>1, <1>2
    <3> QED BY <3>1, <1>2 DEF Elements
  <2> QED BY <2>1, <2>2, <2>3, <1>2
<1>4. ASSUME NEW x \in Elements(s)
      PROVE  x \in Elements(s \o t)
  <2>1. PICK i \in 1..Len(s) : x = s[i]
    BY <1>2, <1>4 DEF Elements
  <2>2. i \in 1..(Len(s) + Len(t)) /\ x = (s \o t)[i]
    BY <2>1, <1>1, <1>2
  <2> QED BY <2>2, <1>2 DEF Elements
<1>5. ASSUME NEW x \in Elements(t)
      PROVE  x \in Elements(s \o t)
  <2>1. PICK i \in 1..Len(t) : x = t[i]
    BY <1>2, <1>5 DEF Elements
  <2>2. i + Len(s) \in 1..(Len(s) + Len(t)) /\ x = (s \o t)[i + Len(s)]
    BY <2>1, <1>1, <1>2
  <2> QED BY <2>2, <1>2 DEF Elements
<1> QED BY <1>3, <1>4, <1>5

\* What one answer adds to a listing: the names of its part, without those the
\* region does not have.
LEMMA AnswerIsPartOfListing ==
  ASSUME TypeOK, NEW r \in Regions, NEW k \in Kinds, NEW m \in Nat,
         read[r] < Len(Listing[r][k]), m \in Answered(r, k)
  PROVE  /\ read[r] < m /\ m <= Len(Listing[r][k])
         /\ Answer(r, k, m) \in Seq(Resources)
         /\ Elements(Answer(r, k, m)) =
              {Listing[r][k][i] : i \in (read[r] + 1)..m} \ {Missing}
<1> DEFINE l == Listing[r][k]
           a == read[r]
           t == SubSeq(l, a + 1, m)
<1>1. l \in Seq(Resources \cup {Missing}) /\ a \in Nat
  BY AccountAssumption DEF TypeOK
<1>2. Len(l) \in Nat /\ DOMAIN l = 1..Len(l) /\ \A i \in 1..Len(l) : l[i] \in Resources \cup {Missing}
  BY <1>1
<1>3. a < m /\ m <= Len(l)
  BY <1>1, <1>2 DEF Answered
<1> HIDE DEF l, a
<1>4. /\ t \in Seq(Resources \cup {Missing})
      /\ Len(t) = m - a
      /\ \A i \in 1..(m - a) : t[i] = l[a + i]
  BY <1>1, <1>2, <1>3
<1>5. DOMAIN t = 1..(m - a)
  BY <1>4
<1>6. Elements(t) = {l[i] : i \in (a + 1)..m}
  <2>1. ASSUME NEW i \in 1..(m - a)
        PROVE  t[i] \in {l[j] : j \in (a + 1)..m}
    BY <1>1, <1>3, <1>4, a + i \in (a + 1)..m
  <2>2. ASSUME NEW j \in (a + 1)..m
        PROVE  l[j] \in {t[i] : i \in 1..(m - a)}
    <3>1. j - a \in 1..(m - a) /\ a + (j - a) = j
      BY <1>1, <1>3
    <3> QED BY <3>1, <1>4
  <2> QED BY <2>1, <2>2, <1>5 DEF Elements
<1>7. CASE l[m] = Missing
  <2>1. k \in ByName
    BY <1>3, <1>2, <1>1, <1>7, AccountAssumption DEF l
  <2>2. m = a + 1
    BY <2>1 DEF Answered, a
  <2>3. Answer(r, k, m) = <<>>
    BY <1>7 DEF Answer, l
  <2>4. {l[i] : i \in (a + 1)..m} \ {Missing} = {}
    BY <2>2, <1>7, <1>1
  <2>5. Elements(Answer(r, k, m)) = {}
    BY <2>3 DEF Elements
  <2>6. Answer(r, k, m) \in Seq(Resources)
    BY <2>3
  <2> QED BY <2>4, <2>5, <2>6, <1>3 DEF l, a
<1>8. CASE l[m] # Missing
  <2>1. \A i \in (a + 1)..m : l[i] # Missing
    <3>1. CASE k \in ByName
      <4>1. m = a + 1
        BY <3>1 DEF Answered, a
      <4> QED BY <4>1, <1>8, <1>1
    <3>2. CASE k \notin ByName
      <4>1. \A i \in DOMAIN l : l[i] # Missing
        BY <3>2, AccountAssumption DEF l
      <4> QED BY <4>1, <1>1, <1>2, <1>3
    <3> QED BY <3>1, <3>2
  <2>2. Answer(r, k, m) = t
    BY <1>8 DEF Answer, l, a
  <2>3. \A i \in 1..Len(t) : t[i] \in Resources
    <3>1. ASSUME NEW i \in 1..(m - a)
          PROVE  t[i] \in Resources
      <4>1. a + i \in (a + 1)..m /\ a + i \in 1..Len(l)
        BY <1>1, <1>2, <1>3
      <4> QED BY <4>1, <2>1, <1>2, <1>4
    <3> QED BY <3>1, <1>4
  <2>4. t \in Seq(Resources)
    <3> HIDE DEF t
    <3>1. Len(t) \in Nat /\ t \in [1..Len(t) -> Resources \cup {Missing}]
      BY <1>4, LenProperties
    <3>2. t \in [1..Len(t) -> Resources]
      BY <3>1, <2>3
    <3> QED BY <3>1, <3>2, SeqDef
  <2> QED BY <2>1, <2>2, <2>4, <1>3, <1>6 DEF l, a
<1> QED BY <1>7, <1>8

-----------------------------------------------------------------------------
(* Types                                                                   *)

\* What enrichment leaves in the caches and in a record.
LEMMA EnrichmentTypes ==
  ASSUME TypeOK, NEW r \in Regions, NEW n \in Resources,
         NEW failed \in SUBSET Calls, NEW pages \in SUBSET Parts, NEW blank
  PROVE  /\ CachesAfter(r, n, failed, pages, blank) \in [Groups -> {Unread} \cup SUBSET Parts]
         /\ RecordOf(r, n, failed, pages, blank) \in Record
<1>1. ASSUME NEW g \in Groups
      PROVE  Answers(g, failed, pages, blank) \in SUBSET Parts
  <2>1. Content[g] \in SUBSET Parts
    BY AccountAssumption
  <2> QED BY <2>1 DEF Answers
<1>2. \A g \in Groups : cached[r][g] \in {Unread} \cup SUBSET Parts
  BY DEF TypeOK
<1>3. CachesAfter(r, n, failed, pages, blank) \in [Groups -> {Unread} \cup SUBSET Parts]
  BY <1>1, <1>2 DEF CachesAfter, Reading
<1>4. Known(n, failed, blank) \subseteq Groups
  BY AccountAssumption DEF Known
<1>5. ASSUME NEW g \in Known(n, failed, blank)
      PROVE  Reading(r, n, failed, pages, blank)[g] \in SUBSET Parts
  BY <1>1, <1>2, <1>4 DEF Reading, Lookup
<1>6. [g \in Groups |-> IF g \in Known(n, failed, blank)
                       THEN Reading(r, n, failed, pages, blank)[g] ELSE {}]
        \in [Groups -> SUBSET Parts]
  BY <1>5
<1> QED BY <1>3, <1>6 DEF RecordOf, Record

\* Whom an empty answer can be about.
LEMMA BlankTypes ==
  ASSUME NEW r \in Regions, NEW n \in Resources, NEW failed, NEW blank,
         CanBeBlank(r, n, failed, blank)
  PROVE  blank \in SUBSET (Resources \cup Groups)
<1>1. Known(n, failed, blank) \subseteq Groups
  BY AccountAssumption DEF Known
<1> QED BY <1>1 DEF CanBeBlank, Lookup

\* The values at the start of a process have their types.
LEMMA NoScanTypes ==
  ASSUME NoScan
  PROVE  /\ attempt' \in [Regions -> 0..MaxRetries]
         /\ read' \in [Regions -> Nat]
         /\ page' \in [Regions -> Seq(Resources)]
         /\ found' \in [Regions -> Seq(Resources)]
         /\ next' \in [Regions -> Nat]
         /\ cached' \in [Regions -> [Groups -> {Unread} \cup SUBSET Parts]]
         /\ records' \in [Regions -> Seq(Record)]
         /\ scanErrors' \in [Regions -> SUBSET (Kinds \cup Resources)]
         /\ unanswered' \in [Regions -> SUBSET (Resources \cup Groups)]
         /\ merged' \subseteq Regions
         /\ clusters' \in Seq(Record)
BY MaxRetriesAssumption DEF NoScan

\* The actions a step can be.
LEMMA ActionCases ==
  ASSUME [Next]_vars
  PROVE  \/ Start
         \/ \E code \in {1, 2} : StartFails(code)
         \/ Kill
         \/ \E r \in Regions :
              \/ StartScan(r)
              \/ ScanRaises(r)
              \/ Throttled(r)
              \/ \E m \in Nat : NextPage(r, m)
              \/ ListingEnds(r)
              \/ ListingFails(r)
              \/ \E failed \in SUBSET Calls, pages \in SUBSET Parts : \E blank :
                   Enrich(r, failed, pages, blank) \/ EnrichRaises(r, failed, pages, blank)
              \/ ScanReturns(r)
              \/ Merge(r)
         \/ WriteInventory
         \/ WriteFails
         \/ Exit
         \/ UNCHANGED vars
<1>1. \A r \in Regions :
        (1..Len(Listing[r]["groups"]) \cup 1..Len(Listing[r]["caches"])) \subseteq Nat
  OBVIOUS
<1>2. ASSUME NEW r \in Regions, RegionStep(r)
      PROVE  \/ StartScan(r)
             \/ ScanRaises(r)
             \/ Throttled(r)
             \/ \E m \in Nat : NextPage(r, m)
             \/ ListingEnds(r)
             \/ ListingFails(r)
             \/ \E failed \in SUBSET Calls, pages \in SUBSET Parts : \E blank :
                  Enrich(r, failed, pages, blank) \/ EnrichRaises(r, failed, pages, blank)
             \/ ScanReturns(r)
  BY <1>1, <1>2, Zenon DEF RegionStep
<1> QED BY <1>2, Zenon DEF Next, ProgramStep

\* Every step keeps the types.
LEMMA TypeStep ==
  ASSUME TypeOK, [Next]_vars
  PROVE  TypeOK'
<1> USE DEF TypeOK, Scanning, ScanDone, Kinds
<1>1. CASE Start
  BY <1>1, NoScanTypes DEF Start
<1>2. ASSUME NEW code \in {1, 2}, StartFails(code)
      PROVE  TypeOK'
  BY <1>2, NoScanTypes DEF StartFails
<1>3. CASE Kill
  BY <1>3, NoScanTypes DEF Kill
<1>4. ASSUME NEW r \in Regions, StartScan(r)
      PROVE  TypeOK'
  BY <1>4 DEF StartScan, Region
<1>5. ASSUME NEW r \in Regions, ScanRaises(r)
      PROVE  TypeOK'
  BY <1>5 DEF ScanRaises, Region
<1>6. ASSUME NEW r \in Regions, Throttled(r)
      PROVE  TypeOK'
  BY <1>6, MaxRetriesAssumption DEF Throttled, Region
<1>7. ASSUME NEW r \in Regions, NEW m \in Nat, NextPage(r, m)
      PROVE  TypeOK'
  <2>1. scan[r] \in Kinds
    BY <1>7 DEF NextPage
  <2>2. Answer(r, scan[r], m) \in Seq(Resources)
    BY <2>1, <1>7, AnswerIsPartOfListing DEF NextPage
  <2>3. page[r] \o Answer(r, scan[r], m) \in Seq(Resources)
    BY <2>2
  <2>4. page' \in [Regions -> Seq(Resources)]
    BY <2>3, <1>7 DEF NextPage
  <2> QED BY <1>7, <2>4, MaxRetriesAssumption DEF NextPage, Region
<1>8. ASSUME NEW r \in Regions, ListingEnds(r)
      PROVE  TypeOK'
  <2>1. found[r] \o page[r] \in Seq(Resources)
    OBVIOUS
  <2> QED BY <1>8, <2>1, MaxRetriesAssumption DEF ListingEnds, Region, NextPhase
<1>9. ASSUME NEW r \in Regions, ListingFails(r)
      PROVE  TypeOK'
  <2>1. scan[r] \in Kinds
    BY <1>9 DEF ListingFails, Calling
  <2> QED BY <1>9, <2>1, MaxRetriesAssumption DEF ListingFails, Region, NextPhase
<1>10. ASSUME NEW r \in Regions, NEW failed \in SUBSET Calls, NEW pages \in SUBSET Parts, NEW blank,
              Enrich(r, failed, pages, blank) \/ EnrichRaises(r, failed, pages, blank)
       PROVE  TypeOK'
  <2> DEFINE n == found[r][next[r] + 1]
  <2>1. next[r] + 1 \in 1..Len(found[r])
    BY <1>10 DEF Enrich, EnrichRaises, Enriching
  <2>2. n \in Resources
    BY <2>1, ElementOfSeq
  <2>3. /\ CachesAfter(r, n, failed, pages, blank) \in [Groups -> {Unread} \cup SUBSET Parts]
        /\ RecordOf(r, n, failed, pages, blank) \in Record
    BY <2>2, EnrichmentTypes
  <2>7. blank \in SUBSET (Resources \cup Groups)
    <3>1. CanBeBlank(r, n, failed, blank)
      BY <1>10 DEF Enrich, EnrichRaises, Enriching
    <3> QED BY <2>2, <3>1, BlankTypes
  <2> HIDE DEF n
  <2>4. Append(records[r], RecordOf(r, n, failed, pages, blank)) \in Seq(Record)
    BY <2>3
  <2>5. CASE Enrich(r, failed, pages, blank)
    BY <2>3, <2>4, <2>5, <2>7 DEF Enrich, Enriching, Region, n
  <2>6. CASE EnrichRaises(r, failed, pages, blank)
    BY <2>2, <2>3, <2>6, <2>7 DEF EnrichRaises, Enriching, Region, n
  <2> QED BY <2>5, <2>6, <1>10
<1>11. ASSUME NEW r \in Regions, ScanReturns(r)
       PROVE  TypeOK'
  BY <1>11 DEF ScanReturns, Region
<1>12. ASSUME NEW r \in Regions, Merge(r)
       PROVE  TypeOK'
  <2>1. clusters \o records[r] \in Seq(Record)
    OBVIOUS
  <2> QED BY <1>12, <2>1 DEF Merge, region
<1>13. CASE WriteInventory
  <2>2. AllErrors \in SUBSET (Regions \X (Kinds \cup Resources \cup {"scan"}))
    BY DEF AllErrors, ErrorsOf
  <2>3. Assembled \in Inventory
    BY <2>2 DEF Assembled, Inventory
  <2> QED BY <1>13, <2>3 DEF WriteInventory, region
<1>14. CASE WriteFails
  BY <1>14 DEF WriteFails, region
<1>15. CASE Exit
  <2>1. ExitCode(Assembled) \in {0, 1, 2}
    BY DEF ExitCode
  <2> QED BY <1>15, <2>1 DEF Exit, region
<1>16. CASE UNCHANGED vars
  BY <1>16 DEF vars, region
<1> QED
  BY <1>1, <1>2, <1>3, <1>4, <1>5, <1>6, <1>7, <1>8, <1>9, <1>10, <1>11, <1>12, <1>13,
     <1>14, <1>15, <1>16, ActionCases, Zenon

-----------------------------------------------------------------------------
(* One region                                                              *)

\* The variables of a region keep their values.
Same(r) ==
  /\ scan'[r] = scan[r] /\ read'[r] = read[r] /\ page'[r] = page[r]
  /\ found'[r] = found[r] /\ next'[r] = next[r] /\ cached'[r] = cached[r]
  /\ records'[r] = records[r] /\ scanErrors'[r] = scanErrors[r]
  /\ unanswered'[r] = unanswered[r]

\* What a step of a listing leaves alone.
SameFound(r) ==
  /\ scan'[r] = scan[r]
  /\ found'[r] = found[r] /\ next'[r] = next[r] /\ cached'[r] = cached[r]
  /\ records'[r] = records[r] /\ scanErrors'[r] = scanErrors[r]
  /\ unanswered'[r] = unanswered[r]

\* Such a step keeps what holds of what was found before.
LEMMA SameFoundInv ==
  ASSUME NEW r \in Regions, RegionInv(r), SameFound(r)
  PROVE  FoundInv(r)' /\ EnrichedInv(r)' /\ TruthInv(r)'
<1>1. FoundInv(r)'
  <2>1. Passed(r)' = Passed(r) /\ Elements(found[r])' = Elements(found[r])
    BY DEF SameFound, Passed, Elements
  <2>2. UNION {Wanted(r, k) : k \in Passed(r) \ scanErrors[r]}
          = UNION {Wanted(r, k) : k \in Passed(r)' \ scanErrors'[r]}
    BY <2>1 DEF SameFound
  <2>3. scanErrors'[r] \cap Kinds \subseteq Passed(r)'
    BY <2>1 DEF RegionInv, FoundInv, SameFound
  <2> QED BY <2>1, <2>2, <2>3 DEF RegionInv, FoundInv, Wanted, Elements
<1>2. EnrichedInv(r)'
  BY DEF RegionInv, EnrichedInv, SameFound
<1>3. TruthInv(r)'
  <2>1. Dirty(r)' <=> Dirty(r)
    BY DEF Dirty, SameFound
  <2> QED BY <2>1 DEF RegionInv, TruthInv, TruthIn, SameFound, Truthful
<1> QED BY <1>1, <1>2, <1>3

\* A step that leaves a region alone keeps what holds of it.
LEMMA SameInv ==
  ASSUME NEW r \in Regions, RegionInv(r), Same(r)
  PROVE  RegionInv(r)'
<1>1. Fresh(r)' <=> Fresh(r)
  BY DEF Same, Fresh
<1>2. ListingInv(r)'
  <2>1. Elements(page[r])' = Elements(page[r])
    BY DEF Same, Elements
  <2> QED BY <1>1, <2>1 DEF RegionInv, ListingInv, Same
<1>3. SameFound(r)
  BY DEF Same, SameFound
<1> QED BY <1>2, <1>3, SameFoundInv DEF RegionInv

\* A region of which nothing has been scanned yet, or of which nothing is left.
LEMMA NothingScanned ==
  ASSUME NEW r \in Regions, scan[r] \in {"none", "queued"}, Fresh(r),
         found[r] = <<>>, scanErrors[r] = {}, read[r] = 0, page[r] = <<>>
  PROVE  RegionInv(r)
<1>1. ListingInv(r)
  BY DEF ListingInv, Kinds
<1>2. FoundInv(r)
  BY DEF FoundInv, Passed, Elements
<1>3. EnrichedInv(r)
  BY DEF EnrichedInv, Fresh
<1>4. TruthInv(r)
  BY DEF TruthInv, TruthIn, Fresh
<1> QED BY <1>1, <1>2, <1>3, <1>4 DEF RegionInv

\* Another process starts without what the one before it knew.
LEMMA NoScanInv ==
  ASSUME NEW r \in Regions, NoScan, scan'[r] \in {"none", "queued"}
  PROVE  RegionInv(r)'
<1>1. Fresh(r)' /\ found'[r] = <<>> /\ scanErrors'[r] = {} /\ read'[r] = 0 /\ page'[r] = <<>>
  BY DEF NoScan, Fresh
<1>2. ListingInv(r)'
  BY <1>1 DEF ListingInv, Kinds
<1>3. FoundInv(r)'
  BY <1>1 DEF FoundInv, Passed, Elements
<1>4. EnrichedInv(r)'
  BY <1>1 DEF EnrichedInv, Fresh
<1>5. TruthInv(r)'
  BY <1>1 DEF TruthInv, TruthIn, Fresh
<1> QED BY <1>2, <1>3, <1>4, <1>5 DEF RegionInv

\* A region's scan starts, or cannot.
LEMMA StartInv ==
  ASSUME TypeOK, NEW r \in Regions, RegionInv(r), StartScan(r) \/ ScanRaises(r)
  PROVE  RegionInv(r)'
<1>1. /\ scan[r] = "queued" /\ scan'[r] \in {"groups", "raised"}
      /\ UNCHANGED <<read, page, found, next, cached, records, scanErrors, unanswered>>
  BY DEF StartScan, ScanRaises, TypeOK
<1>2. Fresh(r) /\ found[r] = <<>> /\ scanErrors[r] = {} /\ read[r] = 0 /\ page[r] = <<>>
  BY <1>1 DEF RegionInv, ListingInv
<1>3. ListingInv(r)'
  <2>1. Fresh(r)'
    BY <1>1, <1>2 DEF Fresh
  <2>2. Len(Listing[r]["groups"]) \in Nat
    BY AccountAssumption DEF Kinds
  <2> QED BY <1>1, <1>2, <2>1, <2>2 DEF ListingInv, Kinds, Elements
<1>4. FoundInv(r)'
  BY <1>1, <1>2 DEF FoundInv, Passed, Elements
<1>5. EnrichedInv(r)'
  BY <1>1, <1>2 DEF EnrichedInv, Fresh
<1>6. TruthInv(r)'
  BY <1>1, <1>2 DEF TruthInv, TruthIn, Fresh
<1> QED BY <1>3, <1>4, <1>5, <1>6 DEF RegionInv

\* An answer adds to the page what it is about.
LEMMA NextPageInv ==
  ASSUME TypeOK, NEW r \in Regions, RegionInv(r), NEW m \in Nat, NextPage(r, m)
  PROVE  RegionInv(r)'
<1> DEFINE k == scan[r]
<1>1. /\ k \in Kinds /\ read[r] < Len(Listing[r][k]) /\ m \in Answered(r, k)
      /\ read'[r] = m /\ page'[r] = page[r] \o Answer(r, k, m)
      /\ UNCHANGED <<scan, found, next, cached, records, scanErrors, unanswered>>
  BY DEF NextPage, TypeOK
<1>2. /\ read[r] < m /\ m <= Len(Listing[r][k])
      /\ Answer(r, k, m) \in Seq(Resources)
      /\ Elements(Answer(r, k, m)) = {Listing[r][k][i] : i \in (read[r] + 1)..m} \ {Missing}
  BY <1>1, AnswerIsPartOfListing
<1>3. Elements(page'[r]) = Elements(page[r]) \cup Elements(Answer(r, k, m))
  BY <1>1, <1>2, ElementsConcat DEF TypeOK
<1>4. Elements(page[r]) = {Listing[r][k][i] : i \in 1..read[r]} \ {Missing}
  BY <1>1 DEF RegionInv, ListingInv
<1>5. 1..m = (1..read[r]) \cup ((read[r] + 1)..m)
  BY <1>2 DEF TypeOK
<1>6. Elements(page'[r]) = {Listing[r][k][i] : i \in 1..m} \ {Missing}
  BY <1>2, <1>3, <1>4, <1>5
<1>7. ListingInv(r)'
  <2>1. Fresh(r) /\ Fresh(r)'
    BY <1>1 DEF RegionInv, ListingInv, Fresh
  <2>2. Elements(page[r])' = {Listing[r][k][i] : i \in 1..m} \ {Missing}
    BY <1>6 DEF Elements
  <2> QED BY <1>1, <1>2, <2>1, <2>2 DEF ListingInv, Kinds
<1>8. FoundInv(r)' /\ EnrichedInv(r)' /\ TruthInv(r)'
  BY <1>1, SameFoundInv DEF SameFound
<1> QED BY <1>7, <1>8 DEF RegionInv

\* A listing ends with all there is, or without anything and with an error.
LEMMA ListingInvStep ==
  ASSUME TypeOK, NEW r \in Regions, RegionInv(r), ListingEnds(r) \/ ListingFails(r)
  PROVE  RegionInv(r)'
<1> DEFINE k == scan[r]
           l == Listing[r][k]
<1>1. k \in Kinds
  BY DEF ListingEnds, ListingFails, Calling
<1>2. /\ scan'[r] = IF k = "groups" THEN "caches" ELSE "enriching"
      /\ read'[r] = 0 /\ page'[r] = <<>>
      /\ UNCHANGED <<next, cached, records>>
  BY DEF ListingEnds, ListingFails, NextPhase, TypeOK
<1>3. Fresh(r) /\ Fresh(r)'
  BY <1>1, <1>2 DEF RegionInv, ListingInv, Fresh
<1>4. /\ Passed(r)' = Passed(r) \cup {k}
      /\ k \notin Passed(r)
  BY <1>1, <1>2 DEF Passed, Kinds
<1>5. k \notin scanErrors[r]
  BY <1>1, <1>4 DEF RegionInv, FoundInv
<1>6. ListingInv(r)'
  <2>1. Len(Listing[r]["caches"]) \in Nat
    BY AccountAssumption DEF Kinds
  <2>2. Elements(page[r])' = {}
    BY <1>2 DEF Elements
  <2> QED BY <1>1, <1>2, <1>3, <2>1, <2>2 DEF ListingInv, Kinds
<1>7. FoundInv(r)' /\ (scanErrors'[r] \cap Resources = {})
  <2>0. scanErrors[r] \cap Resources = {}
    <3>1. {found[r][i] : i \in 1..next[r]} = {}
      BY <1>3 DEF Fresh
    <3> QED BY <3>1 DEF RegionInv, EnrichedInv
  <2>1. CASE ListingEnds(r)
    <3>1. /\ read[r] = Len(l) /\ found'[r] = found[r] \o page[r]
          /\ UNCHANGED scanErrors
      BY <2>1 DEF ListingEnds, TypeOK
    <3>2. Elements(found'[r]) = Elements(found[r]) \cup Elements(page[r])
      BY <3>1, ElementsConcat DEF TypeOK
    <3>3. DOMAIN l = 1..Len(l)
      BY <1>1, AccountAssumption
    <3>4. Elements(page[r]) = Wanted(r, k)
      BY <1>1, <3>1, <3>3 DEF RegionInv, ListingInv, Wanted, Elements
    <3>5. Passed(r)' \ scanErrors'[r] = (Passed(r) \ scanErrors[r]) \cup {k}
      BY <1>4, <1>5, <3>1
    <3>6. Elements(found[r])' = UNION {Wanted(r, j) : j \in Passed(r)' \ scanErrors'[r]}
      <4>1. Elements(found[r])' = Elements(found'[r])
        BY DEF Elements
      <4> QED BY <4>1, <3>2, <3>4, <3>5 DEF RegionInv, FoundInv
    <3> QED BY <1>4, <2>0, <3>1, <3>6 DEF FoundInv, RegionInv, Wanted, Elements
  <2>2. CASE ListingFails(r)
    <3>1. /\ UNCHANGED found
          /\ scanErrors'[r] = scanErrors[r] \cup {k}
      BY <2>2 DEF ListingFails, TypeOK
    <3>2. Passed(r)' \ scanErrors'[r] = Passed(r) \ scanErrors[r]
      BY <1>4, <3>1
    <3>3. k \notin Resources
      BY <1>1, KindsAssumption
    <3>4. Elements(found[r])' = UNION {Wanted(r, j) : j \in Passed(r)' \ scanErrors'[r]}
      BY <3>1, <3>2 DEF RegionInv, FoundInv, Elements
    <3>5. scanErrors'[r] \cap Kinds \subseteq Passed(r)'
      BY <1>4, <3>1 DEF RegionInv, FoundInv
    <3> QED BY <2>0, <3>1, <3>3, <3>4, <3>5 DEF FoundInv, Wanted, Elements
  <2> QED BY <2>1, <2>2
<1>8. EnrichedInv(r)'
  <2>1. found'[r] \in Seq(Resources)
    <3>1. found[r] \o page[r] \in Seq(Resources)
      BY DEF TypeOK
    <3> QED BY <3>1 DEF ListingEnds, ListingFails, TypeOK
  <2>2. Len(found'[r]) \in Nat
    BY <2>1
  <2>3. next'[r] = 0 /\ records'[r] = <<>>
    BY <1>3 DEF Fresh
  <2>4. {found'[r][i] : i \in 1..next'[r]} = {}
    BY <2>3
  <2>5. {records'[r][i].resource : i \in DOMAIN records'[r]} = {}
    BY <2>3
  <2>6. scan'[r] # "returned"
    BY <1>2
  <2> QED BY <1>7, <2>2, <2>3, <2>4, <2>5, <2>6 DEF EnrichedInv
<1>9. TruthInv(r)'
  BY <1>3 DEF TruthInv, TruthIn, Fresh
<1> QED BY <1>6, <1>7, <1>8, <1>9 DEF RegionInv

\* Lookups that succeed read what is there, or nothing where the answer was empty,
\* and so do caches with such answers.
LEMMA CleanLookup ==
  ASSUME TypeOK, NEW r \in Regions, NEW n \in Resources, NEW pages \in SUBSET Parts, NEW blank,
         CanBeBlank(r, n, {}, blank), TruthIn(cached[r], unanswered[r])
  PROVE  /\ TruthIn(CachesAfter(r, n, {}, pages, blank), unanswered[r] \cup blank)
         /\ Truthful(RecordOf(r, n, {}, pages, blank), unanswered[r] \cup blank)
<1> DEFINE empty == unanswered[r] \cup blank
<1>1. \A g \in Groups : Answers(g, {}, pages, blank) = IF g \in blank THEN {} ELSE Content[g]
  BY DEF Answers
<1>2. ASSUME NEW g \in Groups
      PROVE  \/ Reading(r, n, {}, pages, blank)[g] \in {Unread, Content[g]}
             \/ Reading(r, n, {}, pages, blank)[g] = {} /\ g \in empty
  BY <1>1 DEF Reading, TruthIn
<1>3. TruthIn(CachesAfter(r, n, {}, pages, blank), empty)
  BY <1>2 DEF CachesAfter, TruthIn
<1>4. Uses[n] \subseteq Groups /\ Known(n, {}, blank) = IF n \in blank THEN {} ELSE Uses[n]
  BY AccountAssumption DEF Known
<1>5. ASSUME NEW g \in Known(n, {}, blank)
      PROVE  Reading(r, n, {}, pages, blank)[g] # Unread
  <2>1. g \in Groups /\ Content[g] # Unread /\ {} # Unread
    BY <1>4, AccountAssumption
  <2> QED BY <1>1, <2>1 DEF Reading, Lookup
<1> DEFINE rec == RecordOf(r, n, {}, pages, blank)
<1>6. /\ rec.resource = n /\ rec.errors = {}
      /\ \A g \in Groups : rec.content[g] = IF g \in Known(n, {}, blank)
                                            THEN Reading(r, n, {}, pages, blank)[g] ELSE {}
  BY DEF RecordOf
<1> HIDE DEF rec
<1>7. ASSUME NEW g \in Groups
      PROVE  IF g \notin Uses[rec.resource] THEN rec.content[g] = {}
             ELSE \/ rec.content[g] = Content[g]
                  \/ rec.content[g] = {} /\ {rec.resource, g} \cap empty # {}
  <2>1. CASE g \notin Uses[n]
    BY <2>1, <1>4, <1>6
  <2>2. CASE n \in blank
    BY <2>2, <1>4, <1>6
  <2>3. CASE g \in Uses[n] /\ n \notin blank
    BY <2>3, <1>2, <1>4, <1>5, <1>6
  <2> QED BY <2>1, <2>2, <2>3
<1> QED BY <1>3, <1>6, <1>7 DEF Truthful, rec

\* More empty answers excuse no less.
LEMMA TruthfulMonotone ==
  ASSUME NEW rec, NEW A, NEW B, A \subseteq B, Truthful(rec, A)
  PROVE  Truthful(rec, B)
BY DEF Truthful

\* Enriching one more resource gives it a record or an error, and a failed call
\* leaves an error behind.
LEMMA EnrichInv ==
  ASSUME TypeOK, NEW r \in Regions, RegionInv(r),
         NEW failed \in SUBSET Calls, NEW pages \in SUBSET Parts, NEW blank,
         Enrich(r, failed, pages, blank) \/ EnrichRaises(r, failed, pages, blank)
  PROVE  RegionInv(r)'
<1> DEFINE n == found[r][next[r] + 1]
           rec == RecordOf(r, n, failed, pages, blank)
<1>1. /\ scan[r] = "enriching" /\ next[r] < Len(found[r])
      /\ next'[r] = next[r] + 1
      /\ cached'[r] = CachesAfter(r, n, failed, pages, blank)
      /\ unanswered'[r] = unanswered[r] \cup blank /\ CanBeBlank(r, n, failed, blank)
      /\ UNCHANGED <<scan, read, page, found>>
  BY DEF Enrich, EnrichRaises, Enriching, TypeOK
<1>2. /\ found[r] \in Seq(Resources) /\ next[r] \in Nat /\ Len(found[r]) \in Nat
      /\ records[r] \in Seq(Record) /\ Len(records[r]) \in Nat
      /\ DOMAIN records[r] = 1..Len(records[r])
  BY DEF TypeOK
<1>3. n \in Resources
  <2>1. next[r] + 1 \in 1..Len(found[r])
    BY <1>1, <1>2
  <2> QED BY <2>1, <1>2, ElementOfSeq
<1>4. rec \in Record /\ rec.resource = n /\ rec.errors = failed
  <2>1. rec \in Record
    BY <1>3, EnrichmentTypes
  <2> QED BY <2>1 DEF RecordOf
<1>5. {found[r][i] : i \in 1..(next[r] + 1)} = {found[r][i] : i \in 1..next[r]} \cup {n}
  <2>1. 1..(next[r] + 1) = (1..next[r]) \cup {next[r] + 1}
    BY <1>2
  <2> QED BY <2>1
<1> HIDE DEF n, rec
<1>6. ListingInv(r)'
  BY <1>1 DEF ListingInv, Kinds
<1>7. CASE Enrich(r, failed, pages, blank)
  <2>1. records'[r] = Append(records[r], rec) /\ UNCHANGED scanErrors
    BY <1>7 DEF Enrich, TypeOK, n, rec
  <2>2. /\ DOMAIN records'[r] = 1..(Len(records[r]) + 1)
        /\ \A i \in 1..Len(records[r]) : records'[r][i] = records[r][i]
        /\ records'[r][Len(records[r]) + 1] = rec
    BY <2>1, <1>2, <1>4
  <2>3. FoundInv(r)'
    <3>1. Passed(r)' = Passed(r) /\ Elements(found[r])' = Elements(found[r])
      BY <1>1 DEF Passed, Elements
    <3> QED BY <3>1, <2>1 DEF RegionInv, FoundInv, Wanted, Elements
  <2>4. EnrichedInv(r)'
    <3>1. 1..(Len(records[r]) + 1) = (1..Len(records[r])) \cup {Len(records[r]) + 1}
      BY <1>2
    <3>2. {records'[r][i].resource : i \in DOMAIN records'[r]}
            = {records[r][i].resource : i \in DOMAIN records[r]} \cup {n}
      BY <2>2, <3>1, <1>2, <1>4
    <3>3. {found[r][i] : i \in 1..next[r]} =
            {records[r][i].resource : i \in DOMAIN records[r]} \cup (scanErrors[r] \cap Resources)
      BY DEF RegionInv, EnrichedInv
    <3>4. {found'[r][i] : i \in 1..next'[r]} = {found[r][i] : i \in 1..(next[r] + 1)}
      BY <1>1
    <3>5. next'[r] <= Len(found'[r]) /\ scan'[r] # "returned"
      BY <1>1, <1>2
    <3> QED BY <2>1, <3>2, <3>3, <3>4, <3>5, <1>5 DEF EnrichedInv
  <2>5. TruthInv(r)'
    <3>1. SUFFICES ASSUME ~Dirty(r)'
                   PROVE  /\ TruthIn(cached'[r], unanswered'[r])
                          /\ \A i \in DOMAIN records'[r] : Truthful(records'[r][i], unanswered'[r])
      BY DEF TruthInv, TruthIn, Truthful
    <3>2. \A i \in 1..(Len(records[r]) + 1) : records'[r][i].errors = {}
      BY <3>1, <2>2 DEF Dirty
    <3>3. failed = {}
      BY <3>2, <2>2, <1>2, <1>4
    <3>4. ~Dirty(r)
      <4>1. \A i \in 1..Len(records[r]) : records[r][i].errors = {}
        BY <3>2, <2>2, <1>2
      <4>2. scanErrors[r] = {}
        BY <3>1, <2>1 DEF Dirty
      <4> QED BY <4>1, <4>2, <1>2 DEF Dirty
    <3>5. /\ TruthIn(cached[r], unanswered[r])
          /\ \A i \in DOMAIN records[r] : Truthful(records[r][i], unanswered[r])
      BY <3>4 DEF RegionInv, TruthInv
    <3>6. /\ TruthIn(CachesAfter(r, n, failed, pages, blank), unanswered[r] \cup blank)
          /\ Truthful(rec, unanswered[r] \cup blank)
      BY <3>3, <3>5, <1>1, <1>3, CleanLookup DEF rec
    <3>7. ASSUME NEW i \in DOMAIN records'[r]
          PROVE  Truthful(records'[r][i], unanswered[r] \cup blank)
      <4>1. CASE i \in 1..Len(records[r])
        BY <4>1, <2>2, <3>5, <1>2, TruthfulMonotone
      <4>2. CASE i = Len(records[r]) + 1
        BY <4>2, <2>2, <3>6, <1>4
      <4> QED BY <4>1, <4>2, <2>2, <1>2
    <3> QED BY <3>6, <3>7, <1>1
  <2> QED BY <1>6, <2>3, <2>4, <2>5 DEF RegionInv
<1>8. CASE EnrichRaises(r, failed, pages, blank)
  <2>1. scanErrors'[r] = scanErrors[r] \cup {n} /\ UNCHANGED records
    BY <1>8 DEF EnrichRaises, TypeOK, n
  <2>2. n \notin Kinds
    BY <1>3, KindsAssumption
  <2>3. FoundInv(r)'
    <3>1. Passed(r)' = Passed(r) /\ Elements(found[r])' = Elements(found[r])
      BY <1>1 DEF Passed, Elements
    <3>2. Passed(r) \subseteq Kinds
      BY DEF Passed, Kinds
    <3>3. Passed(r)' \ scanErrors'[r] = Passed(r) \ scanErrors[r]
      BY <2>1, <2>2, <3>1, <3>2
    <3>4. scanErrors'[r] \cap Kinds \subseteq Passed(r)'
      BY <2>1, <2>2, <3>1 DEF RegionInv, FoundInv
    <3>5. Elements(found[r])' = UNION {Wanted(r, k) : k \in Passed(r)' \ scanErrors'[r]}
      BY <3>1, <3>3 DEF RegionInv, FoundInv
    <3> QED BY <3>4, <3>5 DEF FoundInv, Wanted, Elements
  <2>4. EnrichedInv(r)'
    <3>1. {found[r][i] : i \in 1..next[r]} =
            {records[r][i].resource : i \in DOMAIN records[r]} \cup (scanErrors[r] \cap Resources)
      BY DEF RegionInv, EnrichedInv
    <3>2. {found'[r][i] : i \in 1..next'[r]} = {found[r][i] : i \in 1..(next[r] + 1)}
      BY <1>1
    <3>3. next'[r] <= Len(found'[r]) /\ scan'[r] # "returned"
      BY <1>1, <1>2
    <3> QED BY <2>1, <3>1, <3>2, <3>3, <1>3, <1>5 DEF EnrichedInv
  <2>5. TruthInv(r)'
    BY <2>1 DEF TruthInv, Dirty
  <2> QED BY <1>6, <2>3, <2>4, <2>5 DEF RegionInv
<1> QED BY <1>7, <1>8

\* A scan returns when every resource has been tried.
LEMMA ReturnInv ==
  ASSUME TypeOK, NEW r \in Regions, RegionInv(r), ScanReturns(r)
  PROVE  RegionInv(r)'
<1>1. /\ scan[r] = "enriching" /\ scan'[r] = "returned" /\ next[r] = Len(found[r])
      /\ UNCHANGED <<read, page, found, next, cached, records, scanErrors, unanswered>>
  BY DEF ScanReturns, TypeOK
<1>2. ListingInv(r)'
  BY <1>1 DEF ListingInv, Kinds
<1>3. FoundInv(r)'
  <2>1. Passed(r)' = Passed(r) /\ Elements(found[r])' = Elements(found[r])
    BY <1>1 DEF Passed, Elements
  <2> QED BY <2>1, <1>1 DEF RegionInv, FoundInv, Wanted, Elements
<1>4. EnrichedInv(r)'
  BY <1>1 DEF RegionInv, EnrichedInv
<1>5. TruthInv(r)'
  <2>1. Dirty(r)' <=> Dirty(r)
    BY <1>1 DEF Dirty
  <2> QED BY <2>1, <1>1 DEF RegionInv, TruthInv, TruthIn, Truthful
<1> QED BY <1>2, <1>3, <1>4, <1>5 DEF RegionInv

\* A step within one region leaves the others alone.
LEMMA OthersSame ==
  ASSUME TypeOK, NEW r \in Regions, NEW q \in Regions \ {r},
         \/ StartScan(r) \/ ScanRaises(r) \/ Throttled(r)
         \/ \E m \in Nat : NextPage(r, m)
         \/ ListingEnds(r) \/ ListingFails(r)
         \/ \E failed \in SUBSET Calls, pages \in SUBSET Parts : \E blank :
              Enrich(r, failed, pages, blank) \/ EnrichRaises(r, failed, pages, blank)
         \/ ScanReturns(r)
  PROVE  Same(q)
<1> USE DEF Same, TypeOK
<1>1. CASE StartScan(r) \/ ScanRaises(r) \/ Throttled(r) \/ ScanReturns(r)
  BY <1>1 DEF StartScan, ScanRaises, Throttled, ScanReturns
<1>2. CASE \E m \in Nat : NextPage(r, m)
  BY <1>2 DEF NextPage
<1>3. CASE ListingEnds(r) \/ ListingFails(r)
  BY <1>3 DEF ListingEnds, ListingFails, NextPhase
<1>4. CASE \E failed \in SUBSET Calls, pages \in SUBSET Parts : \E blank :
              Enrich(r, failed, pages, blank) \/ EnrichRaises(r, failed, pages, blank)
  BY <1>4 DEF Enrich, EnrichRaises, Enriching
<1> QED BY <1>1, <1>2, <1>3, <1>4

\* Every step keeps what holds of each region.
LEMMA RegionInvStep ==
  ASSUME TypeOK, \A r \in Regions : RegionInv(r), [Next]_vars, NEW q \in Regions
  PROVE  RegionInv(q)'
<1>1. ASSUME Start \/ (\E code \in {1, 2} : StartFails(code)) \/ Kill
      PROVE  RegionInv(q)'
  <2>1. NoScan /\ scan'[q] \in {"none", "queued"}
    BY <1>1 DEF Start, StartFails, Kill
  <2> QED BY <2>1, NoScanInv
<1>2. ASSUME UNCHANGED region
      PROVE  RegionInv(q)'
  BY <1>2, SameInv DEF Same, region
<1>3. ASSUME NEW r \in Regions, StartScan(r) \/ ScanRaises(r)
      PROVE  RegionInv(q)'
  BY <1>3, StartInv, OthersSame, SameInv
<1>4. ASSUME NEW r \in Regions, Throttled(r)
      PROVE  RegionInv(q)'
  BY <1>4, SameInv DEF Throttled, Same
<1>5. ASSUME NEW r \in Regions, NEW m \in Nat, NextPage(r, m)
      PROVE  RegionInv(q)'
  <2>1. q # r => Same(q)
    BY <1>5, OthersSame
  <2> QED BY <1>5, <2>1, NextPageInv, SameInv
<1>6. ASSUME NEW r \in Regions, ListingEnds(r) \/ ListingFails(r)
      PROVE  RegionInv(q)'
  BY <1>6, ListingInvStep, OthersSame, SameInv
<1>7. ASSUME NEW r \in Regions, NEW failed \in SUBSET Calls, NEW pages \in SUBSET Parts, NEW blank,
             Enrich(r, failed, pages, blank) \/ EnrichRaises(r, failed, pages, blank)
      PROVE  RegionInv(q)'
  <2>1. q # r => Same(q)
    BY <1>7, OthersSame
  <2> QED BY <1>7, <2>1, EnrichInv, SameInv
<1>8. ASSUME NEW r \in Regions, ScanReturns(r)
      PROVE  RegionInv(q)'
  BY <1>8, ReturnInv, OthersSame, SameInv
<1>9. ASSUME \/ \E r \in Regions : Merge(r)
             \/ WriteInventory \/ WriteFails \/ Exit \/ UNCHANGED vars
      PROVE  UNCHANGED region
  BY <1>9 DEF Merge, WriteInventory, WriteFails, Exit, vars
<1> QED
  BY <1>1, <1>2, <1>3, <1>4, <1>5, <1>6, <1>7, <1>8, <1>9, ActionCases, Zenon

-----------------------------------------------------------------------------
(* The main thread                                                         *)

\* Every step keeps what holds of the results taken so far.
LEMMA MergedInvStep ==
  ASSUME TypeOK, \A r \in Regions : RegionInv(r), MergedInv, [Next]_vars
  PROVE  MergedInv'
<1>1. CASE Start \/ (\E code \in {1, 2} : StartFails(code)) \/ Kill
  <2>1. merged' = {} /\ clusters' = <<>> /\ main' # "written"
    BY <1>1 DEF Start, StartFails, Kill, NoScan
  <2> QED BY <2>1 DEF MergedInv, Elements
<1>2. ASSUME NEW q \in Regions, Merge(q)
      PROVE  MergedInv'
  <2>1. /\ scan[q] \in ScanDone /\ q \notin merged /\ main = "scanning"
        /\ merged' = merged \cup {q}
        /\ clusters' = IF scan[q] = "raised" THEN clusters ELSE clusters \o records[q]
        /\ UNCHANGED <<scan, records, main>>
    BY <1>2 DEF Merge, region
  <2>2. Elements(clusters') = Elements(clusters) \cup Elements(records[q])
    <3>1. CASE scan[q] = "raised"
      <4>1. records[q] = <<>>
        BY <3>1 DEF RegionInv, ListingInv, Fresh
      <4> QED BY <4>1, <3>1, <2>1 DEF Elements
    <3>2. CASE scan[q] # "raised"
      BY <3>2, <2>1, ElementsConcat DEF TypeOK
    <3> QED BY <3>1, <3>2
  <2>3. Elements(clusters)' = UNION {Elements(records[r])' : r \in merged'}
    <3>1. Elements(clusters)' = Elements(clusters')
      BY DEF Elements
    <3>2. \A r : Elements(records[r])' = Elements(records[r])
      BY <2>1 DEF Elements
    <3>3. {Elements(records[r])' : r \in merged'} =
            {Elements(records[r]) : r \in merged} \cup {Elements(records[q])}
      BY <3>2, <2>1
    <3> QED BY <3>1, <3>3, <2>2 DEF MergedInv
  <2> QED BY <2>1, <2>3 DEF MergedInv, Elements
<1>3. ASSUME NEW q \in Regions,
             \/ StartScan(q) \/ ScanRaises(q) \/ Throttled(q)
             \/ \E m \in Nat : NextPage(q, m)
             \/ ListingEnds(q) \/ ListingFails(q)
             \/ \E failed \in SUBSET Calls, pages \in SUBSET Parts : \E blank :
                  Enrich(q, failed, pages, blank) \/ EnrichRaises(q, failed, pages, blank)
             \/ ScanReturns(q)
      PROVE  MergedInv'
  <2>1. main = "scanning" /\ UNCHANGED <<main, merged, clusters>>
    BY <1>3 DEF StartScan, ScanRaises, Throttled, NextPage, ListingEnds, ListingFails,
                Enrich, EnrichRaises, Enriching, ScanReturns, Region
  <2>2. ASSUME NEW r \in merged
        PROVE  scan'[r] = scan[r] /\ records'[r] = records[r]
    <3>1. r \in Regions /\ scan[r] \in ScanDone
      BY DEF MergedInv, TypeOK
    <3>2. scan[q] \notin ScanDone
      BY <1>3 DEF StartScan, ScanRaises, Throttled, NextPage, ListingEnds, ListingFails, Calling,
                  Enrich, EnrichRaises, Enriching, ScanReturns, ScanDone, Kinds
    <3> QED BY <1>3, <3>1, <3>2, OthersSame DEF Same
  <2>3. {Elements(records[r])' : r \in merged'} = {Elements(records[r]) : r \in merged}
    BY <2>1, <2>2 DEF Elements
  <2> QED BY <2>1, <2>2, <2>3 DEF MergedInv, Elements
<1>4. CASE WriteInventory
  <2>1. /\ UNCHANGED <<run, scan, records, scanErrors, merged, clusters>>
        /\ AllMerged /\ file' = Assembled
    BY <1>4 DEF WriteInventory, region
  <2>2. AllMerged' /\ Assembled' = Assembled
    BY <2>1 DEF AllMerged, Assembled, AllErrors, ErrorsOf
  <2>3. (\A r \in merged : scan[r] \in ScanDone)'
    BY <2>1 DEF MergedInv
  <2>4. (Elements(clusters) = UNION {Elements(records[r]) : r \in merged})'
    BY <2>1 DEF MergedInv, Elements
  <2> QED BY <2>1, <2>2, <2>3, <2>4 DEF MergedInv
<1>5. CASE WriteFails \/ Exit
  BY <1>5 DEF WriteFails, Exit, MergedInv, region, Elements
<1>6. CASE UNCHANGED vars
  <2>1. UNCHANGED <<run, main, scan, records, scanErrors, merged, clusters, file>>
    BY <1>6 DEF vars, region
  <2>2. Elements(clusters)' = UNION {Elements(records[r])' : r \in merged'}
    <3>1. Elements(clusters)' = Elements(clusters) /\ \A r : Elements(records[r])' = Elements(records[r])
      BY <2>1 DEF Elements
    <3> QED BY <2>1, <3>1 DEF MergedInv
  <2>3. AllErrors' = AllErrors
    <3>1. \A r : ErrorsOf(r)' = ErrorsOf(r)
      BY <2>1 DEF ErrorsOf
    <3> QED BY <2>1, <3>1 DEF AllErrors
  <2>4. (main = "written" => AllMerged /\ file = Assembled)'
    BY <2>1, <2>3 DEF MergedInv, AllMerged, Assembled
  <2> QED BY <2>1, <2>2, <2>4 DEF MergedInv
<1> QED BY <1>1, <1>2, <1>3, <1>4, <1>5, <1>6, ActionCases, Zenon

-----------------------------------------------------------------------------
(* The inventory                                                           *)

\* What is written once every result has been taken is complete where it counts
\* no error, and counts an error for everything it lacks.
LEMMA AssembledIsSound ==
  ASSUME TypeOK, \A r \in Regions : RegionInv(r), MergedInv, AllMerged
  PROVE  /\ ~AnyError(Assembled) =>
              Complete(clusters)
         /\ \A r \in Regions, k \in Kinds : \A n \in Wanted(r, k) :
              \/ \E i \in DOMAIN clusters : clusters[i].resource = n
              \/ \E e \in {"scan", k, n} : <<r, e>> \in AllErrors
<1>1. \A r \in Regions : scan[r] \in ScanDone
  BY DEF MergedInv, AllMerged
<1>2. Elements(clusters) = UNION {Elements(records[r]) : r \in Regions}
  BY DEF MergedInv, AllMerged
<1>3. ASSUME NEW r \in Regions, scan[r] = "returned"
      PROVE  /\ Elements(found[r]) = UNION {Wanted(r, k) : k \in Kinds \ scanErrors[r]}
             /\ Elements(found[r]) =
                  {rec.resource : rec \in Elements(records[r])} \cup (scanErrors[r] \cap Resources)
  <2>1. Passed(r) = Kinds
    BY <1>3 DEF Passed
  <2>2. next[r] = Len(found[r]) /\ DOMAIN found[r] = 1..Len(found[r])
    BY <1>3 DEF RegionInv, EnrichedInv, TypeOK
  <2>3. Elements(found[r]) =
          {records[r][i].resource : i \in DOMAIN records[r]} \cup (scanErrors[r] \cap Resources)
    BY <2>2 DEF RegionInv, EnrichedInv, Elements
  <2>4. {records[r][i].resource : i \in DOMAIN records[r]}
          = {rec.resource : rec \in Elements(records[r])}
    BY DEF Elements
  <2>5. Elements(found[r]) = UNION {Wanted(r, k) : k \in Kinds \ scanErrors[r]}
    BY <2>1 DEF RegionInv, FoundInv
  <2> QED BY <2>3, <2>4, <2>5
<1>4. ASSUME ~AnyError(Assembled)
      PROVE  Complete(clusters)
  <2>1. AllErrors = {} /\ \A i \in DOMAIN clusters : clusters[i].errors = {}
    BY <1>4 DEF AnyError, Assembled
  <2>2. \A r \in Regions : ErrorsOf(r) = {}
    <3>1. \A r \in Regions : \A e \in ErrorsOf(r) : <<r, e>> \in AllErrors
      BY DEF AllErrors, AllMerged
    <3> QED BY <2>1, <3>1
  <2>3. \A r \in Regions : scan[r] = "returned" /\ scanErrors[r] = {}
    <3> SUFFICES ASSUME NEW r \in Regions
                 PROVE  scan[r] = "returned" /\ scanErrors[r] = {}
      OBVIOUS
    <3>1. "scan" \notin ErrorsOf(r)
      BY <2>2
    <3>2. scan[r] # "raised"
      BY <3>1 DEF ErrorsOf
    <3> QED BY <2>2, <3>2, <1>1 DEF ErrorsOf, ScanDone
  <2>4. ASSUME NEW r \in Regions
        PROVE  ~Dirty(r)
    <3>1. \A rec \in Elements(records[r]) : rec \in Elements(clusters)
      BY <1>2
    <3>2. \A rec \in Elements(clusters) : rec.errors = {}
      BY <2>1 DEF Elements
    <3>3. \A i \in DOMAIN records[r] : records[r][i] \in Elements(records[r])
      BY DEF Elements
    <3> QED BY <3>1, <3>2, <3>3, <2>3 DEF Dirty
  <2>5. ASSUME NEW r \in Regions, NEW rec \in Elements(records[r])
        PROVE  Truthful(rec, unanswered[r])
    BY <2>4, <2>5 DEF RegionInv, TruthInv, Elements
  <2>6. ASSUME NEW r \in Regions
        PROVE  {rec.resource : rec \in Elements(records[r])} = UNION {Wanted(r, k) : k \in Kinds}
    BY <1>3, <2>3
  <2>7. ASSUME NEW rec \in Elements(clusters)
        PROVE  \E r \in Regions, k \in Kinds :
                 rec.resource \in Wanted(r, k) /\ Truthful(rec, unanswered[r])
    <3>1. PICK r \in Regions : rec \in Elements(records[r])
      BY <2>7, <1>2
    <3>2. Truthful(rec, unanswered[r]) /\ rec.resource \in UNION {Wanted(r, k) : k \in Kinds}
      BY <3>1, <2>5, <2>6
    <3> QED BY <3>2
  <2>8. ASSUME NEW r \in Regions, NEW k \in Kinds, NEW n \in Wanted(r, k)
        PROVE  \E rec \in Elements(clusters) : rec.resource = n /\ Truthful(rec, unanswered[r])
    <3>1. n \in {rec.resource : rec \in Elements(records[r])}
      BY <2>6
    <3>2. PICK rec \in Elements(records[r]) : rec.resource = n
      BY <3>1
    <3> QED BY <3>2, <2>5, <1>2
  <2> QED BY <2>7, <2>8 DEF Complete
<1>5. ASSUME NEW r \in Regions, NEW k \in Kinds, NEW n \in Wanted(r, k)
      PROVE  \/ \E i \in DOMAIN clusters : clusters[i].resource = n
             \/ \E e \in {"scan", k, n} : <<r, e>> \in AllErrors
  <2>1. \A e \in ErrorsOf(r) : <<r, e>> \in AllErrors
    BY DEF AllErrors, AllMerged
  <2>2. CASE scan[r] = "raised"
    BY <2>1, <2>2 DEF ErrorsOf
  <2>3. CASE k \in scanErrors[r] /\ scan[r] = "returned"
    BY <2>1, <2>3 DEF ErrorsOf
  <2>4. CASE k \notin scanErrors[r] /\ scan[r] = "returned"
    <3>1. n \in Elements(found[r])
      BY <2>4, <1>3
    <3>2. CASE n \in scanErrors[r]
      BY <2>1, <2>4, <3>2 DEF ErrorsOf
    <3>3. CASE n \notin scanErrors[r]
      <4>1. PICK rec \in Elements(records[r]) : rec.resource = n
        BY <3>1, <3>3, <2>4, <1>3
      <4>2. rec \in Elements(clusters)
        BY <4>1, <1>2
      <4> QED BY <4>1, <4>2 DEF Elements
    <3> QED BY <3>2, <3>3
  <2> QED BY <2>2, <2>3, <2>4, <1>1 DEF ScanDone
<1> QED BY <1>4, <1>5

\* Every step keeps that only this run's own inventory carries its number.
LEMMA FileInvStep ==
  ASSUME TypeOK, FileInv, [Next]_vars
  PROVE  FileInv'
<1> USE DEF FileInv, TypeOK, Inventory
<1>1. CASE Start \/ (\E code \in {1, 2} : StartFails(code)) \/ Kill
  BY <1>1 DEF Start, StartFails, Kill
<1>2. ASSUME NEW r \in Regions,
             \/ StartScan(r) \/ ScanRaises(r) \/ Throttled(r)
             \/ \E m \in Nat : NextPage(r, m)
             \/ ListingEnds(r) \/ ListingFails(r)
             \/ \E failed \in SUBSET Calls, pages \in SUBSET Parts : \E blank :
                  Enrich(r, failed, pages, blank) \/ EnrichRaises(r, failed, pages, blank)
             \/ ScanReturns(r) \/ Merge(r)
      PROVE  FileInv'
  <2>1. UNCHANGED <<run, main, file>>
    BY <1>2 DEF StartScan, ScanRaises, Throttled, NextPage, ListingEnds, ListingFails,
                Enrich, EnrichRaises, Enriching, ScanReturns, Region, Merge
  <2> QED BY <2>1
<1>3. CASE WriteInventory
  BY <1>3 DEF WriteInventory, Assembled
<1>4. CASE WriteFails \/ Exit \/ UNCHANGED vars
  BY <1>4 DEF WriteFails, Exit, vars
<1> QED BY <1>1, <1>2, <1>3, <1>4, ActionCases, Zenon

Promises == SuccessIsClean /\ CleanInventoryIsComplete /\ FailuresAreContained

\* Every step keeps what the inventory promises.
LEMMA PromisesStep ==
  ASSUME TypeOK, \A r \in Regions : RegionInv(r), MergedInv, FileInv, Promises, [Next]_vars
  PROVE  Promises'
<1> USE DEF Promises, SuccessIsClean
<1>1. ASSUME UNCHANGED file
      PROVE  FailuresAreContained'
  <2>1. \A r, k : Wanted(r, k)' = Wanted(r, k)
    BY DEF Wanted, Elements
  <2> QED BY <1>1, <2>1 DEF FailuresAreContained
<1>2. ASSUME ~WrittenByThisRun'
      PROVE  CleanInventoryIsComplete'
  BY <1>2 DEF CleanInventoryIsComplete
<1>3. CASE Start \/ Kill
  <2>1. ~WrittenByThisRun'
    BY <1>3 DEF Start, Kill, WrittenByThisRun, FileInv, TypeOK, Inventory
  <2> QED BY <1>1, <1>2, <1>3, <2>1 DEF Start, Kill
<1>4. ASSUME NEW code \in {1, 2}, StartFails(code)
      PROVE  Promises'
  <2>1. ~WrittenByThisRun'
    BY <1>4 DEF StartFails, WrittenByThisRun, FileInv, TypeOK, Inventory
  <2> QED BY <1>1, <1>2, <1>4, <2>1 DEF StartFails
<1>5. ASSUME NEW r \in Regions,
             \/ StartScan(r) \/ ScanRaises(r) \/ Throttled(r)
             \/ \E m \in Nat : NextPage(r, m)
             \/ ListingEnds(r) \/ ListingFails(r)
             \/ \E failed \in SUBSET Calls, pages \in SUBSET Parts : \E blank :
                  Enrich(r, failed, pages, blank) \/ EnrichRaises(r, failed, pages, blank)
             \/ ScanReturns(r) \/ Merge(r)
      PROVE  Promises'
  <2>1. main = "scanning" /\ UNCHANGED <<main, file>>
    BY <1>5 DEF StartScan, ScanRaises, Throttled, NextPage, ListingEnds, ListingFails,
                Enrich, EnrichRaises, Enriching, ScanReturns, Region, Merge
  <2> QED BY <1>1, <1>2, <2>1 DEF WrittenByThisRun
<1>6. CASE WriteInventory
  <2>1. main' # "exited" /\ file' = Assembled /\ AllMerged /\ UNCHANGED unanswered
    BY <1>6 DEF WriteInventory, region
  <2>2. file'.clusters = clusters /\ file'.errors = AllErrors
    BY <2>1 DEF Assembled
  <2>3. CleanInventoryIsComplete'
    <3>1. AnyError(file)' <=> AnyError(Assembled)
      BY <2>1 DEF AnyError
    <3>2. Complete(file.clusters)' <=> Complete(clusters)
      BY <2>1, <2>2 DEF Complete, Truthful, Wanted, Elements
    <3> QED BY <3>1, <3>2, <2>1, AssembledIsSound DEF CleanInventoryIsComplete
  <2>4. FailuresAreContained'
    BY <2>1, <2>2, AssembledIsSound DEF FailuresAreContained
  <2> QED BY <2>1, <2>3, <2>4
<1>7. CASE WriteFails
  <2>1. ~WrittenByThisRun'
    BY <1>7 DEF WriteFails, WrittenByThisRun, FileInv, TypeOK, Inventory
  <2> QED BY <1>1, <1>2, <1>7, <2>1 DEF WriteFails
<1>8. ASSUME UNCHANGED <<run, file, unanswered>>, main = "written" \/ UNCHANGED main
      PROVE  CleanInventoryIsComplete'
  <2>1. WrittenByThisRun' => WrittenByThisRun
    BY <1>8 DEF WrittenByThisRun
  <2>2. (AnyError(file)' <=> AnyError(file)) /\ (Complete(file.clusters)' <=> Complete(file.clusters))
    BY <1>8 DEF AnyError, Complete, Truthful, Wanted, Elements
  <2> QED BY <2>1, <2>2 DEF CleanInventoryIsComplete
<1>9. CASE Exit
  <2>1. /\ exit' = ExitCode(Assembled) /\ UNCHANGED <<run, file, unanswered>> /\ main = "written"
        /\ file = Assembled
    BY <1>9 DEF Exit, MergedInv, region
  <2>2. ExitCode(Assembled) = 0 => ~AnyError(Assembled) /\ Assembled.clusters # <<>>
    BY DEF ExitCode
  <2>3. file \in Inventory /\ file.run = run
    <3>1. AllErrors \in SUBSET (Regions \X (Kinds \cup Resources \cup {"scan"}))
      BY DEF AllErrors, ErrorsOf, TypeOK
    <3>2. Assembled \in Inventory
      BY <3>1 DEF Assembled, Inventory, TypeOK
    <3> QED BY <3>2, <2>1 DEF Assembled
  <2>4. SuccessIsClean'
    <3>1. AnyError(file)' <=> AnyError(file)
      BY <2>1 DEF AnyError
    <3> QED BY <3>1, <2>1, <2>2, <2>3, NoFileAssumption
  <2> QED BY <2>1, <2>4, <1>1, <1>8
<1>10. CASE UNCHANGED vars
  <2>1. UNCHANGED <<main, exit, run, file, unanswered>>
    BY <1>10 DEF vars, region
  <2>2. SuccessIsClean'
    BY <2>1 DEF AnyError
  <2> QED BY <1>1, <1>8, <2>1, <2>2
<1> QED BY <1>3, <1>4, <1>5, <1>6, <1>7, <1>9, <1>10, ActionCases, Zenon

-----------------------------------------------------------------------------
(* Nothing is listed twice                                                 *)

\* No name is in the account's listings, or in the names asked for, twice.  The
\* ids of an account are unique within a region, and a resource is the cluster a
\* region has under an id; a name given twice on the command line is a name
\* listed twice.
ListedOnce ==
  \A r, q \in Regions, k, j \in Kinds :
    \A i \in DOMAIN Listing[r][k], h \in DOMAIN Listing[q][j] :
      Listing[r][k][i] = Listing[q][j][h] /\ Listing[r][k][i] # Missing =>
        r = q /\ k = j /\ i = h

Distinct(s) == \A i, j \in DOMAIN s : s[i] = s[j] => i = j

\* Whom a list of records is about.
Names(s) == [i \in DOMAIN s |-> s[i].resource]

\* What a region has been told, found and recorded, it has once, and so has the
\* inventory.
DistinctIn(r) == Distinct(page[r]) /\ Distinct(found[r]) /\ Distinct(Names(records[r]))
DistinctInv == (\A r \in Regions : DistinctIn(r)) /\ Distinct(Names(clusters))

\* Two lists without repetitions and without a common element make one.
LEMMA DistinctConcat ==
  ASSUME NEW S, NEW s \in Seq(S), NEW t \in Seq(S), Distinct(s), Distinct(t),
         Elements(s) \cap Elements(t) = {}
  PROVE  Distinct(s \o t)
<1>1. /\ s \o t \in Seq(S)
      /\ Len(s \o t) = Len(s) + Len(t)
      /\ \A i \in 1..(Len(s) + Len(t)) :
           (s \o t)[i] = IF i <= Len(s) THEN s[i] ELSE t[i - Len(s)]
  OBVIOUS
<1>2. /\ DOMAIN s = 1..Len(s) /\ DOMAIN t = 1..Len(t)
      /\ DOMAIN (s \o t) = 1..(Len(s) + Len(t))
      /\ Len(s) \in Nat /\ Len(t) \in Nat
  BY <1>1
<1> DEFINE u == s \o t
<1> HIDE DEF u
<1>3. ASSUME NEW i \in DOMAIN u, i <= Len(s)
      PROVE  i \in DOMAIN s /\ u[i] = s[i] /\ u[i] \in Elements(s)
  BY <1>1, <1>2, <1>3 DEF Elements, u
<1>4. ASSUME NEW i \in DOMAIN u, ~(i <= Len(s))
      PROVE  i - Len(s) \in DOMAIN t /\ u[i] = t[i - Len(s)] /\ u[i] \in Elements(t)
  <2>1. i - Len(s) \in DOMAIN t /\ u[i] = t[i - Len(s)]
    BY <1>1, <1>2, <1>4 DEF u
  <2> QED BY <2>1 DEF Elements
<1>5. ASSUME NEW i \in DOMAIN u, NEW j \in DOMAIN u, u[i] = u[j]
      PROVE  i = j
  <2>1. i \in Nat /\ j \in Nat
    BY <1>2 DEF u
  <2>2. CASE i <= Len(s) /\ j <= Len(s)
    BY <2>2, <1>3, <1>5 DEF Distinct
  <2>3. CASE ~(i <= Len(s)) /\ ~(j <= Len(s))
    <3>1. i - Len(s) = j - Len(s)
      BY <2>3, <1>4, <1>5 DEF Distinct
    <3> QED BY <3>1, <2>1, <1>2
  <2>4. CASE (i <= Len(s) /\ ~(j <= Len(s))) \/ (~(i <= Len(s)) /\ j <= Len(s))
    BY <2>4, <1>3, <1>4, <1>5
  <2> QED BY <2>2, <2>3, <2>4
<1> QED BY <1>5 DEF Distinct, u

\* The names of two lists of records, one after the other.
LEMMA NamesConcat ==
  ASSUME NEW s \in Seq(Record), NEW t \in Seq(Record)
  PROVE  /\ Names(s) \in Seq(Resources) /\ Names(t) \in Seq(Resources)
         /\ Names(s \o t) = Names(s) \o Names(t)
<1>1. ASSUME NEW u \in Seq(Record)
      PROVE  /\ Names(u) \in Seq(Resources) /\ Len(Names(u)) = Len(u)
             /\ \A i \in 1..Len(u) : Names(u)[i] = u[i].resource
  <2>1. DOMAIN u = 1..Len(u) /\ Len(u) \in Nat
    OBVIOUS
  <2>2. \A i \in 1..Len(u) : u[i] \in Record
    OBVIOUS
  <2>3. \A i \in 1..Len(u) : u[i].resource \in Resources
    BY <2>2 DEF Record
  <2>4. Names(u) \in [1..Len(u) -> Resources]
    BY <2>1, <2>3 DEF Names
  <2>5. Names(u) \in Seq(Resources)
    BY <2>1, <2>4, SeqDef
  <2>6. Len(Names(u)) = Len(u)
    BY <2>1, <2>4, <2>5, LenProperties
  <2> QED BY <2>1, <2>5, <2>6 DEF Names
<1>2. /\ s \o t \in Seq(Record)
      /\ Len(s \o t) = Len(s) + Len(t)
      /\ Len(s) \in Nat /\ Len(t) \in Nat
      /\ \A i \in 1..(Len(s) + Len(t)) :
           (s \o t)[i] = IF i <= Len(s) THEN s[i] ELSE t[i - Len(s)]
  OBVIOUS
<1> DEFINE u == s \o t
           v == Names(s) \o Names(t)
<1>3. /\ v \in Seq(Resources) /\ Len(v) = Len(s) + Len(t)
      /\ \A i \in 1..(Len(s) + Len(t)) :
           v[i] = IF i <= Len(s) THEN Names(s)[i] ELSE Names(t)[i - Len(s)]
  <2>1. \A a, b \in Seq(Resources) :
          /\ a \o b \in Seq(Resources) /\ Len(a \o b) = Len(a) + Len(b)
          /\ \A i \in 1..(Len(a) + Len(b)) :
               (a \o b)[i] = IF i <= Len(a) THEN a[i] ELSE b[i - Len(a)]
    OBVIOUS
  <2>2. /\ Names(s) \in Seq(Resources) /\ Len(Names(s)) = Len(s)
        /\ Names(t) \in Seq(Resources) /\ Len(Names(t)) = Len(t)
    BY <1>1
  <2>3. /\ v \in Seq(Resources) /\ Len(v) = Len(Names(s)) + Len(Names(t))
        /\ \A i \in 1..(Len(Names(s)) + Len(Names(t))) :
             v[i] = IF i <= Len(Names(s)) THEN Names(s)[i] ELSE Names(t)[i - Len(Names(s))]
    BY <2>1, <2>2, Zenon
  <2> HIDE DEF v
  <2> QED BY <2>2, <2>3
<1>4. Names(u) \in Seq(Resources) /\ Len(Names(u)) = Len(s) + Len(t)
  BY <1>1, <1>2
<1>5. \A i \in 1..(Len(s) + Len(t)) : Names(u)[i] = u[i].resource
  BY <1>1, <1>2
<1> HIDE DEF u, v
<1>6. ASSUME NEW i \in 1..(Len(s) + Len(t))
      PROVE  Names(u)[i] = v[i]
  <2>1. CASE i <= Len(s)
    <3>1. i \in 1..Len(s) /\ u[i] = s[i]
      BY <2>1, <1>2 DEF u
    <3> QED BY <3>1, <2>1, <1>1, <1>3, <1>5
  <2>2. CASE ~(i <= Len(s))
    <3>1. i - Len(s) \in 1..Len(t) /\ u[i] = t[i - Len(s)]
      BY <2>2, <1>2 DEF u
    <3> QED BY <3>1, <2>2, <1>1, <1>3, <1>5
  <2> QED BY <2>1, <2>2
<1>7. Names(u) = v
  BY <1>3, <1>4, <1>6, SeqEqual
<1> QED BY <1>1, <1>7 DEF u, v

\* One answer names nothing twice.
LEMMA AnswerDistinct ==
  ASSUME TypeOK, ListedOnce, NEW r \in Regions, NEW k \in Kinds, NEW m \in Nat,
         read[r] < Len(Listing[r][k]), m \in Answered(r, k)
  PROVE  Distinct(Answer(r, k, m))
<1> DEFINE l == Listing[r][k]
           a == read[r]
           t == SubSeq(l, a + 1, m)
<1>1. l \in Seq(Resources \cup {Missing}) /\ a \in Nat
  BY AccountAssumption DEF TypeOK
<1>2. a < m /\ m <= Len(l) /\ Len(l) \in Nat /\ DOMAIN l = 1..Len(l)
  BY <1>1, AnswerIsPartOfListing
<1>3. CASE l[m] = Missing
  BY <1>3 DEF Answer, Distinct
<1>4. CASE l[m] # Missing
  <2>1. \A i \in (a + 1)..m : l[i] # Missing
    <3>1. CASE k \in ByName
      <4>1. m = a + 1
        BY <3>1 DEF Answered
      <4> QED BY <4>1, <1>1, <1>4
    <3>2. CASE k \notin ByName
      <4>1. \A i \in DOMAIN l : l[i] # Missing
        BY <3>2, AccountAssumption
      <4> QED BY <4>1, <1>1, <1>2
    <3> QED BY <3>1, <3>2
  <2>2. \A i, h \in DOMAIN l : l[i] = l[h] /\ l[i] # Missing => i = h
    BY DEF ListedOnce
  <2> HIDE DEF l, a
  <2>3. Len(t) = m - a /\ DOMAIN t = 1..(m - a) /\ \A i \in 1..(m - a) : t[i] = l[a + i]
    BY <1>1, <1>2
  <2>4. ASSUME NEW i \in DOMAIN t, NEW h \in DOMAIN t, t[i] = t[h]
        PROVE  i = h
    <3>1. a + i \in (a + 1)..m /\ a + h \in (a + 1)..m
      BY <2>3, <1>1, <1>2
    <3>2. a + i \in DOMAIN l /\ a + h \in DOMAIN l
      BY <3>1, <1>1, <1>2
    <3>3. l[a + i] = l[a + h] /\ l[a + i] # Missing
      BY <2>1, <2>3, <2>4, <3>1
    <3>4. a + i = a + h
      BY <2>2, <3>2, <3>3
    <3> QED BY <3>4, <2>3, <1>1, <1>2
  <2>5. Answer(r, k, m) = t
    BY <1>4 DEF Answer, l, a
  <2> QED BY <2>4, <2>5 DEF Distinct
<1> QED BY <1>3, <1>4

\* What two listings have is different.
LEMMA WantedDisjoint ==
  ASSUME ListedOnce, NEW r \in Regions, NEW q \in Regions, NEW k \in Kinds, NEW j \in Kinds,
         NEW n \in Wanted(r, k), n \in Wanted(q, j)
  PROVE  r = q /\ k = j
<1>1. PICK i \in DOMAIN Listing[r][k] : Listing[r][k][i] = n
  BY DEF Wanted, Elements
<1>2. PICK h \in DOMAIN Listing[q][j] : Listing[q][j][h] = n
  BY DEF Wanted, Elements
<1> QED BY <1>1, <1>2 DEF ListedOnce, Wanted

\* Pages and finds of a listing have nothing twice.
LEMMA ListingDistinct ==
  ASSUME TypeOK, ListedOnce, NEW r \in Regions, RegionInv(r), DistinctIn(r),
         (\E m \in Nat : NextPage(r, m)) \/ ListingEnds(r) \/ ListingFails(r)
  PROVE  DistinctIn(r)'
<1> DEFINE k == scan[r]
<1>1. k \in Kinds /\ UNCHANGED records
  BY DEF NextPage, ListingEnds, ListingFails, Calling
<1>2. Elements(page[r]) = {Listing[r][k][i] : i \in 1..read[r]} \ {Missing}
  BY <1>1 DEF RegionInv, ListingInv
<1>3. read[r] <= Len(Listing[r][k]) /\ DOMAIN Listing[r][k] = 1..Len(Listing[r][k])
      /\ Len(Listing[r][k]) \in Nat /\ read[r] \in Nat
  BY <1>1, AccountAssumption DEF RegionInv, ListingInv, TypeOK
<1>4. ASSUME NEW m \in Nat, NextPage(r, m)
      PROVE  DistinctIn(r)'
  <2>1. /\ read[r] < Len(Listing[r][k]) /\ m \in Answered(r, k)
        /\ page'[r] = page[r] \o Answer(r, k, m) /\ UNCHANGED found
    BY <1>4 DEF NextPage, TypeOK
  <2>2. /\ Answer(r, k, m) \in Seq(Resources) /\ m <= Len(Listing[r][k])
        /\ Elements(Answer(r, k, m)) = {Listing[r][k][i] : i \in (read[r] + 1)..m} \ {Missing}
    BY <1>1, <2>1, AnswerIsPartOfListing
  <2>3. Elements(page[r]) \cap Elements(Answer(r, k, m)) = {}
    <3> SUFFICES ASSUME NEW n \in Elements(page[r]), n \in Elements(Answer(r, k, m))
                 PROVE  FALSE
      OBVIOUS
    <3>1. PICK i \in 1..read[r] : n = Listing[r][k][i]
      BY <1>2
    <3>2. PICK h \in (read[r] + 1)..m : n = Listing[r][k][h]
      BY <2>2
    <3>3. i \in DOMAIN Listing[r][k] /\ h \in DOMAIN Listing[r][k] /\ n # Missing
      BY <1>2, <1>3, <2>2, <3>1, <3>2
    <3>4. \A x, y \in DOMAIN Listing[r][k] :
            Listing[r][k][x] = Listing[r][k][y] /\ Listing[r][k][x] # Missing => x = y
      BY <1>1 DEF ListedOnce
    <3>5. i = h
      BY <3>1, <3>2, <3>3, <3>4
    <3> QED BY <3>1, <3>2, <3>5, <1>3
  <2>4. Distinct(page'[r])
    BY <1>1, <2>1, <2>2, <2>3, AnswerDistinct, DistinctConcat DEF DistinctIn, TypeOK
  <2> QED BY <1>1, <2>1, <2>4 DEF DistinctIn, Distinct, Names
<1>5. CASE ListingEnds(r)
  <2>1. page'[r] = <<>> /\ found'[r] = found[r] \o page[r]
    BY <1>5 DEF ListingEnds, TypeOK
  <2>2. Elements(found[r]) \cap Elements(page[r]) = {}
    <3> SUFFICES ASSUME NEW n \in Elements(found[r]), n \in Elements(page[r])
                 PROVE  FALSE
      OBVIOUS
    <3>1. n \in Wanted(r, k)
      <4>1. PICK i \in 1..read[r] : n = Listing[r][k][i]
        BY <1>2
      <4>2. i \in DOMAIN Listing[r][k] /\ n # Missing
        BY <1>2, <1>3, <4>1
      <4> QED BY <4>1, <4>2 DEF Wanted, Elements
    <3>2. PICK j \in Passed(r) : n \in Wanted(r, j)
      BY DEF RegionInv, FoundInv
    <3>3. j \in Kinds /\ k \notin Passed(r)
      BY <1>1, <3>2 DEF Passed, Kinds
    <3> QED BY <1>1, <3>1, <3>2, <3>3, WantedDisjoint
  <2>3. Distinct(found'[r])
    BY <2>1, <2>2, DistinctConcat DEF DistinctIn, TypeOK
  <2>4. Distinct(page'[r])
    BY <2>1 DEF Distinct
  <2> QED BY <1>1, <2>3, <2>4 DEF DistinctIn, Distinct, Names
<1>6. CASE ListingFails(r)
  <2>1. page'[r] = <<>> /\ UNCHANGED found
    BY <1>6 DEF ListingFails, TypeOK
  <2>2. Distinct(page'[r])
    BY <2>1 DEF Distinct
  <2> QED BY <1>1, <2>1, <2>2 DEF DistinctIn, Distinct, Names
<1> QED BY <1>4, <1>5, <1>6

\* The next resource has no record yet.
LEMMA EnrichDistinct ==
  ASSUME TypeOK, NEW r \in Regions, RegionInv(r), DistinctIn(r),
         NEW failed \in SUBSET Calls, NEW pages \in SUBSET Parts, NEW blank,
         Enrich(r, failed, pages, blank) \/ EnrichRaises(r, failed, pages, blank)
  PROVE  DistinctIn(r)'
<1> DEFINE n == found[r][next[r] + 1]
           rec == RecordOf(r, n, failed, pages, blank)
<1>1. UNCHANGED <<page, found>> /\ next[r] < Len(found[r])
  BY DEF Enrich, EnrichRaises, Enriching
<1>2. /\ next[r] \in Nat /\ Len(found[r]) \in Nat /\ DOMAIN found[r] = 1..Len(found[r])
      /\ records[r] \in Seq(Record) /\ found[r] \in Seq(Resources)
  BY DEF TypeOK
<1>3. n \in Resources
  <2>1. next[r] + 1 \in 1..Len(found[r])
    BY <1>1, <1>2
  <2> QED BY <2>1, <1>2, ElementOfSeq
<1>4. rec \in Record /\ rec.resource = n
  <2>1. rec \in Record
    BY <1>3, EnrichmentTypes
  <2> QED BY <2>1 DEF RecordOf
<1>5. n \notin {found[r][i] : i \in 1..next[r]}
  <2> SUFFICES ASSUME NEW i \in 1..next[r], n = found[r][i]
               PROVE  FALSE
    OBVIOUS
  <2>1. i \in DOMAIN found[r] /\ next[r] + 1 \in DOMAIN found[r] /\ i # next[r] + 1
    BY <1>1, <1>2
  <2> QED BY <2>1 DEF DistinctIn, Distinct
<1>6. n \notin Elements(Names(records[r]))
  BY <1>5 DEF RegionInv, EnrichedInv, Elements, Names
<1> HIDE DEF n, rec
<1>7. CASE Enrich(r, failed, pages, blank)
  <2>1. records'[r] = records[r] \o <<rec>>
    <3>1. records'[r] = Append(records[r], rec)
      BY <1>7 DEF Enrich, TypeOK, n, rec
    <3>2. Append(records[r], rec) = records[r] \o <<rec>>
      BY <1>2, <1>4
    <3> QED BY <3>1, <3>2
  <2>2. <<rec>> \in Seq(Record) /\ Names(<<rec>>) = <<n>>
    BY <1>4 DEF Names
  <2>3. Names(records'[r]) = Names(records[r]) \o <<n>> /\ Names(records[r]) \in Seq(Resources)
    BY <1>2, <2>1, <2>2, NamesConcat
  <2>4. Distinct(<<n>>) /\ Elements(<<n>>) = {n} /\ <<n>> \in Seq(Resources)
    BY <1>3 DEF Distinct, Elements
  <2>5. Distinct(Names(records'[r]))
    BY <1>6, <2>3, <2>4, DistinctConcat DEF DistinctIn
  <2> QED BY <1>1, <2>5 DEF DistinctIn, Distinct, Names
<1>8. CASE EnrichRaises(r, failed, pages, blank)
  BY <1>1, <1>8 DEF EnrichRaises, DistinctIn, Distinct, Names
<1> QED BY <1>7, <1>8

\* The results of two regions name different resources.
LEMMA MergeDistinct ==
  ASSUME TypeOK, ListedOnce, \A r \in Regions : RegionInv(r), MergedInv, DistinctInv,
         NEW q \in Regions, Merge(q)
  PROVE  Distinct(Names(clusters'))
<1>1. ASSUME NEW r \in Regions, scan[r] \in ScanDone, NEW n \in Elements(Names(records[r]))
      PROVE  \E k \in Kinds : n \in Wanted(r, k)
  <2>1. PICK i \in DOMAIN records[r] : n = records[r][i].resource
    BY <1>1 DEF Elements, Names
  <2>2. n \in {found[r][h] : h \in 1..next[r]}
    BY <2>1 DEF RegionInv, EnrichedInv
  <2>3. n \in Elements(found[r])
    BY <2>2 DEF RegionInv, EnrichedInv, Elements, TypeOK
  <2> QED BY <2>3 DEF RegionInv, FoundInv, Passed, Kinds
<1>2. Elements(Names(clusters)) \cap Elements(Names(records[q])) = {}
  <2> SUFFICES ASSUME NEW n \in Elements(Names(clusters)), n \in Elements(Names(records[q]))
               PROVE  FALSE
    OBVIOUS
  <2>1. PICK i \in DOMAIN clusters : n = clusters[i].resource
    BY DEF Elements, Names
  <2>2. clusters[i] \in UNION {Elements(records[r]) : r \in merged}
    BY DEF MergedInv, Elements
  <2>3. PICK r \in merged : clusters[i] \in Elements(records[r])
    BY <2>2
  <2>4. n \in Elements(Names(records[r]))
    BY <2>1, <2>3 DEF Elements, Names
  <2>5. r \in Regions /\ scan[r] \in ScanDone /\ scan[q] \in ScanDone /\ r # q
    BY DEF MergedInv, TypeOK, Merge
  <2>6. PICK k \in Kinds : n \in Wanted(r, k)
    BY <1>1, <2>4, <2>5
  <2>7. PICK j \in Kinds : n \in Wanted(q, j)
    BY <1>1, <2>5
  <2> QED BY <2>5, <2>6, <2>7, WantedDisjoint
<1>3. clusters \in Seq(Record) /\ records[q] \in Seq(Record)
  BY DEF TypeOK
<1>4. Distinct(Names(clusters \o records[q]))
  <2>1. /\ Names(clusters) \in Seq(Resources) /\ Names(records[q]) \in Seq(Resources)
        /\ Names(clusters \o records[q]) = Names(clusters) \o Names(records[q])
    BY <1>3, NamesConcat
  <2>2. Distinct(Names(clusters)) /\ Distinct(Names(records[q]))
    BY DEF DistinctInv, DistinctIn
  <2> QED BY <1>2, <2>1, <2>2, DistinctConcat
<1> QED BY <1>4 DEF Merge, DistinctInv

\* Every step keeps lists without repetitions.
LEMMA DistinctStep ==
  ASSUME IInv, ListedOnce, DistinctInv, [Next]_vars
  PROVE  DistinctInv'
<1> USE DEF IInv
<1>1. ASSUME NEW q \in Regions, Same(q)
      PROVE  DistinctIn(q)'
  <2>1. page'[q] = page[q] /\ found'[q] = found[q] /\ records'[q] = records[q]
    BY <1>1 DEF Same
  <2>2. DistinctIn(q)
    BY DEF DistinctInv
  <2> QED BY <2>1, <2>2 DEF DistinctIn, Distinct, Names
<1>2. ASSUME \A q \in Regions : DistinctIn(q)', UNCHANGED clusters
      PROVE  DistinctInv'
  BY <1>2 DEF DistinctInv, Distinct, Names
<1>3. CASE Start \/ (\E code \in {1, 2} : StartFails(code)) \/ Kill
  <2>1. NoScan
    BY <1>3 DEF Start, StartFails, Kill
  <2> QED BY <2>1 DEF NoScan, DistinctInv, DistinctIn, Distinct, Names
<1>4. ASSUME NEW r \in Regions, StartScan(r) \/ ScanRaises(r) \/ Throttled(r) \/ ScanReturns(r)
      PROVE  DistinctInv'
  <2>1. UNCHANGED <<page, found, records, clusters>>
    BY <1>4 DEF StartScan, ScanRaises, Throttled, ScanReturns, Region
  <2> QED BY <2>1 DEF DistinctInv, DistinctIn, Distinct, Names
<1>5. ASSUME NEW r \in Regions,
             (\E m \in Nat : NextPage(r, m)) \/ ListingEnds(r) \/ ListingFails(r)
      PROVE  DistinctInv'
  <2>1. DistinctIn(r)'
    BY <1>5, ListingDistinct DEF DistinctInv
  <2>2. \A q \in Regions \ {r} : Same(q)
    BY <1>5, OthersSame
  <2>3. UNCHANGED clusters
    BY <1>5 DEF NextPage, ListingEnds, ListingFails, Region
  <2> QED BY <1>1, <1>2, <2>1, <2>2, <2>3
<1>6. ASSUME NEW r \in Regions, NEW failed \in SUBSET Calls, NEW pages \in SUBSET Parts, NEW blank,
             Enrich(r, failed, pages, blank) \/ EnrichRaises(r, failed, pages, blank)
      PROVE  DistinctInv'
  <2>1. DistinctIn(r)'
    BY <1>6, EnrichDistinct DEF DistinctInv
  <2>2. \A q \in Regions \ {r} : Same(q)
    BY <1>6, OthersSame
  <2>3. UNCHANGED clusters
    BY <1>6 DEF Enrich, EnrichRaises, Enriching, Region
  <2> QED BY <1>1, <1>2, <2>1, <2>2, <2>3
<1>7. ASSUME NEW r \in Regions, Merge(r)
      PROVE  DistinctInv'
  <2>1. UNCHANGED <<page, found, records>>
    BY <1>7 DEF Merge, region
  <2>2. \A q \in Regions : DistinctIn(q)'
    BY <2>1 DEF DistinctInv, DistinctIn, Distinct, Names
  <2>3. Distinct(Names(clusters'))
    BY <1>7, MergeDistinct
  <2> QED BY <2>2, <2>3 DEF DistinctInv, Distinct, Names
<1>8. CASE WriteInventory \/ WriteFails \/ Exit \/ UNCHANGED vars
  <2>1. UNCHANGED <<page, found, records, clusters>>
    BY <1>8 DEF WriteInventory, WriteFails, Exit, vars, region
  <2> QED BY <2>1 DEF DistinctInv, DistinctIn, Distinct, Names
<1> QED BY <1>3, <1>4, <1>5, <1>6, <1>7, <1>8, ActionCases, Zenon

-----------------------------------------------------------------------------
(* Theorems                                                                *)

\* The inductive invariant of discovery: pages, finds, records and caches of each
\* region agree with what the account has but for what was answered with nothing, or
\* an error says that they do not.
THEOREM InductiveInvariant == Spec => []IInv
<1>1. Init => IInv
  <2> SUFFICES ASSUME Init PROVE IInv
    OBVIOUS
  <2>1. TypeOK
    BY MaxRetriesAssumption DEF Init, TypeOK
  <2>2. ASSUME NEW r \in Regions
        PROVE  RegionInv(r)
    BY NothingScanned DEF Init, Fresh
  <2>3. MergedInv
    BY DEF Init, MergedInv, Elements
  <2>4. FileInv /\ SuccessIsClean /\ CleanInventoryIsComplete /\ FailuresAreContained
    BY DEF Init, FileInv, SuccessIsClean, CleanInventoryIsComplete, WrittenByThisRun,
           FailuresAreContained
  <2> QED BY <2>1, <2>2, <2>3, <2>4 DEF IInv
<1>2. IInv /\ [Next]_vars => IInv'
  <2> SUFFICES ASSUME IInv, [Next]_vars PROVE IInv'
    OBVIOUS
  <2>1. TypeOK'
    BY TypeStep DEF IInv
  <2>2. \A r \in Regions : RegionInv(r)'
    BY RegionInvStep DEF IInv
  <2>3. MergedInv'
    BY MergedInvStep DEF IInv
  <2>4. FileInv'
    BY FileInvStep DEF IInv
  <2>5. Promises'
    BY PromisesStep DEF IInv, Promises
  <2> QED BY <2>1, <2>2, <2>3, <2>4, <2>5 DEF IInv, Promises
<1> QED BY <1>1, <1>2, PTL DEF Spec

\* The variables of Stage 1 have their types.
THEOREM TypeCorrect == Spec => []TypeOK
<1>1. IInv => TypeOK
  BY DEF IInv
<1> QED BY <1>1, InductiveInvariant, PTL

\* An inventory that counts no error lists all that was asked for, and its records
\* lack only what a call that succeeded answered with nothing.
THEOREM CleanInventory == Spec => []CleanInventoryIsComplete
<1>1. IInv => CleanInventoryIsComplete
  BY DEF IInv
<1> QED BY <1>1, InductiveInvariant, PTL

\* Exit code 0 means that such an inventory was written by this run.
THEOREM SuccessMeansClean == Spec => []SuccessIsClean
<1>1. IInv => SuccessIsClean
  BY DEF IInv
<1> QED BY <1>1, InductiveInvariant, PTL

\* What is missing from an inventory is counted in it.
THEOREM NothingIsLostSilently == Spec => []FailuresAreContained
<1>1. IInv => FailuresAreContained
  BY DEF IInv
<1> QED BY <1>1, InductiveInvariant, PTL

\* In an account that lists every name once, the inventory has nothing twice,
\* however pages fall, calls are retried and regions arrive.
THEOREM NothingIsListedTwice == ListedOnce => (Spec => []NoDuplicates)
<1> SUFFICES ASSUME ListedOnce PROVE Spec => []NoDuplicates
  OBVIOUS
<1>1. Init => DistinctInv
  BY DEF Init, DistinctInv, DistinctIn, Distinct, Names
<1>2. IInv /\ DistinctInv /\ [Next]_vars => DistinctInv'
  BY DistinctStep
<1>3. DistinctInv => NoDuplicates
  BY DEF DistinctInv, Distinct, Names, NoDuplicates
<1> QED BY <1>1, <1>2, <1>3, InductiveInvariant, PTL DEF Spec
==============================================================================
