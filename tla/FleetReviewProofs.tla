-------------------------- MODULE FleetReviewProofs --------------------------
(***************************************************************************)
(* Proofs about FleetReview, for any files, arguments and prices: the      *)
(* review drives the checker as CheckConfiguration specifies it, and what  *)
(* the report is silent about has passed or is listed.                     *)
(***************************************************************************)
EXTENDS FleetReview, AnalyzeFleetProofs, CheckConfigurationProofs

-----------------------------------------------------------------------------
(* The checker within the review                                           *)

\* The review starts the checker on an inventory it can meet.
LEMMA ReviewStarts == Init => inventory \in Inventories /\ CheckInit
  BY ScenariosAssumption DEF Init, Inputs

\* Stage 3 reads the inventory and does not write it.
LEMMA AnalysisKeepsInventory == AnalyzeNext => UNCHANGED inventory
  BY DEF AnalyzeNext, RefuseInput, StartCluster, ShardMissing, ModelSucceeds, ModelRaises,
         ModelSkipped, ModelFails, KeepFindings, GeneratorRaises, FinishCluster,
         WriteAnalysis, WriteAnalysisFails, analysisInputs

\* Every step of the review is a step of the checker or does not touch it.
LEMMA ReviewStep ==
  [Next]_vars => [CheckNext /\ UNCHANGED inventory]_<<inventory, checkVars>>
  <1> SUFFICES ASSUME [Next]_vars
               PROVE  [CheckNext /\ UNCHANGED inventory]_<<inventory, checkVars>>
    OBVIOUS
  <1>1. CASE Analyze
    BY <1>1, AnalysisKeepsInventory DEF Analyze
  <1>2. CASE CheckConfig
    BY <1>2 DEF CheckConfig
  <1>3. CASE Reduce
    BY <1>3 DEF Reduce
  <1>4. CASE ReduceFails
    BY <1>4 DEF ReduceFails
  <1>5. CASE WriteNotes
    BY <1>5 DEF WriteNotes
  <1>6. CASE RenderReport
    BY <1>6 DEF RenderReport
  <1>7. CASE UNCHANGED vars
    BY <1>7 DEF vars
  <1>8. CASE Finished
    BY <1>8 DEF Finished, vars
  <1> QED
    BY <1>1, <1>2, <1>3, <1>4, <1>5, <1>6, <1>7, <1>8 DEF Next

\* run_review.py's stages and the agent leave Stage 3.5 to itself: whatever the
\* analysis, the notes and the render do, the review is a run of the checker, so
\* that what is proved of CheckSpec holds of every review.
THEOREM ReviewImplementsChecks == Spec => CheckSpec
  <1>1. Init => inventory \in Inventories /\ CheckInit
    BY ReviewStarts
  <1>2. [Next]_vars => [CheckNext /\ UNCHANGED inventory]_<<inventory, checkVars>>
    BY ReviewStep
  <1> QED
    BY <1>1, <1>2, PTL DEF Spec, CheckSpec

\* The review starts Stage 3 on files it can meet.
LEMMA ReviewStartsAnalysis ==
  Init => inventory \in Inventories /\ metricsFile \in MetricsFiles /\ AnalyzeInit
  BY ScenariosAssumption DEF Init, Inputs

\* Every step of the review is a step of Stage 3 or does not touch it.
LEMMA ReviewAnalysisStep == [Next]_vars => [AnalyzeNext]_<<inventory, analyzeVars>>
  BY Zenon DEF Next, Analyze, CheckConfig, Reduce, ReduceFails, WriteNotes, RenderReport, Finished,
               vars

\* Stage 3 is left to itself as well, so that what is proved of AnalyzeSpec holds
\* of every review.
THEOREM ReviewImplementsAnalysis == Spec => AnalyzeSpec
  BY ReviewStartsAnalysis, ReviewAnalysisStep, PTL DEF Spec, AnalyzeSpec

\* In a review no conclusion is lost either, although the checker, the reduction
\* and the render follow on the same files.
THEOREM ReviewKeepsConclusions == Spec => []AnalysisIsAccountedFor
  BY ReviewImplementsAnalysis, NoConclusionIsLost

\* The incidents of its reports are runs as well: whatever the checks, the reduction and
\* the agent do around it, every incident stays a maximal stretch.
THEOREM ReviewKeepsIncidents == Spec => []IncidentsAreRuns
  BY ReviewImplementsAnalysis, IncidentsReported

-----------------------------------------------------------------------------
(* The last record of a name                                               *)

\* The record a name stands for carries the name, and no later record does.
LEMMA LastRecord ==
  ASSUME NEW records \in Seq(Record), NEW id \in Named(records)
  PROVE  \E r \in 1..Len(records) :
           /\ LastRecordOf(records, id) = records[r] /\ records[r].cluster_id = id
           /\ \A s \in (r + 1)..Len(records) : records[s].cluster_id # id
  <1> DEFINE S == {i \in 1..Len(records) : records[i].cluster_id = id}
             IsLast(i) == /\ records[i].cluster_id = id
                          /\ \A j \in DOMAIN records : records[j].cluster_id = id => j <= i
  <1>1. DOMAIN records = 1..Len(records) /\ Len(records) \in Nat /\ S # {}
    BY DEF Named
  <1>2. PICK m \in S : \A k \in S : k <= m
    BY <1>1, LastExists
  <1>3. m \in DOMAIN records /\ IsLast(m)
    BY <1>1, <1>2
  <1>4. PICK r \in DOMAIN records : IsLast(r) /\ LastRecordOf(records, id) = records[r]
    BY <1>3 DEF LastRecordOf
  <1> QED
    BY <1>1, <1>4

-----------------------------------------------------------------------------
(* config_findings.json holds the result of the last record of every name  *)

\* ResultsMatchRecords, of the file.
FileMatches(r) ==
  \/ inventory[r].cluster_id = Absent
  \/ \E s \in (r + 1)..Len(inventory) : inventory[s].cluster_id = inventory[r].cluster_id
  \/ /\ inventory[r].cluster_id \in DOMAIN findingsFile.clusters
     /\ IsResultOf(findingsFile.clusters[inventory[r].cluster_id], inventory[r])
FileInv ==
  /\ RecordsInv
  /\ findingsFile # Absent =>
       inventory \notin BadFiles /\ \A r \in 1..Len(inventory) : FileMatches(r)

\* When the checker writes its file every record has been evaluated.
LEMMA FileWritten ==
  ASSUME FileInv, WriteFindings, UNCHANGED inventory, RecordsInv'
  PROVE  FileInv'
  <1>1. inventory \in Seq(Record) /\ inventory \notin BadFiles /\ record = Len(inventory) + 1
    BY InventoriesAssumption
    DEF FileInv, RecordsInv, UnderCheck, WriteFindings, AllKept, CheckTypeOK
  <1>2. findingsFile'.clusters = results /\ policy' = policy
    BY DEF WriteFindings
  <1>3. ASSUME NEW r \in 1..Len(inventory)
        PROVE  FileMatches(r)'
    <2>1. RecordMatches(r)
      BY <1>1, MatchesEach DEF FileInv, RecordsInv
    <2>2. SkippedOf(inventory[r])' = SkippedOf(inventory[r])
          /\ FailedOf(inventory[r])' = FailedOf(inventory[r])
      BY <1>2, SameDemand
    <2> QED
      BY <1>1, <1>2, <2>1, <2>2 DEF RecordMatches, FileMatches, IsResultOf
  <1> QED
    BY <1>1, <1>3 DEF FileInv, BadFiles

\* A file stays true to its records while neither changes.
LEMMA FileSame ==
  ASSUME FileInv, UNCHANGED <<inventory, policy, findingsFile>>, RecordsInv'
  PROVE  FileInv'
  <1>1. ASSUME findingsFile # Absent, NEW r \in 1..Len(inventory)
        PROVE  FileMatches(r)'
    <2>1. SkippedOf(inventory[r])' = SkippedOf(inventory[r])
          /\ FailedOf(inventory[r])' = FailedOf(inventory[r])
      BY SameDemand
    <2> QED
      BY <1>1, <2>1 DEF FileInv, FileMatches, IsResultOf
  <1> QED
    BY <1>1 DEF FileInv, BadFiles

\* No step of the checker writes a file that is not true to its records.
LEMMA FileStep ==
  ASSUME FileInv, [CheckNext /\ UNCHANGED inventory]_<<inventory, checkVars>>
  PROVE  FileInv'
  <1>1. RecordsInv'
    BY RecordsStep DEF FileInv
  <1>2. ASSUME UNCHANGED <<inventory, policy, findingsFile>>
        PROVE  FileInv'
    BY <1>1, <1>2, FileSame
  <1>3. CASE UNCHANGED <<inventory, checkVars>>
    BY <1>2, <1>3 DEF checkVars
  <1>4. ASSUME RejectInput \/ SkipUnnamed \/ KeepResult \/ WriteFindingsFails, UNCHANGED inventory
        PROVE  FileInv'
    BY <1>2, <1>4 DEF RejectInput, SkipUnnamed, KeepResult, WriteFindingsFails
  <1>5. ASSUME NEW k \in 1..16, ListSkipped(k) \/ CheckPasses(k) \/ CheckFails(k),
               UNCHANGED inventory
        PROVE  FileInv'
    BY <1>2, <1>5 DEF ListSkipped, CheckPasses, CheckFails
  <1>6. CASE CheckNext /\ UNCHANGED inventory
    BY <1>1, <1>4, <1>5, <1>6, FileWritten, StepCases, Zenon
  <1> QED
    BY <1>3, <1>6

-----------------------------------------------------------------------------
(* The report is rendered last, and from these files                       *)

RenderedInv ==
  report # Absent =>
    /\ stage = "done"
    /\ DOMAIN report.rows = InventoryIds
    /\ report.config = ConfigCoverage
    /\ report.findings = IF notes = Absent THEN ListedFindings
                         ELSE {Annotated(f) : f \in ListedFindings}

\* What the report is made of changes only with its files.
LEMMA SamePayload ==
  ASSUME UNCHANGED <<inventory, analysisFile, findingsFile, notes>>
  PROVE  /\ InventoryIds' = InventoryIds /\ ConfigCoverage' = ConfigCoverage
         /\ ListedFindings' = ListedFindings /\ \A f : Annotated(f)' = Annotated(f)
  <1>1. InventoryIds' = InventoryIds /\ CheckedIds' = CheckedIds
    BY DEF InventoryIds, Records, BadFiles, Named, CheckedIds
  <1>2. ConfigCoverage' = ConfigCoverage
    BY <1>1 DEF ConfigCoverage
  <1>3. \A id : ConfigFindings(id)' = ConfigFindings(id)
    BY <1>1 DEF ConfigFindings
  <1>4. \A id : AnalysisFindings(id)' = AnalysisFindings(id)
    BY DEF AnalysisFindings, AnalysisOf
  <1>5. ListedFindings' = ListedFindings
    BY <1>1, <1>3, <1>4 DEF ListedFindings
  <1>6. \A f : Annotated(f)' = Annotated(f)
    BY DEF Annotated
  <1> QED
    BY <1>1, <1>2, <1>5, <1>6

\* Nothing a report was made of changes after it is there.
LEMMA RenderedStep ==
  ASSUME RenderedInv, [Next]_vars
  PROVE  RenderedInv'
  <1>1. CASE UNCHANGED vars
    BY <1>1, SamePayload DEF vars, RenderedInv, analyzeVars, checkVars, reportVars
  <1>2. CASE Finished
    BY <1>1, <1>2 DEF Finished
  <1>3. CASE RenderReport
    <2>1. report = Absent /\ stage' = "done" /\ UNCHANGED <<inventory, analysisFile, findingsFile>>
      BY <1>3 DEF RenderReport, RenderedInv, analyzeVars, checkVars
    <2>2. CASE Render
      <3>1. UNCHANGED notes /\ report' = BuildPayload(ListedFindings)
        BY <2>2 DEF Render
      <3>2. /\ DOMAIN report'.rows = InventoryIds
            /\ report'.config = ConfigCoverage
            /\ report'.findings = IF notes = Absent THEN ListedFindings
                                  ELSE {Annotated(f) : f \in ListedFindings}
        BY <3>1 DEF BuildPayload
      <3> QED
        BY <2>1, <3>1, <3>2, SamePayload DEF RenderedInv
    <2>3. CASE RenderRefused \/ RenderRejectsNotes \/ RenderFails
      BY <2>1, <2>3 DEF RenderRefused, RenderRejectsNotes, RenderFails, RenderedInv
    <2> QED
      BY <1>3, <2>2, <2>3 DEF RenderReport
  <1>4. CASE Analyze \/ CheckConfig \/ Reduce \/ ReduceFails \/ WriteNotes
    BY <1>4 DEF Analyze, CheckConfig, Reduce, ReduceFails, WriteNotes, EmitReportData, reportVars,
                RenderedInv
  <1> QED
    BY <1>1, <1>2, <1>3, <1>4 DEF Next

-----------------------------------------------------------------------------
(* Silence                                                                 *)

\* The findings of the checker that a report shows are those of the file, noted
\* or not.
LEMMA ShownChecks ==
  ASSUME NEW id, NEW k \in 1..16,
         report.findings = IF notes = Absent THEN ListedFindings
                           ELSE {Annotated(f) : f \in ListedFindings}
  PROVE  ReportsCheck(id, k) <=>
           /\ id \in CheckedIds
           /\ Checks[k].id \in {findingsFile.clusters[id].findings[i].check :
                                  i \in DOMAIN findingsFile.clusters[id].findings}
  <1> DEFINE shownOf(x) == {ShownConfig(x, f) : f \in ConfigFindings(x)}
             analysed == UNION {{ShownAnalysis(x, f) : f \in AnalysisFindings(x)} :
                                  x \in DOMAIN analysisFile}
  <1>1. ListedFindings = analysed \cup UNION {shownOf(x) : x \in CheckedIds}
    BY DEF ListedFindings
  <1>2. \A f \in analysed : f.check = "none" /\ \E x, g : f = ShownAnalysis(x, g)
    BY DEF ShownAnalysis
  <1>3. \A f \in ListedFindings : Annotated(f).cluster = f.cluster /\ Annotated(f).check = f.check
    <2>1. ASSUME NEW x, NEW g
          PROVE  /\ Annotated(ShownAnalysis(x, g)).cluster = ShownAnalysis(x, g).cluster
                 /\ Annotated(ShownAnalysis(x, g)).check = ShownAnalysis(x, g).check
                 /\ Annotated(ShownConfig(x, g)).cluster = ShownConfig(x, g).cluster
                 /\ Annotated(ShownConfig(x, g)).check = ShownConfig(x, g).check
      BY DEF ShownAnalysis, ShownConfig, Annotated
    <2>2. \A f \in ListedFindings : \E x, g : f = ShownAnalysis(x, g) \/ f = ShownConfig(x, g)
      BY <1>1, <1>2
    <2> QED
      BY <2>1, <2>2
  <1>4. ReportsCheck(id, k) <=> \E f \in ListedFindings : f.cluster = id /\ f.check = Checks[k].id
    BY <1>3 DEF ReportsCheck
  <1>5. Checks[k].id # "none"
    BY Registry DEF Checks, Check
  <1>6. \A x \in CheckedIds : ConfigFindings(x) = Range(findingsFile.clusters[x].findings)
    BY DEF ConfigFindings
  <1>7. (\E f \in ListedFindings : f.cluster = id /\ f.check = Checks[k].id) <=>
          /\ id \in CheckedIds
          /\ \E f \in Range(findingsFile.clusters[id].findings) : f.check = Checks[k].id
    <2>1. \A x, g : ShownConfig(x, g).cluster = x /\ ShownConfig(x, g).check = g.check
      BY DEF ShownConfig
    <2> HIDE DEF analysed
    <2> QED
      BY <1>1, <1>2, <1>5, <1>6, <2>1
  <1> QED
    BY <1>4, <1>7 DEF Range

\* What a report does not show of a record is listed as skipped or has passed.
LEMMA SkippedShown ==
  ASSUME FileInv, findingsFile # Absent, NEW id \in InventoryIds, NEW k \in 1..16,
         report.config = ConfigCoverage
  PROVE  /\ id \in CheckedIds
         /\ IsResultOf(findingsFile.clusters[id], LastRecordOf(Records, id))
         /\ NotChecked(id, k) <=> Checks[k].id \in SkippedOf(LastRecordOf(Records, id))
  <1>1. inventory \in Seq(Record) /\ Records = inventory
    BY InventoriesAssumption DEF FileInv, RecordsInv, Records
  <1>2. PICK r \in 1..Len(inventory) :
          /\ LastRecordOf(inventory, id) = inventory[r] /\ inventory[r].cluster_id = id
          /\ \A s \in (r + 1)..Len(inventory) : inventory[s].cluster_id # id
    BY <1>1, LastRecord DEF InventoryIds
  <1>3. id # Absent
    BY DEF InventoryIds, Named
  <1>4. id \in CheckedIds /\ IsResultOf(findingsFile.clusters[id], LastRecordOf(Records, id))
    BY <1>1, <1>2, <1>3 DEF FileInv, FileMatches, CheckedIds
  <1>5. ResultsType(findingsFile.clusters)
    BY DEF FileInv, RecordsInv, CheckTypeOK
  <1>6. report.config # Absent
    <2> DEFINE skips == UNION {{<<check_id, x>> : check_id \in findingsFile.clusters[x].skipped} :
                                 x \in CheckedIds}
    <2>1. report.config = [skipped |-> skips, unchecked |-> InventoryIds \ CheckedIds]
      BY DEF ConfigCoverage
    <2>2. skips \subseteq CheckIds \X Ids
      BY <1>5 DEF ResultsType, Result, CheckedIds
    <2>3. InventoryIds \subseteq Ids
      <3>1. \A i \in DOMAIN inventory : inventory[i].cluster_id \in Ids \cup {Absent}
        <4>1. ASSUME NEW i \in DOMAIN inventory
              PROVE  inventory[i].cluster_id \in Ids \cup {Absent}
          <5>1. inventory[i] \in Record
            BY <1>1, <4>1
          <5> QED
            BY <5>1 DEF Record
        <4> QED
          BY <4>1
      <3> QED
        BY <1>1, <3>1 DEF InventoryIds, Named
    <2> HIDE DEF skips
    <2> QED
      BY <2>1, <2>2, <2>3, CoverageAssumption
  <1>7. id \notin report.config.unchecked
    BY <1>4 DEF ConfigCoverage
  <1>8. <<Checks[k].id, id>> \in report.config.skipped
          <=> Checks[k].id \in findingsFile.clusters[id].skipped
    BY <1>4 DEF ConfigCoverage
  <1> QED
    BY <1>4, <1>6, <1>7, <1>8 DEF NotChecked, IsResultOf

\* check_cluster's "so 'did not apply' never reads as 'passed'", from the record
\* to the report and for every inventory, policy and date.
THEOREM SilenceIsPassing == Spec => []SilenceMeansPassed
  <1> DEFINE Inv == FileInv /\ RenderedInv
  <1>1. Init => Inv
    <2>1. Init => findingsFile = Absent /\ report = Absent
      BY DEF Init, CheckInit, ReportInit
    <2> QED
      BY <2>1, ReviewStarts, RecordsInit DEF FileInv, RenderedInv
  <1>2. Inv /\ [Next]_vars => Inv'
    BY ReviewStep, FileStep, RenderedStep
  <1>3. Inv => SilenceMeansPassed
    <2> SUFFICES ASSUME FileInv, RenderedInv, report # Absent, NEW id \in DOMAIN report.rows,
                        NEW k \in DOMAIN Checks
                 PROVE  LET c == LastRecordOf(Records, id)
                        IN IF ReportsCheck(id, k)
                           THEN Fails(c)[Checks[k].id] /\ ~NotChecked(id, k)
                           ELSE NotChecked(id, k) \/ Passes(c, k)
      BY DEF SilenceMeansPassed
    <2> DEFINE c == LastRecordOf(Records, id)
    <2>1. k \in 1..16 /\ Checks[k].id \in CheckIds /\ id \in InventoryIds
      BY Registry DEF RenderedInv
    <2>2. ReportsCheck(id, k) <=>
             /\ id \in CheckedIds
             /\ Checks[k].id \in {findingsFile.clusters[id].findings[i].check :
                                    i \in DOMAIN findingsFile.clusters[id].findings}
      BY <2>1, ShownChecks DEF RenderedInv
    <2>3. CASE findingsFile = Absent
      BY <2>2, <2>3 DEF RenderedInv, CheckedIds, ConfigCoverage, NotChecked
    <2>4. CASE findingsFile # Absent
      <3>1. /\ id \in CheckedIds /\ IsResultOf(findingsFile.clusters[id], c)
            /\ NotChecked(id, k) <=> Checks[k].id \in SkippedOf(c)
        BY <2>1, <2>4, SkippedShown DEF RenderedInv
      <3>2. ReportsCheck(id, k) <=> Checks[k].id \in FailedOf(c)
        BY <2>2, <3>1 DEF IsResultOf
      <3>3. Checks[k].id \notin SkippedOf(c) =>
              /\ c.cluster_type \in Checks[k].types
              /\ ~ReadsMalformed(c, Checks[k].id) /\ ~AsksToSkip(c, Checks[k].id)
        BY DEF SkippedOf, Skips
      <3>4. Checks[k].id \in FailedOf(c) <=>
              Checks[k].id \notin SkippedOf(c) /\ Fails(c)[Checks[k].id]
        BY <2>1 DEF FailedOf
      <3> HIDE DEF c
      <3>5. IF ReportsCheck(id, k)
            THEN Fails(c)[Checks[k].id] /\ ~NotChecked(id, k)
            ELSE NotChecked(id, k) \/ Passes(c, k)
        BY <3>1, <3>2, <3>3, <3>4 DEF Passes
      <3> QED
        BY <3>5 DEF c
    <2> QED
      BY <2>3, <2>4
  <1> QED
    BY <1>1, <1>2, <1>3, PTL DEF Spec

-----------------------------------------------------------------------------
(* Every step is progress                                                  *)

ProgressInv == RecordsInv /\ AnalysisBounds

\* The checker is at a check of a record, or behind the last one.
LEMMA CheckBounds ==
  ASSUME RecordsInv
  PROVE  /\ record \in 1..(Len(Records) + 1) /\ check \in 1..17 /\ Len(Records) \in Nat
         /\ Records = IF inventory \in BadFiles THEN <<>> ELSE inventory
         /\ ChecksLeft \in Nat \ {0}
  <1>1. Len(Records) \in Nat
    BY InventoriesAssumption DEF RecordsInv, Records
  <1>2. check \in 1..17
    BY Registry DEF RecordsInv, CheckTypeOK
  <1>3. record \in 1..(Len(Records) + 1)
    BY <1>1 DEF RecordsInv, CheckTypeOK, UnderCheck, Records
  <1> QED
    BY <1>1, <1>2, <1>3 DEF Records, ChecksLeft

\* What is left for the checker is counted from one up.
LEMMA ChecksRemain == RecordsInv => ChecksLeft \in Nat \ {0}
  BY CheckBounds

\* The checker's own steps: one check or one record less.
LEMMA ChecksShrink ==
  ASSUME RecordsInv, CheckNext, UNCHANGED inventory, RecordsInv'
  PROVE  \/ checkExit' \in {0, 1} /\ ChecksLeft' = ChecksLeft
         \/ checkExit' = -1 /\ ChecksLeft' < ChecksLeft
  <1>1. /\ record \in Nat /\ check \in 1..17 /\ Len(Records) \in Nat /\ Records' = Records
        /\ check' \in 1..17
    <2>1. check' \in 1..17
      BY Registry DEF RecordsInv, CheckTypeOK
    <2> QED
      BY <2>1, CheckBounds DEF Records, BadFiles
  <1>2. ASSUME RejectInput \/ WriteFindings \/ WriteFindingsFails
        PROVE  checkExit' \in {0, 1} /\ ChecksLeft' = ChecksLeft
    BY <1>1, <1>2 DEF RejectInput, WriteFindings, WriteFindingsFails, ChecksLeft
  <1>3. ASSUME SkipUnnamed \/ KeepResult
        PROVE  checkExit' = -1 /\ ChecksLeft' < ChecksLeft
    <2>1. checkExit' = -1 /\ record' = record + 1
      BY <1>3 DEF SkipUnnamed, KeepResult, Evaluating, Checking
    <2> QED
      BY <1>1, <2>1 DEF ChecksLeft
  <1>4. ASSUME NEW k \in 1..16, ListSkipped(k) \/ CheckPasses(k) \/ CheckFails(k), Checking
        PROVE  checkExit' = -1 /\ ChecksLeft' < ChecksLeft
    <2>1. checkExit' = -1 /\ record' = record /\ check' = check + 1
      BY <1>4 DEF ListSkipped, CheckPasses, CheckFails, Checking
    <2> QED
      BY <1>1, <2>1 DEF ChecksLeft
  <1>5. \A k : AtCheck(k) \/ CheckPasses(k) \/ CheckFails(k) => Checking
    BY DEF AtCheck, Evaluating, CheckPasses, CheckFails, Decided
  <1> QED
    BY <1>2, <1>3, <1>4, <1>5, StepCases, Zenon

\* The analysis' own steps: one cluster or one model less.
LEMMA AnalysisShrinks ==
  ASSUME AnalysisBounds, AnalysisLess, AnalysisBounds'
  PROVE  AnalysisLeft' < AnalysisLeft
  <1>1. Cardinality(pending) \in Nat /\ Cardinality(pending') \in Nat
        /\ position \in 1..11 /\ position' \in 1..11
    BY FS_CardinalityType DEF AnalysisBounds
  <1>2. ASSUME NEW id \in pending, pending' = pending \ {id}
        PROVE  Cardinality(pending') = Cardinality(pending) - 1
    BY <1>2, FS_RemoveElement DEF AnalysisBounds
  <1> QED
    BY <1>1, <1>2 DEF AnalysisLess, AnalysisLeft

\* What is left of the analysis is counted.
LEMMA LeftOver == AnalysisBounds => AnalysisLeft \in Nat
  BY FS_CardinalityType DEF AnalysisBounds, AnalysisLeft

\* What is left is counted from the start,
LEMMA ProgressInit == Init => ProgressInv
  BY ReviewStartsAnalysis, ReviewStarts, RecordsInit, BoundsInit DEF ProgressInv

\* and by every step.
LEMMA ProgressStep ==
  ASSUME ProgressInv, Next, RecordsInv'
  PROVE  UNCHANGED vars \/ (AnalysisBounds' /\ Remaining' \in 0..(Remaining - 1))
  <1>1. CASE Finished
    BY <1>1 DEF Finished
  <1>2. ChecksLeft \in Nat \ {0} /\ ChecksLeft' \in Nat \ {0} /\ AnalysisLeft \in Nat
    <2>1. RecordsInv' => (ChecksLeft \in Nat \ {0})'
      BY ChecksRemain, PTL
    <2> QED
      BY <2>1, ChecksRemain, LeftOver DEF ProgressInv
  <1>3. AnalysisBounds /\ (AnalysisBounds' => AnalysisLeft' \in Nat)
    <2>1. AnalysisBounds' => (AnalysisLeft \in Nat)'
      BY LeftOver, PTL
    <2> QED
      BY <2>1 DEF ProgressInv
  <1>4. CASE Analyze
    <2>1. ChecksLeft' = ChecksLeft
      BY <1>4, AnalysisKeepsInventory DEF Analyze, checkVars, ChecksLeft, Records, BadFiles
    <2>2. \/ analyzeExit' \in {0, 1} /\ UNCHANGED <<pending, cluster, position>>
          \/ analyzeExit' = -1 /\ AnalysisLess /\ AnalysisBounds'
      BY <1>3, <1>4, AnalysisSteps DEF Analyze
    <2>3. AnalysisBounds' /\ stage = "analyze"
      BY <1>3, <1>4, <2>2 DEF AnalysisBounds, Analyze
    <2>4. CASE analyzeExit' \in {0, 1}
      <3>1. stage' = "check"
        BY <1>4, <2>4 DEF Analyze, AfterStage
      <3> QED
        BY <1>2, <2>1, <2>3, <3>1 DEF Remaining
    <2>5. CASE analyzeExit' = -1
      <3>1. stage' = "analyze"
        BY <1>4, <2>5 DEF Analyze, AfterStage
      <3>2. AnalysisLeft' < AnalysisLeft
        BY <1>3, <2>2, <2>3, <2>5, AnalysisShrinks
      <3>3. AnalysisLeft' \in Nat
        BY <1>3, <2>3
      <3> QED
        BY <1>2, <2>1, <2>3, <3>1, <3>2, <3>3 DEF Remaining
    <2> QED
      BY <2>2, <2>4, <2>5
  <1>5. ASSUME CheckConfig \/ Reduce \/ ReduceFails \/ WriteNotes \/ RenderReport
        PROVE  AnalysisBounds'
    BY <1>3, <1>5 DEF CheckConfig, Reduce, ReduceFails, WriteNotes, RenderReport, analyzeVars,
                     AnalysisBounds
  <1>6. CASE CheckConfig
    <2>1. \/ checkExit' \in {0, 1} /\ ChecksLeft' = ChecksLeft
          \/ checkExit' = -1 /\ ChecksLeft' < ChecksLeft
      BY <1>6, ChecksShrink DEF CheckConfig, ProgressInv
    <2>2. stage = "check" /\ stage' = IF checkExit' = 0 THEN "reduce"
                                      ELSE IF checkExit' = -1 THEN "check" ELSE "notes"
      BY <1>6 DEF CheckConfig, AfterStage
    <2>3. Remaining' \in 0..(Remaining - 1)
      BY <1>2, <2>1, <2>2 DEF Remaining
    <2> QED
      BY <1>5, <1>6, <2>3
  <1>7. CASE Reduce \/ ReduceFails \/ WriteNotes \/ RenderReport
    <2>1. \/ stage = "reduce" /\ stage' = "notes"
          \/ stage = "notes" /\ stage' = "render"
          \/ stage = "render" /\ stage' = "done"
      BY <1>7 DEF Reduce, ReduceFails, WriteNotes, RenderReport
    <2>2. Remaining' \in 0..(Remaining - 1)
      BY <2>1 DEF Remaining
    <2> QED
      BY <1>5, <1>7, <2>2
  <1> QED
    BY <1>1, <1>4, <1>6, <1>7 DEF Next

\* No step of a review, whatever raises and whichever file is broken, leaves as
\* much to do as before: with any number of clusters a review comes to an end.
THEOREM ReviewsEnd == Spec => EveryStepIsProgress
  <1>1. ProgressInv /\ [Next]_vars => ProgressInv' /\ [Remaining' \in 0..(Remaining - 1)]_vars
    <2> SUFFICES ASSUME ProgressInv, [Next]_vars
                 PROVE  ProgressInv' /\ [Remaining' \in 0..(Remaining - 1)]_vars
      OBVIOUS
    <2>1. RecordsInv'
      BY ReviewStep, RecordsStep DEF ProgressInv
    <2>2. CASE UNCHANGED vars
      BY <2>1, <2>2 DEF ProgressInv, AnalysisBounds, vars, analyzeVars
    <2>3. CASE Next
      BY <2>1, <2>2, <2>3, ProgressStep DEF ProgressInv
    <2> QED
      BY <2>2, <2>3
  <1> QED
    BY <1>1, ProgressInit, PTL DEF Spec, EveryStepIsProgress

-----------------------------------------------------------------------------
(* What recurs across the fleet is answered                                *)

\* The checker keeps results of finitely many clusters.
ResultsFinite ==
  /\ RecordsInv /\ IsFiniteSet(DOMAIN results)
  /\ findingsFile # Absent => IsFiniteSet(DOMAIN findingsFile.clusters)

\* Every step of the checker keeps it so.
LEMMA ResultsFiniteStep ==
  ASSUME ResultsFinite, [CheckNext /\ UNCHANGED inventory]_<<inventory, checkVars>>
  PROVE  ResultsFinite'
  <1>1. RecordsInv'
    BY RecordsStep DEF ResultsFinite
  <1>2. CASE UNCHANGED <<results, findingsFile>>
    BY <1>1, <1>2 DEF ResultsFinite
  <1>3. CASE KeepResult
    <2>1. /\ DOMAIN results' = DOMAIN results \cup {Cluster.cluster_id}
          /\ findingsFile' = findingsFile
      BY <1>3 DEF KeepResult
    <2> QED
      BY <1>1, <2>1, FS_AddElement DEF ResultsFinite
  <1>4. CASE WriteFindings
    <2>1. results' = results /\ findingsFile'.clusters = results
      BY <1>4 DEF WriteFindings
    <2> QED
      BY <1>1, <2>1 DEF ResultsFinite
  <1>5. CASE UNCHANGED <<inventory, checkVars>>
    BY <1>2, <1>5 DEF checkVars
  <1>6. CASE RejectInput \/ SkipUnnamed \/ WriteFindingsFails
    BY <1>2, <1>6 DEF RejectInput, SkipUnnamed, WriteFindingsFails
  <1>7. ASSUME NEW k \in 1..16, ListSkipped(k) \/ CheckPasses(k) \/ CheckFails(k)
        PROVE  ResultsFinite'
    BY <1>2, <1>7 DEF ListSkipped, CheckPasses, CheckFails
  <1> QED
    BY <1>3, <1>4, <1>5, <1>6, <1>7, StepCases, Zenon

\* The clusters of the inventory, of the analysis and of the checks are finitely
\* many, and so are the findings listed for them.
LEMMA ReportFinite ==
  ASSUME inventory \in Inventories, FindingsListed(analysisFile), ResultsFinite
  PROVE  /\ IsFiniteSet(InventoryIds) /\ IsFiniteSet(ListedFindings)
         /\ IsFiniteSet(DOMAIN analysisFile \cup CheckedIds)
  <1>1. IsFiniteSet(InventoryIds)
    <2> DEFINE n == Len(Records)
               ids == [i \in 1..n |-> Records[i].cluster_id]
    <2>1. n \in Nat /\ DOMAIN Records = 1..n
      BY InventoriesAssumption DEF Records
    <2> HIDE DEF n
    <2>2. InventoryIds \in SUBSET {ids[i] : i \in 1..n}
      BY <2>1 DEF InventoryIds, Named
    <2> HIDE DEF ids
    <2>3. IsFiniteSet({ids[i] : i \in 1..n})
      BY <2>1, PositionsCounted, ImageFinite
    <2> QED
      BY <2>2, <2>3, FS_Subset
  <1>2. IsFiniteSet(CheckedIds)
    BY FS_EmptySet DEF CheckedIds, ResultsFinite
  <1>3. IsFiniteSet(DOMAIN analysisFile)
    BY DEF FindingsListed
  <1>4. \A id \in DOMAIN analysisFile :
          IsFiniteSet({ShownAnalysis(id, f) : f \in AnalysisFindings(id)})
    <2> TAKE id \in DOMAIN analysisFile
    <2> DEFINE list == analysisFile[id].findings
               shown == [i \in DOMAIN list |-> ShownAnalysis(id, list[i])]
               set == {ShownAnalysis(id, f) : f \in AnalysisFindings(id)}
    <2>1. PICK n \in Nat : DOMAIN list = 1..n
      BY DEF FindingsListed, Ranked
    <2>2. set \in SUBSET {shown[i] : i \in 1..n}
      <3>1. AnalysisFindings(id) \subseteq {list[i] : i \in 1..n}
        BY <2>1 DEF AnalysisFindings, AnalysisOf, Range
      <3> QED
        BY <2>1, <3>1
    <2> HIDE DEF shown, set
    <2>3. IsFiniteSet({shown[i] : i \in 1..n})
      BY PositionsCounted, ImageFinite
    <2>4. IsFiniteSet(set)
      BY <2>2, <2>3, FS_Subset
    <2> QED
      BY <2>4 DEF set
  <1>5. \A id \in CheckedIds : IsFiniteSet({ShownConfig(id, f) : f \in ConfigFindings(id)})
    <2> TAKE id \in CheckedIds
    <2> DEFINE list == findingsFile.clusters[id].findings
               shown == [i \in DOMAIN list |-> ShownConfig(id, list[i])]
               set == {ShownConfig(id, f) : f \in ConfigFindings(id)}
    <2>1. PICK n \in Nat : DOMAIN list = 1..n
      <3>1. findingsFile # Absent /\ id \in DOMAIN findingsFile.clusters
        BY DEF CheckedIds
      <3>2. findingsFile.clusters[id] \in Result
        BY <3>1 DEF ResultsFinite, RecordsInv, CheckTypeOK, ResultsType
      <3>3. list \in Seq(Finding)
        BY <3>2 DEF Result
      <3> QED
        BY <3>3
    <2>2. set \in SUBSET {shown[i] : i \in 1..n}
      <3>1. ConfigFindings(id) = {list[i] : i \in 1..n}
        BY <2>1 DEF ConfigFindings, Range
      <3> QED
        BY <2>1, <3>1
    <2> HIDE DEF shown, set
    <2>3. IsFiniteSet({shown[i] : i \in 1..n})
      BY PositionsCounted, ImageFinite
    <2>4. IsFiniteSet(set)
      BY <2>2, <2>3, FS_Subset
    <2> QED
      BY <2>4 DEF set
  <1> DEFINE analysed == [id \in DOMAIN analysisFile |->
                            {ShownAnalysis(id, f) : f \in AnalysisFindings(id)}]
             checked == [id \in CheckedIds |-> {ShownConfig(id, f) : f \in ConfigFindings(id)}]
             parts == {analysed[id] : id \in DOMAIN analysisFile}
                        \cup {checked[id] : id \in CheckedIds}
  <1>6. ListedFindings = UNION parts
    BY DEF ListedFindings
  <1>7. \A part \in parts : IsFiniteSet(part)
    BY <1>4, <1>5
  <1> HIDE DEF analysed, checked
  <1>8. IsFiniteSet(parts)
    <2>1. IsFiniteSet({analysed[id] : id \in DOMAIN analysisFile})
      BY <1>3, ImageFinite
    <2>2. IsFiniteSet({checked[id] : id \in CheckedIds})
      BY <1>2, ImageFinite
    <2> QED
      BY <2>1, <2>2, FS_Union
  <1> HIDE DEF parts
  <1>9. IsFiniteSet(ListedFindings)
    BY <1>6, <1>7, <1>8, FS_UNION
  <1>10. IsFiniteSet(DOMAIN analysisFile \cup CheckedIds)
    BY <1>2, <1>3, FS_Union
  <1> QED
    BY <1>1, <1>9, <1>10

\* The agent's notes are lists, whichever patterns it answers.
IsNoteList(list) == list \in Seq(Range(list))

\* Whatever the agent writes, its notes are a list.
LEMMA NotesListed ==
  ASSUME IsFiniteSet(ListedFindings), NEW written \in NotesChoices, written # Absent
  PROVE  IsNoteList(written.findings)
  <1>1. IsFiniteSet(Patterns)
    <2> DEFINE keyOf == [f \in ListedFindings |-> f.key]
    <2>1. Patterns \in SUBSET {keyOf[f] : f \in ListedFindings}
      BY DEF Patterns, FleetWidePatterns
    <2> HIDE DEF keyOf
    <2>2. IsFiniteSet({keyOf[f] : f \in ListedFindings})
      BY ImageFinite
    <2> QED
      BY <2>1, <2>2, FS_Subset
  <1>2. ASSUME NEW keys \in SUBSET Patterns
        PROVE  IsNoteList(Answers(keys)) /\ IsNoteList(BareVerdicts(keys))
    <2> DEFINE n == Cardinality(keys)
               order == SetToSeq(keys)
    <2>1. IsFiniteSet(keys)
      BY <1>1, FS_Subset
    <2>2. n \in Nat /\ DOMAIN order = 1..n
      BY <2>1, SetListed
    <2>3. Answers(keys) = [i \in DOMAIN order |-> Note(AnswerTo(order[i]), TRUE, TRUE)]
      BY DEF Answers, Listed
    <2>4. BareVerdicts(keys) = [i \in DOMAIN order |-> Note(AnswerTo(order[i]), FALSE, TRUE)]
      BY DEF BareVerdicts, Listed
    <2> HIDE DEF n, order
    <2>5. Answers(keys) = [i \in 1..n |-> Answers(keys)[i]]
      BY <2>2, <2>3
    <2>6. BareVerdicts(keys) = [i \in 1..n |-> BareVerdicts(keys)[i]]
      BY <2>2, <2>4
    <2> QED
      BY <2>2, <2>5, <2>6, IsSequence DEF IsNoteList
  <1>3. \A list, note : IsNoteList(list) => IsNoteList(list \o <<note>>)
    <2> SUFFICES ASSUME NEW list, NEW note, IsNoteList(list)
                 PROVE  IsNoteList(list \o <<note>>)
      OBVIOUS
    <2>1. <<note>> \in Seq(Range(<<note>>))
      BY DEF Range
    <2> QED
      BY <2>1, EntriesJoined DEF IsNoteList
  <1>4. \A assessment, list : NotesWith(assessment, list).findings = list
    BY DEF NotesWith
  <1>5. \/ \E keys \in SUBSET Patterns : \E assessment :
             \/ written = NotesWith(assessment, Answers(keys))
             \/ written = NotesWith(assessment, BareVerdicts(keys))
        \/ \E assessment, note : written = NotesWith(assessment, Answers(Patterns) \o <<note>>)
    BY Zenon DEF NotesChoices
  <1>6. ASSUME NEW keys \in SUBSET Patterns, NEW assessment,
               \/ written = NotesWith(assessment, Answers(keys))
               \/ written = NotesWith(assessment, BareVerdicts(keys))
        PROVE  IsNoteList(written.findings)
    <2>1. written.findings \in {Answers(keys), BareVerdicts(keys)}
      BY <1>4, <1>6
    <2> QED
      BY <1>2, <2>1
  <1>7. ASSUME NEW assessment, NEW note,
               written = NotesWith(assessment, Answers(Patterns) \o <<note>>)
        PROVE  IsNoteList(written.findings)
    <2>1. written.findings = Answers(Patterns) \o <<note>>
      BY <1>4, <1>7, Zenon
    <2>2. IsNoteList(Answers(Patterns))
      BY <1>2
    <2> QED
      BY <1>3, <2>1, <2>2, Zenon
  <1> QED
    BY <1>5, <1>6, <1>7, Zenon

\* A report is rendered from an analysis, and its notes have passed the gates.
GatesPassed ==
  /\ AnalysisWritten /\ ResultsFinite /\ RenderedInv
  /\ notes # Absent => IsNoteList(notes.findings)
  /\ report # Absent => analysisFile # Absent /\ NotesPassGates(ListedFindings)

\* The gates read the files and the notes alone.
LEMMA SameGates ==
  ASSUME UNCHANGED <<inventory, analysisFile, findingsFile, notes>>
  PROVE  NotesPassGates(ListedFindings)' <=> NotesPassGates(ListedFindings)
  <1>1. InventoryIds' = InventoryIds /\ ListedFindings' = ListedFindings
    BY SamePayload
  <1>2. \A findings, n : /\ NotesVerified(findings)' <=> NotesVerified(findings)
                         /\ CoverageVerified(findings, n)' <=> CoverageVerified(findings, n)
    BY DEF NotesVerified, CoverageVerified, NotedIds, Reasoned, HasProse, Addressed
  <1> QED
    BY <1>1, <1>2 DEF NotesPassGates

\* No report is rendered around the gates.
LEMMA GatesStep ==
  ASSUME GatesPassed, [Next]_vars
  PROVE  GatesPassed'
  <1>1. AnalysisWritten'
    BY ReviewAnalysisStep, AnalysisWrittenNext DEF GatesPassed
  <1>2. ResultsFinite'
    BY ReviewStep, ResultsFiniteStep DEF GatesPassed
  <1>3. RenderedInv'
    BY RenderedStep DEF GatesPassed
  <1>4. CASE UNCHANGED vars
    BY <1>1, <1>2, <1>3, <1>4, SameGates DEF GatesPassed, vars, analyzeVars, checkVars, reportVars
  <1>5. CASE Finished
    BY <1>4, <1>5 DEF Finished
  <1>6. CASE RenderReport
    <2>1. /\ report = Absent
          /\ UNCHANGED <<inventory, analysisFile, findingsFile, notes>>
      BY <1>6 DEF RenderReport, RenderedInv, GatesPassed, analyzeVars, checkVars, RenderRefused,
                  RenderRejectsNotes, Render, RenderFails
    <2>2. CASE Render
      BY <1>1, <1>2, <1>3, <2>1, <2>2, SameGates DEF GatesPassed, Render
    <2>3. CASE RenderRefused \/ RenderRejectsNotes \/ RenderFails
      BY <1>1, <1>2, <1>3, <2>1, <2>3
      DEF GatesPassed, RenderRefused, RenderRejectsNotes, RenderFails
    <2> QED
      BY <1>6, <2>2, <2>3 DEF RenderReport
  <1>7. CASE WriteNotes
    <2>1. stage = "notes" /\ report = Absent /\ report' = Absent
      BY <1>7 DEF WriteNotes, GatesPassed, RenderedInv
    <2>2. notes' # Absent => IsNoteList(notes'.findings)
      <3>1. SUFFICES ASSUME notes' # Absent
                     PROVE  IsNoteList(notes'.findings)
        OBVIOUS
      <3>2. analysisFile # Absent /\ notes' \in NotesChoices
        BY <1>7, <3>1 DEF WriteNotes
      <3>3. IsFiniteSet(ListedFindings)
        BY <3>2, ReportFinite DEF GatesPassed, AnalysisWritten, AnalysisInvariant
      <3> QED
        BY <3>1, <3>2, <3>3, NotesListed
    <2> QED
      BY <1>1, <1>2, <1>3, <2>1, <2>2 DEF GatesPassed
  <1>8. CASE Analyze \/ CheckConfig \/ Reduce \/ ReduceFails
    <2>1. report = Absent /\ UNCHANGED <<report, notes>>
      BY <1>8 DEF Analyze, CheckConfig, Reduce, ReduceFails, EmitReportData, reportVars,
                  GatesPassed, RenderedInv
    <2> QED
      BY <1>1, <1>2, <1>3, <2>1 DEF GatesPassed
  <1> QED
    BY <1>4, <1>5, <1>6, <1>7, <1>8 DEF Next

\* There is no report at the start.
LEMMA GatesInit == Init => GatesPassed
  <1> SUFFICES ASSUME Init
               PROVE  GatesPassed
    OBVIOUS
  <1>1. report = Absent /\ notes = Absent /\ findingsFile = Absent /\ DOMAIN results = {}
    BY DEF Init, ReportInit, CheckInit
  <1>2. AnalysisWritten
    BY ReviewStartsAnalysis, AnalysisWrittenInit
  <1>3. ResultsFinite
    BY <1>1, ReviewStarts, RecordsInit, FS_EmptySet DEF ResultsFinite
  <1> QED
    BY <1>1, <1>2, <1>3 DEF GatesPassed, RenderedInv

\* Half of the clusters, rounded up: what recurs on so many is a pattern.
LEMMA HalfOfTheFleet ==
  ASSUME NEW clusters \in Nat, NEW count \in Nat, count >= 2, 2 * count >= clusters
  PROVE  count >= PatternThreshold(clusters)
  <1>1. CeilDiv(clusters, 2) \in Int /\ CeilDiv(clusters, 2) <= count
    BY DEF CeilDiv
  <1> QED
    BY <1>1, LargerOfTwo DEF PatternThreshold

\* When no two notes are about one finding, the note shown is the one there is.
LEMMA OneNoteShown ==
  ASSUME IsNoteList(notes.findings), NotedOnce, NEW f, f.id \in {notes.findings[i].id : i \in Reasoned}
  PROVE  \E i \in Reasoned : Annotated(f) = [f EXCEPT !.note = notes.findings[i].reasoning,
                                !.verdict = IF notes.findings[i].verdict \in Verdicts
                                            THEN notes.findings[i].verdict ELSE "none"]
  <1> DEFINE n == Len(notes.findings)
             idOf == [i \in 1..n |-> notes.findings[i].id]
             about == {i \in DOMAIN notes.findings : notes.findings[i].id = f.id}
  <1>1. n \in Nat /\ DOMAIN notes.findings = 1..n
    BY DEF IsNoteList
  <1>2. idOf \in Surjection(1..n, NotedIds)
    <2> HIDE DEF n
    <2> QED
      BY <1>1 DEF NotedIds, Surjection
  <1>3. IsFiniteSet(1..n) /\ Cardinality(1..n) = n
    BY <1>1, PositionsCounted
  <1>4. idOf \in Injection(1..n, NotedIds)
    <2>1. Cardinality(NotedIds) = Cardinality(1..n)
      BY <1>3 DEF NotedOnce
    <2> HIDE DEF idOf, n
    <2> QED
      BY <1>2, <1>3, <2>1, FS_Surjection
  <1>5. PICK i \in Reasoned : notes.findings[i].id = f.id
    OBVIOUS
  <1>6. i \in DOMAIN notes.findings
    BY DEF Reasoned
  <1>7. about = {i}
    <2>1. \A j \in 1..n : idOf[j] = idOf[i] => j = i
      <3> HIDE DEF idOf, n
      <3> QED
        BY <1>1, <1>4, <1>6 DEF Injection, IsInjective
    <2> HIDE DEF n
    <2> QED
      BY <1>1, <1>5, <1>6, <2>1
  <1>8. Max(about) = i
    <2>1. i \in Int
      BY <1>1, <1>6
    <2> HIDE DEF about
    <2> QED
      BY <1>7, <2>1, LargerOfTwo
  <1>9. Annotated(f) = IF about = {} THEN f
                       ELSE [f EXCEPT !.note = notes.findings[Max(about)].reasoning,
                                      !.verdict = IF notes.findings[Max(about)].verdict \in Verdicts
                                                  THEN notes.findings[Max(about)].verdict ELSE "none"]
    BY DEF Annotated
  <1> HIDE DEF about
  <1> QED
    BY <1>7, <1>8, <1>9

\* What a note changes of a finding is the note and its verdict.
LEMMA AnnotatedKeeps ==
  ASSUME NEW f \in ListedFindings
  PROVE  /\ Annotated(f).cluster = f.cluster /\ Annotated(f).key = f.key
         /\ \A note, verdict :
              [f EXCEPT !.note = note, !.verdict = verdict].note = note
  <1>1. \E id, g : f = ShownAnalysis(id, g) \/ f = ShownConfig(id, g)
    <2>1. f \in UNION {{ShownAnalysis(id, g) : g \in AnalysisFindings(id)} : id \in DOMAIN analysisFile}
          \/ f \in UNION {{ShownConfig(id, g) : g \in ConfigFindings(id)} : id \in CheckedIds}
      BY DEF ListedFindings
    <2> QED
      BY <2>1
  <1> QED
    BY <1>1 DEF ShownAnalysis, ShownConfig, Annotated

\* A pattern that passed the gate shows reasoning on one of its occurrences.
LEMMA PatternAnswered ==
  ASSUME GatesPassed, report # Absent, notes # Absent, NotedOnce,
         Cardinality(DOMAIN report.rows) >= 2, NEW f \in report.findings,
         Cardinality({g.cluster : g \in {g \in report.findings : g.key = f.key}}) >= 2,
         2 * Cardinality({g.cluster : g \in {g \in report.findings : g.key = f.key}})
           >= Cardinality(DOMAIN report.rows)
  PROVE  \E g \in report.findings : g.key = f.key /\ g.note
  <1> DEFINE clusters == {g.cluster : g \in {g \in report.findings : g.key = f.key}}
             fleet == Cardinality(InventoryIds)
  <1>1. /\ DOMAIN report.rows = InventoryIds /\ analysisFile # Absent
        /\ report.findings = {Annotated(g) : g \in ListedFindings}
        /\ CoverageVerified(ListedFindings, fleet)
    BY DEF GatesPassed, RenderedInv, NotesPassGates
  <1>2. clusters = ClustersWith(ListedFindings, f.key)
    BY <1>1, AnnotatedKeeps DEF ClustersWith
  <1>3. f.key \in {g.key : g \in ListedFindings}
    BY <1>1, AnnotatedKeeps
  <1>4. /\ IsFiniteSet(InventoryIds) /\ IsFiniteSet(ListedFindings)
    BY <1>1, ReportFinite DEF GatesPassed, AnalysisWritten, AnalysisInvariant
  <1>5. IsFiniteSet(clusters)
    <2> DEFINE clusterOf == [g \in ListedFindings |-> g.cluster]
    <2>1. clusters \in SUBSET {clusterOf[g] : g \in ListedFindings}
      BY <1>2 DEF ClustersWith
    <2> HIDE DEF clusterOf, clusters
    <2>2. IsFiniteSet({clusterOf[g] : g \in ListedFindings})
      BY <1>4, ImageFinite
    <2> QED
      BY <2>1, <2>2, FS_Subset
  <1>6. fleet \in Nat /\ Cardinality(clusters) \in Nat
    BY <1>4, <1>5, FS_CardinalityType
  <1>7. fleet >= 2 /\ Cardinality(clusters) >= 2 /\ 2 * Cardinality(clusters) >= fleet
    BY <1>1
  <1> HIDE DEF clusters, fleet
  <1>8. Cardinality(ClustersWith(ListedFindings, f.key)) >= PatternThreshold(fleet)
    BY <1>2, <1>6, <1>7, HalfOfTheFleet
  <1>9. f.key \in FleetWidePatterns(ListedFindings, fleet)
    BY <1>3, <1>6, <1>7, <1>8 DEF FleetWidePatterns
  <1>10. PICK g \in ListedFindings :
           g.key = f.key /\ g.id \in {notes.findings[i].id : i \in Reasoned}
    BY <1>1, <1>9 DEF CoverageVerified, Addressed
  <1>11. PICK i \in Reasoned : Annotated(g) = [g EXCEPT !.note = notes.findings[i].reasoning,
                                 !.verdict = IF notes.findings[i].verdict \in Verdicts
                                             THEN notes.findings[i].verdict ELSE "none"]
    BY <1>10, OneNoteShown DEF GatesPassed
  <1>12. Annotated(g).note = notes.findings[i].reasoning
    BY <1>11, AnnotatedKeeps
  <1>13. Annotated(g).note
    BY <1>12 DEF Reasoned
  <1>14. Annotated(g) \in report.findings /\ Annotated(g).key = f.key
    BY <1>1, <1>10, AnnotatedKeeps
  <1> QED
    BY <1>13, <1>14

\* verify_coverage's promise, from the notes to the report: in a report with notes,
\* what recurs on half of a fleet of any size, and on two clusters at least, shows
\* reasoning on one of its occurrences, unless a finding has two notes.
THEOREM FleetPatternsAreAnswered == Spec => []SystemicFindingsAnswered
  <1>1. GatesPassed => SystemicFindingsAnswered
    BY PatternAnswered DEF SystemicFindingsAnswered
  <1> QED
    BY <1>1, GatesInit, GatesStep, PTL DEF Spec

-----------------------------------------------------------------------------
(* The charts keep every peak                                              *)

Values == Seq(Int \cup {Absent})

\* A bucket is the greatest of its measured values.
LEMMA BucketPeak ==
  ASSUME NEW s \in Values, NEW low \in Nat \ {0}, NEW high \in Nat, high <= Len(s)
  PROVE  LET peak == MaxOrAbsent(SubSeq(s, low, high))
         IN /\ peak # Absent => peak \in Int /\ peak \in Range(s)
            /\ \A i \in low..high : Measured(s[i]) => peak # Absent /\ s[i] <= peak
  <1> DEFINE part == SubSeq(s, low, high)
             measured == {v \in Range(part) : Measured(v)}
             peak == MaxOrAbsent(part)
  <1>1. Absent \notin Int
    BY AbsentAssumption
  <1>2. /\ \A v \in Range(part) : \E i \in low..high : v = s[i]
        /\ \A i \in low..high : s[i] \in Range(part)
    <2>1. /\ DOMAIN part = 1..(high - low + 1)
          /\ \A j \in 1..(high - low + 1) : part[j] = s[low + j - 1]
      BY DEF Values
    <2> HIDE DEF part
    <2>2. \A j \in DOMAIN part : low + j - 1 \in low..high /\ part[j] = s[low + j - 1]
      BY <2>1
    <2>3. \A i \in low..high : i - low + 1 \in DOMAIN part /\ part[i - low + 1] = s[i]
      BY <2>1
    <2> QED
      BY <2>2, <2>3 DEF Range
  <1>3. \A i \in low..high : i \in 1..Len(s) /\ s[i] \in Int \cup {Absent} /\ s[i] \in Range(s)
    BY DEF Values, Range
  <1> HIDE DEF part
  <1>4. measured \in SUBSET Int /\ measured \in SUBSET Range(s)
    BY <1>2, <1>3 DEF Measured
  <1>5. IsFiniteSet(measured)
    <2>1. Len(s) \in Nat /\ measured \in SUBSET {s[i] : i \in 1..Len(s)}
      BY <1>2, <1>3 DEF Values
    <2> HIDE DEF measured
    <2>2. IsFiniteSet({s[i] : i \in 1..Len(s)})
      BY <2>1, PositionsCounted, ImageFinite
    <2> QED
      BY <2>1, <2>2, FS_Subset
  <1>6. peak = IF measured = {} THEN Absent ELSE Max(measured)
    BY DEF MaxOrAbsent
  <1>7. \A i \in low..high : Measured(s[i]) => s[i] \in measured
    BY <1>2
  <1> HIDE DEF measured, peak
  <1>8. measured # {} => peak \in measured /\ \A x \in measured : x <= peak
    BY <1>4, <1>5, <1>6, GreatestExists
  <1>9. /\ peak # Absent => peak \in Int /\ peak \in Range(s)
        /\ \A i \in low..high : Measured(s[i]) => peak # Absent /\ s[i] <= peak
    BY <1>1, <1>4, <1>6, <1>7, <1>8
  <1> QED
    BY <1>9 DEF peak, part

\* On the curve of a series is nothing that was not measured, and of every value
\* measured in the grid one at least as high.
LEMMA CurveKeepsPeaks ==
  ASSUME NEW s \in Values, NEW grid \in Seq(Nat)
  PROVE  LET curve == Bucketize(s, grid)
         IN /\ \E n \in Nat : DOMAIN curve = 1..n
            /\ \A w \in Range(curve) \ {Absent} : w \in Int /\ w \in Range(s)
            /\ \A i \in DOMAIN s : i <= Len(grid) /\ Measured(s[i]) =>
                 \E w \in Range(curve) \ {Absent} : s[i] <= w
  <1> DEFINE curve == Bucketize(s, grid)
             n == CeilDiv(Len(grid), BucketSlots)
             low(b) == (b - 1) * BucketSlots + 1
             high(b) == Min({b * BucketSlots, Len(s)})
  <1>1. /\ Len(s) \in Nat /\ DOMAIN s = 1..Len(s) /\ BucketSlots \in Nat \ {0}
        /\ Len(grid) \in Nat
    BY BucketAssumption DEF Values
  <1>2. n \in Nat
    BY <1>1 DEF CeilDiv
  <1>3. /\ DOMAIN curve = 1..n
        /\ \A b \in 1..n : curve[b] = MaxOrAbsent(SubSeq(s, low(b), high(b)))
    BY DEF Bucketize, Slice
  <1> HIDE DEF n, curve
  <1>4. \A b \in 1..n : /\ low(b) \in Nat \ {0} /\ high(b) \in Nat /\ high(b) <= Len(s)
                        /\ b * BucketSlots \in Int
                        /\ \A i \in 1..Len(s) : i <= b * BucketSlots => i <= high(b)
    <2> TAKE b \in 1..n
    <2>1. b * BucketSlots \in Nat /\ (b - 1) * BucketSlots \in Nat
      BY <1>1, <1>2
    <2>2. high(b) = IF b * BucketSlots <= Len(s) THEN b * BucketSlots ELSE Len(s)
      BY <1>1, <2>1, SmallerOfTwo
    <2> HIDE DEF high
    <2> QED
      BY <1>1, <2>1, <2>2
  <1>5. \A b \in 1..n :
          /\ curve[b] # Absent => curve[b] \in Int /\ curve[b] \in Range(s)
          /\ \A i \in low(b)..high(b) : Measured(s[i]) => curve[b] # Absent /\ s[i] <= curve[b]
    <2> TAKE b \in 1..n
    <2> HIDE DEF low, high
    <2> QED
      BY <1>3, <1>4, BucketPeak
  <1>6. \A w \in Range(curve) \ {Absent} : w \in Int /\ w \in Range(s)
    BY <1>3, <1>5 DEF Range
  <1>7. ASSUME NEW i \in DOMAIN s, i <= Len(grid), Measured(s[i])
        PROVE  \E w \in Range(curve) \ {Absent} : s[i] <= w
    <2>1. PICK b \in 1..n : low(b) <= i /\ i <= b * BucketSlots
      <3>1. i \in 1..Len(grid)
        BY <1>1, <1>7
      <3> QED
        BY <1>1, <3>1, BucketOf DEF n
    <2>2. i \in low(b)..high(b)
      <3>1. i <= high(b) /\ low(b) \in Nat /\ high(b) \in Nat /\ i \in Nat
        BY <1>1, <1>4, <2>1
      <3> HIDE DEF low, high
      <3> QED
        BY <2>1, <3>1
    <2>3. curve[b] # Absent /\ s[i] <= curve[b]
      BY <1>5, <1>7, <2>2
    <2> QED
      BY <1>3, <2>3 DEF Range
  <1> QED
    BY <1>2, <1>3, <1>6, <1>7 DEF curve

\* What is within the grid of a series are its first values.
LEMMA FirstValues ==
  ASSUME NEW s \in Values, NEW grid \in Seq(Nat), NEW v \in Range(Within(s, grid))
  PROVE  \E i \in DOMAIN s : i <= Len(grid) /\ v = s[i]
  <1> DEFINE least == Min({Len(s), Len(grid)})
             part == SubSeq(s, 1, least)
  <1>1. Len(s) \in Nat /\ Len(grid) \in Nat /\ DOMAIN s = 1..Len(s)
    BY DEF Values
  <1>2. least = IF Len(s) <= Len(grid) THEN Len(s) ELSE Len(grid)
    BY <1>1, SmallerOfTwo
  <1>3. v \in Range(part)
    BY DEF Within
  <1> HIDE DEF least
  <1>4. least \in Nat /\ least <= Len(s) /\ least <= Len(grid)
    BY <1>1, <1>2
  <1>5. DOMAIN part = 1..least /\ \A i \in 1..least : part[i] = s[i]
    BY <1>4 DEF Values
  <1> HIDE DEF part
  <1>6. PICK i \in 1..least : v = s[i]
    BY <1>3, <1>5 DEF Range
  <1>7. i \in DOMAIN s /\ i <= Len(grid)
    BY <1>1, <1>4
  <1> QED
    BY <1>6, <1>7

\* The curves of a metric are those of the nodes that have values of it.
LEMMA CurvesOfNodes ==
  ASSUME NEW raw, IsStored(raw), NEW key, key = <<key[1], key[2]>>
  PROVE  LET curves == NodeSeries(raw, key)
         IN /\ \E m \in Nat : DOMAIN curves = 1..m
            /\ \A i \in DOMAIN curves : \E n \in DOMAIN raw.nodes :
                 /\ key \in DOMAIN raw.nodes[n].series
                 /\ curves[i].node = raw.nodes[n].id
                 /\ curves[i].values = Bucketize(raw.nodes[n].series[key], raw.timestamps)
            /\ \A n \in DOMAIN raw.nodes :
                 (key \in DOMAIN raw.nodes[n].series /\ raw.nodes[n].series[key] # <<>>)
                   => \E i \in DOMAIN curves : curves[i].node = raw.nodes[n].id
  <1> DEFINE count == Len(raw.nodes)
             P == {i \in DOMAIN raw.nodes : SeriesOf(raw.nodes[i], key[1], key[2]) # <<>>}
             with == Picked(raw.nodes, P)
             curves == NodeSeries(raw, key)
             m == Cardinality(P)
  <1>1. count \in Nat /\ DOMAIN raw.nodes = 1..count /\ P \in SUBSET (1..count)
    BY DEF IsStored
  <1>2. \A n \in DOMAIN raw.nodes :
          SeriesOf(raw.nodes[n], key[1], key[2])
            = IF key \in DOMAIN raw.nodes[n].series THEN raw.nodes[n].series[key] ELSE <<>>
    BY DEF SeriesOf, HasSeries
  <1>3. \A n \in DOMAIN raw.nodes :
          n \in P <=> key \in DOMAIN raw.nodes[n].series /\ raw.nodes[n].series[key] # <<>>
    BY <1>2
  <1>4. curves = [i \in DOMAIN with |->
                    [node |-> with[i].id,
                     values |-> Bucketize(SeriesOf(with[i], key[1], key[2]), raw.timestamps)]]
    BY DEF NodeSeries
  <1> HIDE DEF count, P, curves
  <1>5. /\ m \in Nat /\ DOMAIN with = 1..m
        /\ \A i \in 1..m : Sorted(P)[i] \in P /\ with[i] = raw.nodes[Sorted(P)[i]]
    BY <1>1, EntriesPicked
  <1>6. \A n \in P : \E i \in 1..m : Sorted(P)[i] = n
    BY <1>1, PositionsSorted
  <1> HIDE DEF m, with
  <1>7. DOMAIN curves = 1..m
    BY <1>4, <1>5
  <1>8. ASSUME NEW i \in 1..m
        PROVE  \E n \in P : Sorted(P)[i] = n /\ curves[i].node = raw.nodes[n].id
                            /\ curves[i].values = Bucketize(raw.nodes[n].series[key], raw.timestamps)
    <2>1. PICK n \in P : n = Sorted(P)[i] /\ with[i] = raw.nodes[n]
      BY <1>5
    <2>2. SeriesOf(with[i], key[1], key[2]) = raw.nodes[n].series[key]
      BY <1>1, <1>2, <1>3, <2>1
    <2>3. curves[i] = [node |-> raw.nodes[n].id,
                       values |-> Bucketize(raw.nodes[n].series[key], raw.timestamps)]
      BY <1>4, <1>5, <2>1, <2>2
    <2> QED
      BY <2>1, <2>3
  <1>9. \A i \in DOMAIN curves : \E n \in DOMAIN raw.nodes :
          /\ key \in DOMAIN raw.nodes[n].series
          /\ curves[i].node = raw.nodes[n].id
          /\ curves[i].values = Bucketize(raw.nodes[n].series[key], raw.timestamps)
    BY <1>1, <1>3, <1>7, <1>8
  <1>10. \A n \in DOMAIN raw.nodes :
           (key \in DOMAIN raw.nodes[n].series /\ raw.nodes[n].series[key] # <<>>)
             => \E i \in DOMAIN curves : curves[i].node = raw.nodes[n].id
    <2> TAKE n \in DOMAIN raw.nodes
    <2> HAVE key \in DOMAIN raw.nodes[n].series /\ raw.nodes[n].series[key] # <<>>
    <2>1. PICK i \in 1..m : Sorted(P)[i] = n
      BY <1>3, <1>6
    <2> QED
      BY <1>7, <1>8, <2>1
  <1> QED
    BY <1>5, <1>7, <1>9, <1>10 DEF curves

\* No value on a curve is above the peak of the chart.
LEMMA PeakOfChart ==
  ASSUME NEW curves, NEW m \in Nat, DOMAIN curves = 1..m,
         \A i \in 1..m : /\ \E n \in Nat : DOMAIN curves[i].values = 1..n
                         /\ Range(curves[i].values) \ {Absent} \subseteq Int
  PROVE  \A i \in 1..m : \A w \in Range(curves[i].values) \ {Absent} :
           w \in Int /\ ChartPeak(curves) \in Int /\ w <= ChartPeak(curves)
  <1> DEFINE ranges == [i \in 1..m |-> Range(curves[i].values)]
             all == {ranges[i] : i \in 1..m}
             shown == {0} \cup ((UNION all) \ {Absent})
  <1>1. ChartPeak(curves) = Max(shown)
    BY DEF ChartPeak
  <1>2. \A part \in all : IsFiniteSet(part)
    <2>1. ASSUME NEW i \in 1..m
          PROVE  IsFiniteSet(Range(curves[i].values))
      <3> DEFINE list == curves[i].values
      <3>1. PICK n \in Nat : DOMAIN list = 1..n
        OBVIOUS
      <3>2. Range(list) = {list[j] : j \in 1..n}
        BY <3>1 DEF Range
      <3> HIDE DEF list
      <3>3. IsFiniteSet(1..n)
        BY PositionsCounted
      <3>4. IsFiniteSet({list[j] : j \in 1..n})
        BY <3>3, ImageFinite, Zenon
      <3>5. IsFiniteSet(Range(list))
        BY <3>2, <3>4, Zenon
      <3> QED
        BY <3>5 DEF list
    <2> QED
      BY <2>1
  <1>3. \A i \in 1..m : \A w \in Range(curves[i].values) \ {Absent} : w \in shown
    <2>1. \A i \in 1..m : Range(curves[i].values) \in all
      <3>1. \A i \in 1..m : ranges[i] = Range(curves[i].values)
        OBVIOUS
      <3> HIDE DEF ranges
      <3> QED
        BY <3>1
    <2> HIDE DEF all
    <2> QED
      BY <2>1
  <1>4. shown \in SUBSET Int /\ shown # {}
    <2>1. \A part \in all : \A w \in part : w # Absent => w \in Int
      OBVIOUS
    <2> HIDE DEF all
    <2>2. \A w \in shown : w \in Int
      BY <2>1
    <2>3. 0 \in shown
      OBVIOUS
    <2> HIDE DEF shown
    <2> QED
      BY <2>2, <2>3
  <1> HIDE DEF ranges
  <1>5. IsFiniteSet(shown)
    <2>1. IsFiniteSet(all)
      <3>1. IsFiniteSet(1..m)
        BY PositionsCounted
      <3> QED
        BY <3>1, ImageFinite, Zenon
    <2> HIDE DEF all
    <2>2. IsFiniteSet(UNION all)
      BY <1>2, <2>1, FS_UNION
    <2>3. IsFiniteSet((UNION all) \ {Absent})
      BY <2>2, FS_Subset
    <2>4. IsFiniteSet({0})
      BY FS_Singleton
    <2> QED
      BY <2>3, <2>4, FS_Union
  <1> HIDE DEF all, shown
  <1>6. Max(shown) \in shown /\ \A w \in shown : w <= Max(shown)
    BY <1>4, <1>5, GreatestExists
  <1> QED
    BY <1>1, <1>3, <1>4, <1>6

\* What a bundle owes to a node and one of its metrics.
KeepsPeak(bundle, node, key, grid) ==
  LET series == node.series[key]
      covered == {v \in Range(Within(series, grid)) : Measured(v)}
  IN /\ series # <<>> => key \in DOMAIN bundle.charts \cup bundle.flat_zero
     /\ key \in bundle.flat_zero => \A v \in covered : v <= 0
     /\ key \in DOMAIN bundle.charts =>
          \A curve \in Range(bundle.charts[key]) :
            curve.node = node.id =>
              /\ \A v \in covered : \E w \in Range(curve.values) \ {Absent} : v <= w
              /\ Range(curve.values) \ {Absent} \subseteq Range(series)

\* Every bundle of the reduction keeps the peaks of every node and metric.
LEMMA BundleKeepsPeaks ==
  ASSUME NEW raw, IsStored(raw), NEW n \in DOMAIN raw.nodes, NEW key \in DOMAIN raw.nodes[n].series
  PROVE  KeepsPeak(PanelMetricsBundle(raw), raw.nodes[n], key, raw.timestamps)
  <1> DEFINE bundle == PanelMetricsBundle(raw)
             node == raw.nodes[n]
             series == node.series[key]
             grid == raw.timestamps
             covered == {v \in Range(Within(series, grid)) : Measured(v)}
             curves == NodeSeries(raw, key)
  <1>1. /\ key = <<key[1], key[2]>> /\ series \in Values /\ key \in StoredKeys(raw)
        /\ \A i \in DOMAIN raw.nodes : raw.nodes[i].id = node.id => i = n
        /\ \A i \in DOMAIN raw.nodes :
             key \in DOMAIN raw.nodes[i].series => raw.nodes[i].series[key] \in Values
        /\ grid \in Seq(Nat)
    BY DEF IsStored, StoredKeys, Values
  <1>2. /\ key \in DOMAIN bundle.charts <=> curves # <<>> /\ ChartPeak(curves) > 0
        /\ key \in bundle.flat_zero <=> curves # <<>> /\ ~(ChartPeak(curves) > 0)
        /\ key \in DOMAIN bundle.charts => bundle.charts[key] = curves
    BY <1>1 DEF PanelMetricsBundle
  <1>3. /\ \E m \in Nat : DOMAIN curves = 1..m
        /\ \A i \in DOMAIN curves : \E k \in DOMAIN raw.nodes :
             /\ key \in DOMAIN raw.nodes[k].series
             /\ curves[i].node = raw.nodes[k].id
             /\ curves[i].values = Bucketize(raw.nodes[k].series[key], grid)
        /\ series # <<>> => \E i \in DOMAIN curves : curves[i].node = node.id
    <2> HIDE DEF bundle
    <2> QED
      BY <1>1, CurvesOfNodes
  <1> HIDE DEF bundle, curves, grid
  <1>4. series # <<>> => curves # <<>>
    BY <1>3
  <1>5. \A v \in covered : v \in Int /\ \E i \in DOMAIN series :
          i <= Len(grid) /\ v = series[i] /\ Measured(series[i])
    <2> TAKE v \in covered
    <2>1. PICK i \in DOMAIN series : i <= Len(grid) /\ v = series[i]
      BY <1>1, FirstValues
    <2>2. series[i] \in Int \cup {Absent}
      BY <1>1 DEF Values
    <2> QED
      BY <2>1, <2>2 DEF Measured
  <1> HIDE DEF covered
  <1>6. ASSUME NEW i \in DOMAIN curves, curves[i].node = node.id
        PROVE  /\ \A v \in covered : \E w \in Range(curves[i].values) \ {Absent} : v <= w
               /\ Range(curves[i].values) \ {Absent} \subseteq Range(series)
    <2>1. curves[i].values = Bucketize(series, grid)
      BY <1>1, <1>3, <1>6
    <2>2. /\ \A w \in Range(Bucketize(series, grid)) \ {Absent} : w \in Range(series)
          /\ \A j \in DOMAIN series : j <= Len(grid) /\ Measured(series[j]) =>
               \E w \in Range(Bucketize(series, grid)) \ {Absent} : series[j] <= w
      BY <1>1, CurveKeepsPeaks
    <2> HIDE DEF series
    <2> QED
      BY <1>5, <2>1, <2>2
  <1>7. \A i \in DOMAIN curves : \A w \in Range(curves[i].values) \ {Absent} :
          w \in Int /\ ChartPeak(curves) \in Int /\ w <= ChartPeak(curves)
    <2>1. PICK m \in Nat : DOMAIN curves = 1..m
      BY <1>3
    <2>2. ASSUME NEW i \in 1..m
          PROVE  /\ \E k \in Nat : DOMAIN curves[i].values = 1..k
                 /\ Range(curves[i].values) \ {Absent} \subseteq Int
      <3>1. PICK k \in DOMAIN raw.nodes :
              /\ key \in DOMAIN raw.nodes[k].series
              /\ curves[i].values = Bucketize(raw.nodes[k].series[key], grid)
        BY <1>3, <2>1
      <3> DEFINE other == raw.nodes[k].series[key]
      <3>2. other \in Values
        BY <1>1, <3>1
      <3> HIDE DEF other
      <3>3. /\ \E j \in Nat : DOMAIN Bucketize(other, grid) = 1..j
            /\ \A w \in Range(Bucketize(other, grid)) \ {Absent} : w \in Int
        BY <1>1, <3>2, CurveKeepsPeaks
      <3> QED
        BY <3>1, <3>3 DEF other
    <2> QED
      BY <2>1, <2>2, PeakOfChart, Zenon
  <1>8. key \in bundle.flat_zero => \A v \in covered : v <= 0
    <2> SUFFICES ASSUME key \in bundle.flat_zero, NEW v \in covered
                 PROVE  v <= 0
      OBVIOUS
    <2>1. series # <<>>
      BY <1>5
    <2>2. PICK i \in DOMAIN curves : curves[i].node = node.id
      BY <1>3, <2>1
    <2>3. PICK w \in Range(curves[i].values) \ {Absent} : v <= w
      BY <1>6, <2>2
    <2>4. w \in Int /\ ChartPeak(curves) \in Int /\ w <= ChartPeak(curves) /\ v \in Int
      BY <1>5, <1>7
    <2>5. ~(ChartPeak(curves) > 0)
      BY <1>2
    <2> QED
      BY <2>3, <2>4, <2>5
  <1>9. series # <<>> => key \in DOMAIN bundle.charts \cup bundle.flat_zero
    BY <1>2, <1>4
  <1>10. key \in DOMAIN bundle.charts =>
           \A curve \in Range(bundle.charts[key]) :
             curve.node = node.id =>
               /\ \A v \in covered : \E w \in Range(curve.values) \ {Absent} : v <= w
               /\ Range(curve.values) \ {Absent} \subseteq Range(series)
    <2> SUFFICES ASSUME key \in DOMAIN bundle.charts, NEW curve \in Range(curves),
                        curve.node = node.id
                 PROVE  /\ \A v \in covered : \E w \in Range(curve.values) \ {Absent} : v <= w
                        /\ Range(curve.values) \ {Absent} \subseteq Range(series)
      BY <1>2
    <2>1. PICK i \in DOMAIN curves : curve = curves[i]
      BY DEF Range
    <2> HIDE DEF series
    <2> QED
      BY <1>6, <2>1
  <1>11. KeepsPeak(bundle, node, key, grid)
    BY <1>8, <1>9, <1>10, Zenon DEF KeepsPeak, covered
  <1> QED
    BY <1>11 DEF bundle, grid

\* The charts of the report are reduced from the metrics files, whether they come
\* from report_data.json or are computed by the render.
ChartsReduced ==
  /\ GatesPassed
  /\ reportData # Absent => reportData = BuildReportData
  /\ report # Absent =>
       \A id \in DOMAIN report.panels \cap DOMAIN metricsFile :
         report.panels[id].bundle = PanelMetricsBundle(metricsFile[id])

\* There are no charts at the start,
LEMMA ChartsReducedInit == Init => ChartsReduced
  BY GatesInit DEF Init, ReportInit, ChartsReduced

\* and those of every later state are reduced from the metrics.
LEMMA ChartsReducedStep ==
  ASSUME ChartsReduced, [Next]_vars
  PROVE  ChartsReduced'
  <1>1. GatesPassed'
    BY GatesStep DEF ChartsReduced
  <1>2. UNCHANGED metricsFile
    <2>1. CASE Analyze
      BY <2>1
      DEF Analyze, AnalyzeNext, RefuseInput, StartCluster, ShardMissing, ModelSucceeds, ModelRaises,
          ModelSkipped, ModelFails, KeepFindings, GeneratorRaises, FinishCluster,
          WriteAnalysis, WriteAnalysisFails, analysisInputs
    <2>2. CASE CheckConfig \/ Reduce \/ ReduceFails \/ WriteNotes \/ RenderReport \/ UNCHANGED vars
      BY <2>2 DEF CheckConfig, Reduce, ReduceFails, WriteNotes, RenderReport, analyzeVars, vars
    <2> QED
      BY <2>1, <2>2 DEF Next, Finished
  <1>3. BuildReportData' = BuildReportData
    BY <1>2 DEF BuildReportData
  <1>4. CASE Analyze \/ CheckConfig \/ ReduceFails \/ UNCHANGED vars \/ Finished
    <2>1. UNCHANGED <<reportData, report>>
      BY <1>4 DEF Analyze, CheckConfig, ReduceFails, Finished, vars, reportVars
    <2> QED
      BY <1>1, <1>2, <1>3, <2>1 DEF ChartsReduced
  <1>5. CASE Reduce
    <2>1. UNCHANGED report /\ reportData' = BuildReportData
      BY <1>5 DEF Reduce, EmitReportData
    <2> QED
      BY <1>1, <1>2, <1>3, <2>1 DEF ChartsReduced
  <1>6. CASE WriteNotes
    <2>1. UNCHANGED <<report, reportData>>
      BY <1>6 DEF WriteNotes
    <2> QED
      BY <1>1, <1>2, <1>3, <2>1 DEF ChartsReduced
  <1>7. CASE RenderReport
    <2>1. CASE RenderRefused \/ RenderRejectsNotes \/ RenderFails
      <3>1. UNCHANGED <<report, reportData>>
        BY <2>1 DEF RenderRefused, RenderRejectsNotes, RenderFails
      <3> QED
        BY <1>1, <1>2, <1>3, <3>1 DEF ChartsReduced
    <2>2. CASE Render
      <3>1. UNCHANGED reportData /\ report' = BuildPayload(ListedFindings)
        BY <2>2 DEF Render
      <3>2. Bundles = BuildReportData
        BY DEF Bundles, ChartsReduced
      <3>3. ASSUME NEW id \in DOMAIN report'.panels, id \in DOMAIN metricsFile
            PROVE  report'.panels[id].bundle = PanelMetricsBundle(metricsFile[id])
        <4>1. report'.panels = [x \in InventoryIds |-> ClusterPanel(x, ListedFindings)]
          BY <3>1 DEF BuildPayload
        <4>2. report'.panels[id] = ClusterPanel(id, ListedFindings)
          BY <3>3, <4>1
        <4>3. id \in DOMAIN Bundles /\ Bundles[id] = PanelMetricsBundle(metricsFile[id])
          BY <3>2, <3>3 DEF BuildReportData
        <4> QED
          BY <4>2, <4>3 DEF ClusterPanel
      <3> QED
        BY <1>1, <1>2, <1>3, <3>1, <3>3 DEF ChartsReduced
    <2> QED
      BY <1>7, <2>1, <2>2 DEF RenderReport
  <1> QED
    BY <1>4, <1>5, <1>6, <1>7 DEF Next

\* build_report_data and the panels of the report, for series and grids of any length,
\* any number of values per point, any nodes and metrics: of what was measured in a
\* period of the grid no chart hides a peak, a last bucket that is not full included,
\* and what is summarised as flat never rose above zero in the grid.
THEOREM ChartsLoseNoPeak == Spec => []ChartsKeepPeaks
  <1>1. ChartsReduced => ChartsKeepPeaks
    <2> SUFFICES ASSUME ChartsReduced, report # Absent,
                        NEW id \in DOMAIN report.panels \cap DOMAIN metricsFile,
                        NEW n \in DOMAIN metricsFile[id].nodes,
                        NEW key \in DOMAIN metricsFile[id].nodes[n].series
                 PROVE  KeepsPeak(report.panels[id].bundle, metricsFile[id].nodes[n], key,
                                  metricsFile[id].timestamps)
      BY DEF ChartsKeepPeaks, KeepsPeak
    <2>1. IsStored(metricsFile[id])
      <3>1. /\ metricsFile \in MetricsFiles /\ metricsFile \notin BadMetrics
            /\ metricsFile[id] # Absent
        BY DEF ChartsReduced, GatesPassed, AnalysisWritten, AnalysisInvariant
      <3> QED
        BY <3>1, MetricsFilesAssumption DEF BadMetrics
    <2>2. report.panels[id].bundle = PanelMetricsBundle(metricsFile[id])
      BY DEF ChartsReduced
    <2> QED
      BY <2>1, <2>2, BundleKeepsPeaks
  <1> QED
    BY <1>1, ChartsReducedInit, ChartsReducedStep, PTL DEF Spec

-----------------------------------------------------------------------------
(* Scores can be recomputed from the findings shown                        *)

\* What findings cost a score.
Deducted(S) == MapThenSumSet(LAMBDA f : ScorePenalty[f.severity], S)
\* The sum of FiniteSetsExt, and the sum the lemmas of PositionsProofs are about.
LEMMA PenaltiesSummed ==
  ASSUME NEW S
  PROVE  Deducted(S) = SumOver([f \in S |-> ScorePenalty[f.severity]], S)
  <1> DEFINE w == [f \in S |-> ScorePenalty[f.severity]]
             Step(table, s) == IF s = {} THEN 0
                               ELSE ScorePenalty[(CHOOSE x \in s : TRUE).severity] 
                                     + table[s \ {CHOOSE x \in s : TRUE}]
  <1>1. \A table : [s \in SUBSET S |-> Step(table, s)] = [s \in SUBSET S |-> SumStep(table, w, s)]
    <2> TAKE table
    <2>1. \A s \in SUBSET S : Step(table, s) = SumStep(table, w, s)
      <3> TAKE s \in SUBSET S
      <3>1. s # {} => Chosen(s) \in S
        BY DEF Chosen
      <3>2. s # {} => w[Chosen(s)] = ScorePenalty[Chosen(s).severity]
        BY <3>1
      <3> HIDE DEF w
      <3> QED
        BY <3>2 DEF Chosen, SumStep
    <2> HIDE DEF w, Step
    <2> QED
      BY <2>1
  <1>2. (CHOOSE table : table = [s \in SUBSET S |-> Step(table, s)]) = SumTable(w, S)
    <2> HIDE DEF Step, w
    <2> QED
      BY <1>1 DEF SumTable
  <1>3. Deducted(S) = (CHOOSE table : table = [s \in SUBSET S |-> Step(table, s)])[S]
    BY DEF Deducted, MapThenSumSet, MapThenFoldSet
  <1> HIDE DEF w, Step
  <1>4. SumOver(w, S) = SumTable(w, S)[S]
    BY SumFromTable
  <1>5. QED
    BY <1>2, <1>3, <1>4 DEF w

\* A finding as the report has it, with its note or without notes.
Presented(f) == IF notes = Absent THEN f ELSE Annotated(f)
\* A note changes nothing that a score is computed from.
LEMMA PresentedKeeps ==
  ASSUME NEW f, (\E id, g : f = ShownAnalysis(id, g) \/ f = ShownConfig(id, g))
  PROVE  /\ Presented(f).cluster = f.cluster /\ Presented(f).id = f.id
         /\ Presented(f).severity = f.severity /\ Presented(f).key = f.key
         /\ Presented(f).check = f.check
  BY DEF ShownAnalysis, ShownConfig, Annotated, Presented

\* The terms of a score: the findings of the two files that count for a pillar.
OfAnalysis(id, p) == {f \in AnalysisFindings(id) : AnalysisPillar(f) = p}
OfChecks(id, p) == {f \in ConfigFindings(id) : ConfigPillar(f) = p}
Own(id, p) == {f \in report.findings : f.cluster = id /\ ShownPillar(f) = p}

\* A score, and what the property says it is, in terms of what findings cost.
LEMMA ScoreOfParts ==
  \A id, p : PillarScore(id, p) =
               Max({0, 100 - Deducted(OfAnalysis(id, p)) - Deducted(OfChecks(id, p))})
  BY DEF PillarScore, Penalty, Deducted, OfAnalysis, OfChecks

\* The property, in these terms.
LEMMA ScoreShown ==
  ScoresAccountForFindings <=>
    (report # Absent =>
      \A id \in DOMAIN report.rows, p \in Pillars :
        report.scores.clusters[id].pillars[p] =
          IF 100 - Deducted(Own(id, p)) < 0 THEN 0 ELSE 100 - Deducted(Own(id, p)))
  BY DEF ScoresAccountForFindings, Own, Deducted

\* No two findings of one list of the checker's file have the same number.
FileNumbered ==
  findingsFile # Absent =>
    \A id \in DOMAIN findingsFile.clusters :
      \A i, j \in DOMAIN findingsFile.clusters[id].findings :
        findingsFile.clusters[id].findings[i].number = findingsFile.clusters[id].findings[j].number
          => i = j

\* The analysis of a cluster: finitely many conclusions, told apart by their ids.
LEMMA AnalysisTerms ==
  ASSUME FindingsListed(analysisFile), NEW id
  PROVE  /\ IsFiniteSet(AnalysisFindings(id))
         /\ \A f \in AnalysisFindings(id) : IsConclusion(f) /\ id \in DOMAIN analysisFile
         /\ \A f, g \in AnalysisFindings(id) : f.id = g.id => f = g
  <1>1. CASE id \notin DOMAIN analysisFile \/ AnalysisOf(id) = Absent
    <2>1. AnalysisFindings(id) = {}
      BY <1>1 DEF AnalysisFindings, AnalysisOf
    <2> QED
      BY <2>1, FS_EmptySet
  <1>2. CASE id \in DOMAIN analysisFile /\ AnalysisOf(id) # Absent
    <2> DEFINE list == analysisFile[id].findings
    <2>1. PICK n \in Nat : Ranked(list, n) /\ IdsDiffer(list, n)
      BY <1>2 DEF FindingsListed
    <2>2. AnalysisFindings(id) = {list[i] : i \in 1..n}
      BY <1>2, <2>1 DEF AnalysisFindings, Range, Ranked
    <2> HIDE DEF list
    <2>3. IsFiniteSet({list[i] : i \in 1..n})
      BY PositionsCounted, ImageFinite
    <2> QED
      BY <1>2, <2>1, <2>2, <2>3 DEF Ranked, IdsDiffer
  <1> QED
    BY <1>1, <1>2 DEF AnalysisOf

\* The checks of a cluster: finitely many findings, told apart by their numbers.
LEMMA CheckTerms ==
  ASSUME CheckTypeOK, FileNumbered, NEW id
  PROVE  /\ IsFiniteSet(ConfigFindings(id))
         /\ \A f \in ConfigFindings(id) : f \in Finding /\ id \in CheckedIds
         /\ \A f, g \in ConfigFindings(id) : f.number = g.number => f = g
  <1>1. CASE id \notin CheckedIds
    <2>1. ConfigFindings(id) = {}
      BY <1>1 DEF ConfigFindings
    <2> QED
      BY <2>1, FS_EmptySet
  <1>2. CASE id \in CheckedIds
    <2> DEFINE list == findingsFile.clusters[id].findings
    <2>1. findingsFile # Absent /\ id \in DOMAIN findingsFile.clusters
      BY <1>2 DEF CheckedIds
    <2>2. findingsFile.clusters[id] \in Result
      BY <2>1 DEF CheckTypeOK, ResultsType
    <2>3. list \in Seq(Finding)
      BY <2>2 DEF Result
    <2>4. PICK n \in Nat : DOMAIN list = 1..n
      BY <2>3
    <2>5. ConfigFindings(id) = {list[i] : i \in 1..n}
      BY <1>2, <2>4 DEF ConfigFindings, Range
    <2>6. \A i \in 1..n : list[i] \in Finding
      BY <2>3, <2>4
    <2>7. \A i, j \in 1..n : list[i].number = list[j].number => i = j
      BY <2>1, <2>4 DEF FileNumbered
    <2> HIDE DEF list
    <2>8. IsFiniteSet({list[i] : i \in 1..n})
      BY PositionsCounted, ImageFinite
    <2> QED
      BY <1>2, <2>5, <2>6, <2>7, <2>8
  <1> QED
    BY <1>1, <1>2

\* Shown, a finding counts for the pillar it counted for in its file.
LEMMA AnalysisTermShown ==
  ASSUME NEW id, NEW f, IsConclusion(f)
  PROVE  LET g == Presented(ShownAnalysis(id, f))
         IN /\ g.cluster = id /\ g.id = f.id /\ g.severity = f.severity /\ g.check = "none"
            /\ ShownPillar(g) = AnalysisPillar(f) /\ ScorePenalty[f.severity] \in Int
  <1> DEFINE x == ShownAnalysis(id, f)
             g == Presented(x)
  <1>1. /\ g.cluster = x.cluster /\ g.id = x.id /\ g.severity = x.severity /\ g.key = x.key
        /\ g.check = x.check
    BY PresentedKeeps
  <1>2. /\ x.cluster = id /\ x.id = f.id /\ x.severity = f.severity /\ x.key = f.title
        /\ x.check = "none"
    BY DEF ShownAnalysis
  <1>3. f.title[1] = f.model
    BY DEF IsConclusion
  <1>4. ScorePenalty[f.severity] \in Int
    BY DEF ScorePenalty, IsConclusion, Penalised
  <1> HIDE DEF x, g
  <1>5. ShownPillar(g) = AnalysisPillar(f)
    BY <1>1, <1>2, <1>3 DEF ShownPillar, AnalysisPillar
  <1> QED
    BY <1>1, <1>2, <1>4, <1>5 DEF x, g

\* The same of a finding of the checker.
LEMMA CheckTermShown ==
  ASSUME NEW id, NEW f \in Finding
  PROVE  LET g == Presented(ShownConfig(id, f))
         IN /\ g.cluster = id /\ g.id = <<id, "configuration", f.number>>
            /\ g.severity = f.severity /\ g.check # "none"
            /\ ShownPillar(g) = ConfigPillar(f) /\ ScorePenalty[f.severity] \in Int
  <1> DEFINE x == ShownConfig(id, f)
             g == Presented(x)
  <1>1. /\ g.cluster = x.cluster /\ g.id = x.id /\ g.severity = x.severity /\ g.key = x.key
        /\ g.check = x.check
    BY PresentedKeeps
  <1>2. /\ x.cluster = id /\ x.id = <<id, "configuration", f.number>> /\ x.severity = f.severity
        /\ x.check = f.check
    BY DEF ShownConfig
  <1>3. f.check # "none"
    <2>1. f.check \in CheckIds
      BY DEF Finding
    <2> QED
      BY <2>1 DEF CheckIds, Checks, Check
  <1>4. ScorePenalty[f.severity] \in Int
    <2>1. f.severity \in Severities
      BY DEF Finding
    <2> QED
      BY <2>1 DEF ScorePenalty, Severities
  <1> HIDE DEF x, g
  <1>5. ShownPillar(g) = ConfigPillar(f)
    BY <1>1, <1>2, <1>3 DEF ShownPillar, ConfigPillar
  <1> QED
    BY <1>1, <1>2, <1>3, <1>4, <1>5 DEF x, g

\* What a set of findings costs does not depend on how they are shown, as long as
\* no two look the same.
LEMMA DeductedShown ==
  ASSUME NEW S, IsFiniteSet(S), NEW shown,
         \A f \in S : /\ ScorePenalty[f.severity] \in Int
                      /\ shown[f].severity = f.severity,
         \A f, g \in S : shown[f] = shown[g] => f = g
  PROVE  /\ IsFiniteSet({shown[f] : f \in S})
         /\ Deducted({shown[f] : f \in S}) = Deducted(S) /\ Deducted(S) \in Int
  <1> DEFINE T == {shown[f] : f \in S}
             w == [f \in S |-> ScorePenalty[f.severity]]
             v == [g \in T |-> ScorePenalty[g.severity]]
  <1>1. \A f \in S : w[f] \in Int /\ v[shown[f]] = w[f]
    OBVIOUS
  <1>2. Deducted(S) = SumOver(w, S) /\ Deducted(T) = SumOver(v, T)
    BY PenaltiesSummed
  <1> HIDE DEF w, v
  <1>3. SumOver(v, {shown[f] : f \in S}) = SumOver(w, S)
    BY <1>1, SumRenamed
  <1>4. SumOver(w, S) \in Int
    BY <1>1, SumIsInteger
  <1>5. IsFiniteSet({shown[f] : f \in S})
    BY ImageFinite
  <1> QED
    BY <1>2, <1>3, <1>4, <1>5

\* Two sets of findings with nothing in common cost what each costs.
LEMMA DeductedJoined ==
  ASSUME NEW A, NEW B, IsFiniteSet(A), IsFiniteSet(B), A \cap B = {},
         \A f \in A \cup B : ScorePenalty[f.severity] \in Int
  PROVE  Deducted(A \cup B) = Deducted(A) + Deducted(B)
  <1> DEFINE U == A \cup B
             w(S) == [f \in S |-> ScorePenalty[f.severity]]
  <1>1. IsFiniteSet(U)
    BY FS_Union
  <1>2. \A f \in U : w(U)[f] \in Int
    OBVIOUS
  <1>3. \A S \in SUBSET U : SumOver(w(U), S) = SumOver(w(S), S)
    <2> SUFFICES ASSUME NEW S \in SUBSET U
                 PROVE  SumOver(w(U), S) = SumOver(w(S), S)
      OBVIOUS
    <2> DEFINE same == [f \in S |-> f]
               whole == w(U)
               part == w(S)
    <2>1. IsFiniteSet(S)
      BY <1>1, FS_Subset
    <2>2. \A f \in S : part[f] \in Int /\ whole[same[f]] = part[f]
      OBVIOUS
    <2>3. \A f, g \in S : same[f] = same[g] => f = g
      OBVIOUS
    <2>4. {same[f] : f \in S} = S
      OBVIOUS
    <2> HIDE DEF same, whole, part
    <2>5. SumOver(whole, {same[f] : f \in S}) = SumOver(part, S)
      BY <2>1, <2>2, <2>3, SumRenamed
    <2>6. SumOver(whole, S) = SumOver(part, S)
      BY <2>4, <2>5
    <2> QED
      BY <2>6 DEF whole, part
  <1>4. \A S : Deducted(S) = SumOver(w(S), S)
    BY PenaltiesSummed
  <1>5. A \in SUBSET U /\ B \in SUBSET U /\ U \in SUBSET U
    OBVIOUS
  <1> HIDE DEF w, U
  <1>6. SumOver(w(U), A \cup B) = SumOver(w(U), A) + SumOver(w(U), B)
    BY <1>1, <1>2, <1>5, SumJoined
  <1> QED
    BY <1>3, <1>4, <1>5, <1>6 DEF U

\* What a report shows of a cluster and a pillar is what the two files have of it.
LEMMA ShownOfCluster ==
  ASSUME FindingsListed(analysisFile), CheckTypeOK, FileNumbered, NEW id, NEW p,
         report.findings = {Presented(x) : x \in ListedFindings}
  PROVE  Own(id, p) = {Presented(ShownAnalysis(id, f)) : f \in OfAnalysis(id, p)}
                        \cup {Presented(ShownConfig(id, f)) : f \in OfChecks(id, p)}
  <1> DEFINE A == {Presented(ShownAnalysis(id, f)) : f \in OfAnalysis(id, p)}
             C == {Presented(ShownConfig(id, f)) : f \in OfChecks(id, p)}
  <1>1. \A g \in Own(id, p) : g \in A \cup C
    <2> TAKE g \in Own(id, p)
    <2>1. g.cluster = id /\ ShownPillar(g) = p /\ g \in report.findings
      BY DEF Own
    <2>2. PICK x \in ListedFindings : g = Presented(x)
      BY <2>1
    <2>3. x \in UNION {{ShownAnalysis(a, f) : f \in AnalysisFindings(a)} : a \in DOMAIN analysisFile}
          \/ x \in UNION {{ShownConfig(a, f) : f \in ConfigFindings(a)} : a \in CheckedIds}
      BY DEF ListedFindings
    <2>4. CASE \E a : \E f \in AnalysisFindings(a) : x = ShownAnalysis(a, f)
      <3>1. PICK a : \E f \in AnalysisFindings(a) : x = ShownAnalysis(a, f)
        BY <2>4
      <3>2. PICK f \in AnalysisFindings(a) : x = ShownAnalysis(a, f)
        BY <3>1
      <3>3. g.cluster = a /\ ShownPillar(g) = AnalysisPillar(f)
        BY <2>2, <3>2, AnalysisTerms, AnalysisTermShown
      <3> QED
        BY <2>1, <2>2, <3>2, <3>3 DEF OfAnalysis
    <2>5. CASE \E a : \E f \in ConfigFindings(a) : x = ShownConfig(a, f)
      <3>1. PICK a : \E f \in ConfigFindings(a) : x = ShownConfig(a, f)
        BY <2>5
      <3>2. PICK f \in ConfigFindings(a) : x = ShownConfig(a, f)
        BY <3>1
      <3>3. g.cluster = a /\ ShownPillar(g) = ConfigPillar(f)
        BY <2>2, <3>2, CheckTerms, CheckTermShown
      <3> QED
        BY <2>1, <2>2, <3>2, <3>3 DEF OfChecks
    <2> QED
      BY <2>3, <2>4, <2>5
  <1>2. \A f \in OfAnalysis(id, p) : Presented(ShownAnalysis(id, f)) \in Own(id, p)
    <2> TAKE f \in OfAnalysis(id, p)
    <2>1. f \in AnalysisFindings(id) /\ AnalysisPillar(f) = p
      BY DEF OfAnalysis
    <2>2. IsConclusion(f) /\ id \in DOMAIN analysisFile
      BY <2>1, AnalysisTerms
    <2>3. ShownAnalysis(id, f) \in ListedFindings
      <3> DEFINE all == {{ShownAnalysis(b, g) : g \in AnalysisFindings(b)} : b \in DOMAIN analysisFile}
      <3>1. {ShownAnalysis(id, g) : g \in AnalysisFindings(id)} \in all
        BY <2>2
      <3>2. ShownAnalysis(id, f) \in UNION all
        BY <2>1, <3>1
      <3>3. UNION all \subseteq ListedFindings
        BY DEF ListedFindings
      <3> QED
        BY <3>2, <3>3
    <2> QED
      BY <2>1, <2>2, <2>3, AnalysisTermShown DEF Own
  <1>3. \A f \in OfChecks(id, p) : Presented(ShownConfig(id, f)) \in Own(id, p)
    <2> TAKE f \in OfChecks(id, p)
    <2>1. f \in ConfigFindings(id) /\ ConfigPillar(f) = p
      BY DEF OfChecks
    <2>2. f \in Finding /\ id \in CheckedIds
      BY <2>1, CheckTerms
    <2>3. ShownConfig(id, f) \in ListedFindings
      <3> DEFINE all == {{ShownConfig(b, g) : g \in ConfigFindings(b)} : b \in CheckedIds}
      <3>1. {ShownConfig(id, g) : g \in ConfigFindings(id)} \in all
        BY <2>2
      <3>2. ShownConfig(id, f) \in UNION all
        BY <2>1, <3>1
      <3>3. UNION all \subseteq ListedFindings
        BY DEF ListedFindings
      <3> QED
        BY <3>2, <3>3
    <2> QED
      BY <2>1, <2>2, <2>3, CheckTermShown DEF Own
  <1> QED
    BY <1>1, <1>2, <1>3

\* What is shown of a cluster and a pillar costs what the two files say.
LEMMA DeductedOfCluster ==
  ASSUME FindingsListed(analysisFile), CheckTypeOK, FileNumbered, NEW id, NEW p,
         report.findings = {Presented(x) : x \in ListedFindings}
  PROVE  /\ Deducted(Own(id, p)) = Deducted(OfAnalysis(id, p)) + Deducted(OfChecks(id, p))
         /\ Deducted(OfAnalysis(id, p)) \in Int /\ Deducted(OfChecks(id, p)) \in Int
  <1> DEFINE FA == OfAnalysis(id, p)
             FC == OfChecks(id, p)
             showA == [f \in FA |-> Presented(ShownAnalysis(id, f))]
             showC == [f \in FC |-> Presented(ShownConfig(id, f))]
             A == {Presented(ShownAnalysis(id, f)) : f \in FA}
             C == {Presented(ShownConfig(id, f)) : f \in FC}
  <1>1. /\ IsFiniteSet(FA)
        /\ \A f \in FA : IsConclusion(f)
        /\ \A f, g \in FA : f.id = g.id => f = g
    <2>1. FA \in SUBSET AnalysisFindings(id)
      BY DEF OfAnalysis
    <2> QED
      BY <2>1, AnalysisTerms, FS_Subset
  <1>2. /\ IsFiniteSet(FC)
        /\ \A f \in FC : f \in Finding
        /\ \A f, g \in FC : f.number = g.number => f = g
    <2>1. FC \in SUBSET ConfigFindings(id)
      BY DEF OfChecks
    <2> QED
      BY <2>1, CheckTerms, FS_Subset
  <1>3. Own(id, p) = A \cup C
    BY ShownOfCluster
  <1> HIDE DEF FA, FC
  <1>4. /\ \A f \in FA : /\ ScorePenalty[f.severity] \in Int /\ showA[f].severity = f.severity
                          /\ showA[f].id = f.id /\ showA[f].check = "none"
    BY <1>1, AnalysisTermShown
  <1>5. /\ \A f \in FC : /\ ScorePenalty[f.severity] \in Int /\ showC[f].severity = f.severity
                          /\ showC[f].id = <<id, "configuration", f.number>>
                          /\ showC[f].check # "none"
    BY <1>2, CheckTermShown
  <1>6. A = {showA[f] : f \in FA} /\ C = {showC[f] : f \in FC}
    OBVIOUS
  <1> HIDE DEF showA, showC, A, C
  <1>7. \A f, g \in FA : showA[f] = showA[g] => f = g
    BY <1>1, <1>4
  <1>8. \A f, g \in FC : showC[f] = showC[g] => f = g
    BY <1>2, <1>5
  <1>9. IsFiniteSet(A) /\ Deducted(A) = Deducted(FA) /\ Deducted(FA) \in Int
    <2>1. \A f \in FA : ScorePenalty[f.severity] \in Int /\ showA[f].severity = f.severity
      BY <1>4
    <2>2. IsFiniteSet(FA)
      BY <1>1
    <2>3. /\ IsFiniteSet({showA[f] : f \in FA})
          /\ Deducted({showA[f] : f \in FA}) = Deducted(FA) /\ Deducted(FA) \in Int
      BY <1>7, <2>1, <2>2, DeductedShown
    <2> QED
      BY <1>6, <2>3
  <1>10. IsFiniteSet(C) /\ Deducted(C) = Deducted(FC) /\ Deducted(FC) \in Int
    <2>1. \A f \in FC : ScorePenalty[f.severity] \in Int /\ showC[f].severity = f.severity
      BY <1>5
    <2>2. IsFiniteSet(FC)
      BY <1>2
    <2>3. /\ IsFiniteSet({showC[f] : f \in FC})
          /\ Deducted({showC[f] : f \in FC}) = Deducted(FC) /\ Deducted(FC) \in Int
      BY <1>8, <2>1, <2>2, DeductedShown
    <2> QED
      BY <1>6, <2>3
  <1>11. A \cap C = {} /\ \A g \in A \cup C : ScorePenalty[g.severity] \in Int
    BY <1>4, <1>5, <1>6
  <1>12. Deducted(A \cup C) = Deducted(A) + Deducted(C)
    BY <1>9, <1>10, <1>11, DeductedJoined
  <1> QED
    BY <1>3, <1>9, <1>10, <1>12 DEF FA, FC

\* The scores of a report are those of its files.
ScoresRendered ==
  report # Absent =>
    \A id \in InventoryIds, p \in Pillars :
      report.scores.clusters[id].pillars[p] = PillarScore(id, p)
ScoresInv == GatesPassed /\ FileNumbered /\ ScoresRendered

\* What is shown costs what was counted.
LEMMA ScoresAddUp == ScoresInv => ScoresAccountForFindings
  <1> SUFFICES ASSUME ScoresInv, report # Absent, NEW id \in DOMAIN report.rows, NEW p \in Pillars
               PROVE  report.scores.clusters[id].pillars[p] =
                        IF 100 - Deducted(Own(id, p)) < 0 THEN 0 ELSE 100 - Deducted(Own(id, p))
    BY ScoreShown
  <1> DEFINE a == Deducted(OfAnalysis(id, p))
             c == Deducted(OfChecks(id, p))
  <1>1. /\ report.scores.clusters[id].pillars[p] = PillarScore(id, p)
        /\ FindingsListed(analysisFile) /\ CheckTypeOK /\ FileNumbered
    BY DEF ScoresInv, ScoresRendered, GatesPassed, RenderedInv, AnalysisWritten, ResultsFinite, RecordsInv
  <1>2. report.findings = {Presented(x) : x \in ListedFindings}
    BY DEF ScoresInv, GatesPassed, RenderedInv, Presented
  <1>3. Deducted(Own(id, p)) = a + c /\ a \in Int /\ c \in Int
    BY <1>1, <1>2, DeductedOfCluster
  <1>4. PillarScore(id, p) = Max({0, 100 - a - c})
    BY ScoreOfParts
  <1> HIDE DEF a, c
  <1>5. Max({0, 100 - a - c}) = IF 0 >= 100 - a - c THEN 0 ELSE 100 - a - c
    BY <1>3, LargerOfTwo
  <1> QED
    BY <1>1, <1>3, <1>4, <1>5

\* A score changes only with the files it is made of.
LEMMA SameScores ==
  ASSUME UNCHANGED <<inventory, analysisFile, findingsFile>>
  PROVE  InventoryIds' = InventoryIds /\ \A id, p : PillarScore(id, p)' = PillarScore(id, p)
  <1>1. InventoryIds' = InventoryIds /\ CheckedIds' = CheckedIds
    BY DEF InventoryIds, Records, BadFiles, Named, CheckedIds
  <1>2. \A id : ConfigFindings(id)' = ConfigFindings(id)
    BY <1>1 DEF ConfigFindings
  <1>3. \A id : AnalysisFindings(id)' = AnalysisFindings(id)
    BY DEF AnalysisFindings, AnalysisOf
  <1>4. \A id, p : OfAnalysis(id, p)' = OfAnalysis(id, p) /\ OfChecks(id, p)' = OfChecks(id, p)
    BY <1>2, <1>3 DEF OfAnalysis, OfChecks, AnalysisPillar, ConfigPillar
  <1>5. (\A id, p : PillarScore(id, p) =
           Max({0, 100 - Deducted(OfAnalysis(id, p)) - Deducted(OfChecks(id, p))}))'
    BY ScoreOfParts, PTL
  <1>6. \A id, p : PillarScore(id, p) =
          Max({0, 100 - Deducted(OfAnalysis(id, p)) - Deducted(OfChecks(id, p))})
    BY ScoreOfParts
  <1> QED
    BY <1>1, <1>4, <1>5, <1>6

\* The numbers of the results are kept apart, and the file is the results.
LEMMA NumberedStep ==
  ASSUME FileNumbered, FindingsNumbered, [CheckNext /\ UNCHANGED inventory]_<<inventory, checkVars>>
  PROVE  FileNumbered'
  <1>1. CASE UNCHANGED findingsFile
    BY <1>1 DEF FileNumbered
  <1>2. CASE WriteFindings
    <2>1. findingsFile'.clusters = results
      BY <1>2 DEF WriteFindings
    <2>2. \A id \in DOMAIN results : \A i, j \in DOMAIN results[id].findings :
            results[id].findings[i].number = results[id].findings[j].number => i = j
      <3> TAKE id \in DOMAIN results
      <3> TAKE i, j \in DOMAIN results[id].findings
      <3>1. <<id, i>> \in KeptFindings /\ <<id, j>> \in KeptFindings
        BY DEF KeptFindings
      <3> QED
        BY <3>1 DEF FindingsNumbered, KeptFinding
    <2> QED
      BY <2>1, <2>2 DEF FileNumbered
  <1>3. CASE UNCHANGED <<inventory, checkVars>>
    BY <1>1, <1>3 DEF checkVars
  <1>4. CASE RejectInput \/ SkipUnnamed \/ KeepResult \/ WriteFindingsFails
    BY <1>1, <1>4 DEF RejectInput, SkipUnnamed, KeepResult, WriteFindingsFails
  <1>5. ASSUME NEW k \in 1..16, ListSkipped(k) \/ CheckPasses(k) \/ CheckFails(k)
        PROVE  FileNumbered'
    BY <1>1, <1>5 DEF ListSkipped, CheckPasses, CheckFails
  <1> QED
    BY <1>2, <1>3, <1>4, <1>5, StepCases, Zenon

\* No step changes the files of a report that is there.
LEMMA ScoresStep ==
  ASSUME ScoresInv, FindingsNumbered, [Next]_vars
  PROVE  ScoresInv'
  <1>1. GatesPassed'
    BY GatesStep DEF ScoresInv
  <1>2. FileNumbered'
    BY ReviewStep, NumberedStep DEF ScoresInv
  <1>3. CASE UNCHANGED <<report, inventory, analysisFile, findingsFile>>
    BY <1>1, <1>2, <1>3, SameScores DEF ScoresInv, ScoresRendered
  <1>4. CASE UNCHANGED vars
    BY <1>3, <1>4 DEF vars, analyzeVars, checkVars, reportVars
  <1>5. CASE Finished
    BY <1>4, <1>5 DEF Finished
  <1>6. CASE RenderReport
    <2>1. UNCHANGED <<inventory, analysisFile, findingsFile>>
      BY <1>6 DEF RenderReport, analyzeVars, checkVars
    <2>2. CASE Render
      <3>1. report' = BuildPayload(ListedFindings)
        BY <2>2 DEF Render
      <3>2. report'.scores = BuildScores
        BY <3>1 DEF BuildPayload
      <3>3. \A id \in InventoryIds : BuildScores.clusters[id] = ScoreCluster(id)
        BY DEF BuildScores
      <3>4. \A id : \A p \in Pillars : ScoreCluster(id).pillars[p] = PillarScore(id, p)
        BY DEF ScoreCluster
      <3>5. \A id \in InventoryIds, p \in Pillars :
              report'.scores.clusters[id].pillars[p] = PillarScore(id, p)
        BY <3>2, <3>3, <3>4
      <3>6. ScoresRendered'
        BY <2>1, <3>5, SameScores DEF ScoresRendered, Pillars, PillarWeights
      <3> QED
        BY <1>1, <1>2, <3>6 DEF ScoresInv
    <2>3. CASE RenderRefused \/ RenderRejectsNotes \/ RenderFails
      BY <1>3, <2>1, <2>3 DEF RenderRefused, RenderRejectsNotes, RenderFails
    <2> QED
      BY <1>6, <2>2, <2>3 DEF RenderReport
  <1>7. CASE Analyze \/ CheckConfig \/ Reduce \/ ReduceFails \/ WriteNotes
    <2>1. report = Absent /\ UNCHANGED report
      BY <1>7 DEF Analyze, CheckConfig, Reduce, ReduceFails, WriteNotes, EmitReportData, reportVars,
                  ScoresInv, GatesPassed, RenderedInv
    <2> QED
      BY <1>1, <1>2, <2>1 DEF ScoresInv, ScoresRendered
  <1> QED
    BY <1>3, <1>4, <1>5, <1>6, <1>7 DEF Next

\* "so a reader can recompute a score by hand from the findings": in every report,
\* of any fleet, each pillar score is what the findings it shows leave of 100,
\* although scores and findings are computed from the files separately.  Two
\* findings that looked the same would be counted twice and shown once; their ids
\* rule that out.
THEOREM ScoresAreOfTheFindings == Spec => []ScoresAccountForFindings
  <1>1. Init => ScoresInv
    <2>1. Init => findingsFile = Absent /\ report = Absent
      BY DEF Init, CheckInit, ReportInit
    <2> QED
      BY <2>1, GatesInit DEF ScoresInv, FileNumbered, ScoresRendered
  <1>2. Spec => []FindingsNumbered
    BY ReviewImplementsChecks, FindingIdsAreUnique
  <1>3. ScoresInv /\ FindingsNumbered /\ [Next]_vars => ScoresInv'
    BY ScoresStep
  <1> QED
    BY <1>1, <1>2, <1>3, ScoresAddUp, PTL DEF Spec

-----------------------------------------------------------------------------
(* Savings                                                                 *)

\* What some clusters cost.
Spent(prices, S) == MapThenSumSet(LAMBDA id : prices[id].current, S)
\* As with the scores, it is a sum the lemmas of PositionsProofs are about.
LEMMA SpentSummed ==
  ASSUME NEW prices, NEW S
  PROVE  Spent(prices, S) = SumOver([id \in S |-> prices[id].current], S)
  <1> DEFINE w == [id \in S |-> prices[id].current]
             Step(table, s) == IF s = {} THEN 0
                               ELSE prices[CHOOSE x \in s : TRUE].current
                                     + table[s \ {CHOOSE x \in s : TRUE}]
  <1>1. \A table : [s \in SUBSET S |-> Step(table, s)] = [s \in SUBSET S |-> SumStep(table, w, s)]
    <2> TAKE table
    <2>1. \A s \in SUBSET S : Step(table, s) = SumStep(table, w, s)
      <3> TAKE s \in SUBSET S
      <3>1. s # {} => Chosen(s) \in S
        BY DEF Chosen
      <3>2. s # {} => w[Chosen(s)] = prices[Chosen(s)].current
        BY <3>1
      <3> HIDE DEF w
      <3> QED
        BY <3>2 DEF Chosen, SumStep
    <2> HIDE DEF w, Step
    <2> QED
      BY <2>1
  <1>2. (CHOOSE table : table = [s \in SUBSET S |-> Step(table, s)]) = SumTable(w, S)
    <2> HIDE DEF Step, w
    <2> QED
      BY <1>1 DEF SumTable
  <1>3. Spent(prices, S) = (CHOOSE table : table = [s \in SUBSET S |-> Step(table, s)])[S]
    BY DEF Spent, MapThenSumSet, MapThenFoldSet
  <1> HIDE DEF w, Step
  <1>4. SumOver(w, S) = SumTable(w, S)[S]
    BY SumFromTable
  <1>5. QED
    BY <1>2, <1>3, <1>4 DEF w

\* What the gate lets through: a cluster that is idle is offered its end and nothing
\* else, the others every option that is not gated, and the end to none.
LEMMA GateKeepsApart ==
  ASSUME NEW price, NEW classification, NEW steadiness, price.node_type \in BOOLEAN
  PROVE  LET offered == GateOptions(price, classification, steadiness)
         IN /\ (\E o \in offered : o.is_decommission) <=>
                  price.node_type /\ classification = "IDLE"
            /\ price.node_type /\ classification = "IDLE" => Cardinality(offered) = 1
            /\ price.node_type /\ classification # "IDLE" =>
                 offered = {GateOption(option, steadiness) : option \in price.options}
  <1> DEFINE offered == GateOptions(price, classification, steadiness)
             idle == Choice("decommission", price.current, FALSE, FALSE, TRUE)
  <1>1. CASE ~price.node_type
    BY <1>1 DEF GateOptions
  <1>2. CASE price.node_type /\ classification = "IDLE"
    <2>1. offered = {idle}
      BY <1>2 DEF GateOptions
    <2>2. idle.is_decommission
      BY DEF Choice
    <2> HIDE DEF idle, offered
    <2>3. Cardinality(offered) = 1
      BY <2>1, FS_Singleton
    <2> QED
      BY <1>2, <2>1, <2>2, <2>3 DEF offered
  <1>3. CASE price.node_type /\ classification # "IDLE"
    <2>1. offered = {GateOption(option, steadiness) : option \in price.options}
      BY <1>3 DEF GateOptions
    <2>2. \A option : ~GateOption(option, steadiness).is_decommission
      BY DEF GateOption, Choice
    <2> HIDE DEF offered
    <2>3. ~\E o \in offered : o.is_decommission
      BY <2>1, <2>2
    <2> QED
      BY <1>3, <2>1, <2>3 DEF offered
  <1> QED
    BY <1>1, <1>2, <1>3

\* A commitment that counts passes the gate of a steady cluster without a warning.
LEMMA CommitmentPasses ==
  ASSUME NEW option, option.eligible, option.commitment, option.commitment \in BOOLEAN,
         option.key # "graviton"
  PROVE  LET offered == GateOption(option, "steady")
         IN /\ offered.commitment /\ ~offered.risk /\ offered.saving = option.saving
  BY DEF GateOption, WithoutSaving, Choice

\* A report is made last, of prices that were there from the start.
SavingsInv ==
  /\ pricing \in Pricings
  /\ report # Absent => stage = "done" /\ analysisFile # Absent /\ report.savings = BuildSavings

\* What can be recovered, in these terms.
LEMMA Recoverable ==
  IdleRecoverable = IF Spent(pricing, IdleIds) > 0 THEN Spent(pricing, IdleIds) ELSE Absent
  BY DEF IdleRecoverable, Spent

\* Savings change only with the prices and the analysis.
LEMMA SameSavings ==
  ASSUME UNCHANGED <<analysisFile, pricing>>
  PROVE  BuildSavings' = BuildSavings
  <1>1. \A id : ClassificationOf(id)' = ClassificationOf(id) /\ SteadinessOf(id)' = SteadinessOf(id)
    BY DEF ClassificationOf, SteadinessOf, Output, AnalysisOf
  <1>2. IdleIds' = IdleIds
    BY <1>1 DEF IdleIds
  <1>3. IdleRecoverable' = IdleRecoverable
    <2>1. IdleRecoverable = IF Spent(pricing, IdleIds) > 0 THEN Spent(pricing, IdleIds) ELSE Absent
      BY Recoverable
    <2>2. (IdleRecoverable = IF Spent(pricing, IdleIds) > 0 THEN Spent(pricing, IdleIds) ELSE Absent)'
      BY Recoverable, PTL
    <2>3. Spent(pricing, IdleIds)' = Spent(pricing, IdleIds)
      BY <1>2
    <2> QED
      BY <2>1, <2>2, <2>3
  <1>4. CommittedSavings' = CommittedSavings
    BY <1>1 DEF CommittedSavings
  <1>5. \A id : GateOptions(pricing[id], ClassificationOf(id), SteadinessOf(id))'
               = GateOptions(pricing[id], ClassificationOf(id), SteadinessOf(id))
    BY <1>1
  <1> QED
    BY <1>3, <1>4, <1>5 DEF BuildSavings

\* No step changes those once the report is there.
LEMMA SavingsStep ==
  ASSUME SavingsInv, [Next]_vars
  PROVE  SavingsInv'
  <1>1. CASE UNCHANGED <<report, stage, analysisFile, pricing>>
    BY <1>1, SameSavings DEF SavingsInv
  <1>2. CASE UNCHANGED vars
    BY <1>1, <1>2 DEF vars, analyzeVars, reportVars
  <1>3. CASE Finished
    BY <1>2, <1>3 DEF Finished
  <1>4. CASE RenderReport
    <2>1. report = Absent /\ stage' = "done" /\ UNCHANGED <<analysisFile, pricing>>
      BY <1>4 DEF RenderReport, SavingsInv, analyzeVars, RenderRefused, RenderRejectsNotes, Render,
                  RenderFails
    <2>2. CASE Render
      <3>1. analysisFile # Absent /\ report' = BuildPayload(ListedFindings)
        BY <2>2 DEF Render
      <3>2. report'.savings = BuildSavings
        BY <3>1 DEF BuildPayload
      <3> QED
        BY <2>1, <3>1, <3>2, SameSavings DEF SavingsInv
    <2>3. CASE RenderRefused \/ RenderRejectsNotes \/ RenderFails
      BY <2>1, <2>3 DEF RenderRefused, RenderRejectsNotes, RenderFails, SavingsInv
    <2> QED
      BY <1>4, <2>2, <2>3 DEF RenderReport
  <1>5. CASE Analyze \/ CheckConfig \/ Reduce \/ ReduceFails \/ WriteNotes
    BY <1>5 DEF Analyze, CheckConfig, Reduce, ReduceFails, WriteNotes, EmitReportData, reportVars,
                SavingsInv
  <1> QED
    BY <1>2, <1>3, <1>4, <1>5 DEF Next

\* A cluster whose counters add up to nothing, by the dates of its grid, has served
\* nothing if they were measured on it.
LEMMA NothingServed ==
  ASSUME metricsFile \in MetricsFiles, metricsFile \notin BadMetrics,
         NEW id \in DOMAIN metricsFile, metricsFile[id] # Absent, NEW c,
         ~HasTraffic(Normalize(metricsFile[id], c)), OnGrid(metricsFile[id])
  PROVE  ServedNothing(metricsFile[id])
  <1> DEFINE raw == metricsFile[id]
             data0 == Normalize(raw, c)
  <1>1. IsStored(raw) /\ OnGrid(raw)
    BY MetricsFilesAssumption DEF BadMetrics
  <1>2. \A m \in TrafficCounters, i \in DOMAIN raw.nodes :
          \A v \in Range(SumsOn(raw, i, m)) : Measured(v) => v >= 0
    BY CountersAssumption DEF BadMetrics, SumsOn
  <1>3. \A m \in TrafficCounters : ~(Total(Window(data0, m, "Sum")) > 0)
    BY DEF HasTraffic, TrafficSeen
  <1> HIDE DEF raw
  <1>4. ASSUME NEW m \in TrafficCounters, NEW i \in DOMAIN raw.nodes,
               NEW slot \in DOMAIN SumsOn(raw, i, m), Measured(SumsOn(raw, i, m)[slot]),
               RecentOn(raw, m, DatesOn(raw, i, m)[slot])
        PROVE  SumsOn(raw, i, m)[slot] = 0
    <2> DEFINE window == Window(data0, m, "Sum")
               p == PointOf(raw, i, m, slot)
    <2>1. /\ \E n \in Nat : DOMAIN window = 1..n
          /\ \A q \in Range(window) : Measured(q.value) /\ \E j \in DOMAIN raw.nodes :
               \E s \in DOMAIN SumsOn(raw, j, m) : q = PointOf(raw, j, m, s)
          /\ p \in Range(window)
      BY <1>1, <1>4, WindowRead
    <2>2. \A j \in DOMAIN raw.nodes : SumsOn(raw, j, m) \in Seq(Int \cup {Absent})
      BY <1>1, CountersDated
    <2>3. ~(Total(window) > 0)
      BY <1>3
    <2> HIDE DEF window, data0
    <2>4. \A q \in Range(window) : q.value \in Nat
      <3> TAKE q \in Range(window)
      <3>1. PICK j \in DOMAIN raw.nodes : \E s \in DOMAIN SumsOn(raw, j, m) : q = PointOf(raw, j, m, s)
        BY <2>1
      <3>2. PICK s \in DOMAIN SumsOn(raw, j, m) : q = PointOf(raw, j, m, s)
        BY <3>1
      <3> DEFINE v == SumsOn(raw, j, m)[s]
      <3>3. v \in Range(SumsOn(raw, j, m)) /\ v \in Int \cup {Absent}
        BY <2>2 DEF Range
      <3>4. q.value = v /\ Measured(v)
        BY <2>1, <3>2 DEF PointOf
      <3>5. v >= 0 /\ v \in Int
        BY <1>2, <3>3, <3>4 DEF Measured
      <3> QED
        BY <3>4, <3>5
    <2>5. PICK n \in Nat : DOMAIN window = 1..n
      BY <2>1
    <2>6. \A k \in 1..n : window[k].value \in Nat
      BY <2>4, <2>5 DEF Range
    <2>7. Total(window) \in Nat /\ \A k \in 1..n : window[k].value <= Total(window)
      BY <2>5, <2>6, TotalCovers
    <2>8. PICK k \in 1..n : window[k] = p
      BY <2>1, <2>5 DEF Range
    <2>9. p.value = 0
      <3>1. window[k].value \in Nat /\ window[k].value <= Total(window)
        BY <2>6, <2>7
      <3> QED
        BY <2>3, <2>7, <2>8, <3>1
    <2> QED
      BY <2>9 DEF PointOf
  <1>5. ServedNothing(raw)
    BY <1>4 DEF ServedNothing
  <1> QED
    BY <1>5 DEF raw

\* So has a cluster the report calls idle.
LEMMA IdleServedNothing ==
  ASSUME ResultsInvariant, analysisFile # Absent, NEW id, ClassificationOf(id) = "IDLE",
         OnGrid(metricsFile[id])
  PROVE  ServedNothing(metricsFile[id])
  <1> DEFINE c == InventoryRecord(id)
             normalized == Normalize(metricsFile[id], c)
             result == analysisFile[id].outputs["utilization"]
  <1>1. id \in DOMAIN analysisFile /\ result # Absent /\ result.classification = "IDLE"
    BY DEF ClassificationOf, Output, AnalysisOf
  <1>2. "utilization" \in ModelNames
    <2>1. Models[4] = "utilization" /\ 4 \in DOMAIN Models
      BY DEF Models
    <2> QED
      BY <2>1 DEF ModelNames, Range
  <1>3. /\ metricsFile \in MetricsFiles /\ metricsFile \notin BadMetrics
        /\ id \in DOMAIN metricsFile /\ metricsFile[id] # Absent
        /\ result = ResultOf("utilization", normalized, c)
    BY <1>1, <1>2 DEF ResultsInvariant, ResultsKept, IsResult, AnalysisInvariant
  <1> HIDE DEF c, normalized, result
  <1>4. UtilizationModel(normalized, c).classification = "IDLE"
    BY <1>1, <1>3 DEF ResultOf
  <1>5. ~HasTraffic(normalized)
    BY <1>4, IdleHasNoTraffic
  <1> QED
    BY <1>3, <1>5, NothingServed DEF normalized

\* What the savings of a report rest on: the sets the property reads off the report
\* are those the code summed and compared.
LEMMA SavingsRest ==
  ASSUME ResultsInvariant, SavingsInv
  PROVE  SavingsAreEvidenced
  <1> SUFFICES ASSUME report # Absent, report.savings # Absent
               PROVE  SavingsAreEvidenced
    BY DEF SavingsAreEvidenced
  <1> DEFINE savings == report.savings
             best == savings.best_committed
             counted == {id \in Decommissioned : pricing[id].current # Absent}
             Offered(id) == GateOptions(pricing[id], ClassificationOf(id), SteadinessOf(id))
  <1>1. /\ pricing \in Pricings /\ pricing # Absent /\ analysisFile # Absent
        /\ savings.options = [id \in DOMAIN pricing |-> Offered(id)]
        /\ savings.idle_recoverable = IdleRecoverable
        /\ best = IF CommittedSavings = {} THEN Absent ELSE Max(CommittedSavings)
    BY DEF SavingsInv, BuildSavings
  <1>2. /\ IsFiniteSet(DOMAIN pricing)
        /\ \A id \in DOMAIN pricing :
             /\ pricing[id].node_type \in BOOLEAN /\ pricing[id].current \in Nat \cup {Absent}
             /\ IsFiniteSet(pricing[id].options)
             /\ ~pricing[id].node_type => pricing[id].current = Absent /\ pricing[id].options = {}
             /\ \A option \in pricing[id].options :
                  /\ option.eligible \in BOOLEAN /\ option.commitment \in BOOLEAN
                  /\ option.saving \in Int \cup {Absent}
                  /\ option.key = "graviton" => ~option.commitment
    BY <1>1, PricingsAssumption
  <1>3. /\ DOMAIN savings.options = DOMAIN pricing
        /\ \A id \in DOMAIN pricing : savings.options[id] = Offered(id)
    BY <1>1
  <1>4. \A id \in DOMAIN pricing :
          /\ (\E o \in Offered(id) : o.is_decommission) <=>
               pricing[id].node_type /\ ClassificationOf(id) = "IDLE"
          /\ pricing[id].node_type /\ ClassificationOf(id) = "IDLE" => Cardinality(Offered(id)) = 1
          /\ pricing[id].node_type /\ ClassificationOf(id) # "IDLE" =>
               Offered(id) = {GateOption(option, SteadinessOf(id)) : option \in pricing[id].options}
    BY <1>2, GateKeepsApart
  <1> HIDE DEF savings, Offered
  <1>5. Decommissioned = {id \in DOMAIN pricing : pricing[id].node_type /\ ClassificationOf(id) = "IDLE"}
    BY <1>3, <1>4 DEF Decommissioned, savings
  <1>6. \A id \in Decommissioned : /\ OnGrid(metricsFile[id]) => ServedNothing(metricsFile[id])
                                   /\ Cardinality(savings.options[id]) = 1
    BY <1>1, <1>3, <1>4, <1>5, IdleServedNothing
  <1>7. counted = IdleIds
    BY <1>2, <1>5 DEF IdleIds
  <1>8. Spent(pricing, counted) \in Nat
    <2> DEFINE w == [id \in counted |-> pricing[id].current]
    <2>1. IsFiniteSet(counted)
      <3>1. counted \subseteq DOMAIN pricing
        BY <1>5
      <3> QED
        BY <1>2, <3>1, FS_Subset
    <2>2. \A id \in counted : w[id] \in Nat
      BY <1>2, <1>5
    <2> HIDE DEF w, counted
    <2>3. SumOver(w, counted) \in Nat
      BY <2>1, <2>2, SumIsNatural
    <2> QED
      BY <2>3, SpentSummed DEF w
  <1>9. savings.idle_recoverable = IF Spent(pricing, counted) = 0 THEN Absent ELSE Spent(pricing, counted)
    <2>1. IdleRecoverable = IF Spent(pricing, counted) > 0 THEN Spent(pricing, counted) ELSE Absent
      BY <1>7, Recoverable
    <2> HIDE DEF counted
    <2> QED
      BY <1>1, <1>8, <2>1
  <1>10. ASSUME best # Absent
         PROVE  \E o \in OfferedUnwarned : o.saving = best
    <2> DEFINE steady == {id \in DOMAIN pricing : /\ ClassificationOf(id) \notin {"unknown", "IDLE"}
                                                  /\ SteadinessOf(id) = "steady"}
               Eligible(id) == {o \in pricing[id].options : o.eligible /\ o.commitment /\ o.saving # Absent}
               eligible == UNION {Eligible(id) : id \in steady}
    <2>1. CommittedSavings = {o.saving : o \in eligible} /\ CommittedSavings # {}
      BY <1>1, <1>10 DEF CommittedSavings
    <2>2. CommittedSavings \in SUBSET Int
      BY <1>2, <2>1
    <2>3. IsFiniteSet(CommittedSavings)
      <3>1. \A id \in steady : IsFiniteSet(Eligible(id))
        BY <1>2, FS_Subset
      <3>2. IsFiniteSet(steady)
        BY <1>2, FS_Subset
      <3> DEFINE part == [id \in steady |-> Eligible(id)]
                 parts == {part[id] : id \in steady}
      <3>3. eligible = UNION parts /\ \A p \in parts : IsFiniteSet(p)
        BY <3>1
      <3> HIDE DEF part, Eligible, eligible, steady
      <3>4. IsFiniteSet(parts)
        BY <3>2, ImageFinite
      <3> HIDE DEF parts
      <3>5. IsFiniteSet(eligible)
        BY <3>3, <3>4, FS_UNION
      <3> DEFINE saved == [o \in eligible |-> o.saving]
      <3>6. CommittedSavings = {saved[o] : o \in eligible}
        BY <2>1
      <3> HIDE DEF saved
      <3> QED
        BY <3>5, <3>6, ImageFinite
    <2>4. best \in CommittedSavings
      BY <1>1, <1>10, <2>1, <2>2, <2>3, GreatestExists
    <2>5. PICK id \in steady : \E o \in Eligible(id) : o.saving = best
      BY <2>1, <2>4
    <2>6. PICK option \in Eligible(id) : option.saving = best
      BY <2>5
    <2>7. /\ id \in DOMAIN pricing /\ ClassificationOf(id) # "IDLE" /\ SteadinessOf(id) = "steady"
          /\ option \in pricing[id].options /\ option.eligible /\ option.commitment
          /\ option.saving # Absent
      OBVIOUS
    <2>8. pricing[id].node_type /\ option.key # "graviton" /\ option.commitment \in BOOLEAN
      BY <1>2, <2>7
    <2> DEFINE o == GateOption(option, "steady")
    <2>9. o.commitment /\ ~o.risk /\ o.saving = best
      BY <2>6, <2>7, <2>8, CommitmentPasses
    <2>10. o \in savings.options[id]
      BY <1>3, <1>4, <2>7, <2>8
    <2>11. id \in DOMAIN savings.options \ Decommissioned
      BY <1>3, <1>5, <2>7
    <2> HIDE DEF o
    <2>12. o.saving # Absent
      BY <2>6, <2>7, <2>9
    <2>13. o \in OfferedUnwarned
      BY <2>9, <2>10, <2>11, <2>12 DEF OfferedUnwarned, savings
    <2> QED
      BY <2>9, <2>13
  <1> QED
    BY <1>6, <1>9, <1>10 DEF SavingsAreEvidenced, Spent, savings

\* "joins pricing with the analysis verdict so the report never contradicts itself":
\* in every report, whatever the prices and the series, a cluster it advises to
\* switch off is offered nothing else and, if its counters were measured on its grid,
\* has served nothing in the window; what the report says can be recovered is what
\* those clusters cost, and the best commitment is offered, without a warning, for a
\* cluster that is kept.
THEOREM SavingsRestOnEvidence == Spec => []SavingsAreEvidenced
  <1>1. Init => SavingsInv
    BY ScenariosAssumption DEF Init, Inputs, ReportInit, SavingsInv
  <1>2. SavingsInv /\ [Next]_vars => SavingsInv'
    BY SavingsStep
  <1>3. Spec => []ResultsInvariant
    BY ReviewImplementsAnalysis, ResultsAreKept
  <1>4. ResultsInvariant /\ SavingsInv => SavingsAreEvidenced
    BY SavingsRest
  <1> QED
    BY <1>1, <1>2, <1>3, <1>4, PTL DEF Spec
=============================================================================
