------------------------- MODULE ReviewPipelineProofs -------------------------
(***************************************************************************)
(* Proofs about ReviewPipeline for any number of reviews, failures, kills, *)
(* notes and renders.                                                      *)
(***************************************************************************)
EXTENDS ReviewPipeline, FiniteSetTheorems, TLAPS

-----------------------------------------------------------------------------
(* The inductive invariant                                                 *)

\* The stage s of this review has replaced its file.
Passed(s) ==
  \/ stage = s /\ child = "succeeded"
  \/ stage = "finished" /\ exit = 0
  \/ stage = "fetch" /\ s = "discover"
  \/ stage = "analyze" /\ s \in {"discover", "fetch"}
  \/ stage = "check" /\ s \in {"discover", "fetch", "analyze"}
  \/ stage = "reduce" /\ s \in {"discover", "fetch", "analyze", "check"}

\* What a stage that passed has left.
StagesPassed ==
  /\ Passed("discover") => inventory # NoFile /\ inventory.run = review /\ inventory.complete
  /\ Passed("fetch") => metrics # NoFile /\ metrics.run = review /\ metrics.complete
  /\ Passed("analyze") => analysis # NoFile /\ analysis.run = review
  /\ Passed("check") => config # NoFile /\ config.run = review
  /\ Passed("reduce") => reportData # NoFile /\ reportData.run = review

IInv == TypeOK /\ OwnInputs /\ StagesPassed /\ StagePartsAreOneReview

-----------------------------------------------------------------------------
(* Type correctness                                                        *)

USE DEF files, pipeline, byAgent, vars

LEMMA InitType == Init => TypeOK
  BY DEF Init, TypeOK

\* Finding ids are numbers.
LEMMA FindingIdType ==
  ASSUME NEW data, NEW s
  PROVE  FindingId(data, s) \in Nat
  <1>1. IsFiniteSet(Subjects)
    BY NAssumption, FS_Interval DEF Subjects
  <1>2. {t \in Findings(data) : t <= s} \subseteq Subjects
    BY DEF Findings
  <1> QED
    BY <1>1, <1>2, FS_Subset, FS_CardinalityType DEF FindingId

\* In the middle of a review the stage before has left what the next one reads.
LEMMA InputsThere ==
  ASSUME TypeOK, StagesPassed
  PROVE  /\ stage \in {"fetch", "analyze", "check", "reduce"} =>
              inventory \in Inventory /\ inventory.run = review /\ inventory.complete
         /\ stage \in {"analyze", "check", "reduce"} =>
              metrics \in Metrics /\ metrics.run = review /\ metrics.complete
         /\ stage = "finished" /\ exit = 0 =>
              /\ inventory.run = review /\ analysis \in Analysis /\ analysis.run = review
              /\ config # NoFile /\ config.run = review
              /\ reportData # NoFile /\ reportData.run = review
  BY DEF TypeOK, StagesPassed, Passed

\* What each stage writes is a file of its kind.
LEMMA StageWrites ==
  ASSUME TypeOK, StagesPassed
  PROVE  /\ \A complete \in BOOLEAN : Discover(complete) =>
              inventory' \in Inventory /\ inventory' # NoFile
         /\ \A data \in Measurement, complete \in BOOLEAN : Fetch(data, complete) =>
              metrics' \in Metrics /\ metrics' # NoFile
         /\ Analyze => analysis' \in Analysis /\ analysis' # NoFile
         /\ Check => config' \in Config /\ config' # NoFile
         /\ Reduce => reportData' \in ReportData /\ reportData' # NoFile
  <1> USE DEF Child
  <1>1. ASSUME NEW complete \in BOOLEAN, Discover(complete)
        PROVE  inventory' \in Inventory
    BY <1>1 DEF Discover, Inventory, TypeOK
  <1>2. ASSUME NEW data \in Measurement, NEW complete \in BOOLEAN, Fetch(data, complete)
        PROVE  metrics' \in Metrics
    BY <1>2, InputsThere DEF Fetch, Metrics, Inventory, TypeOK
  <1>3. Analyze => analysis' \in Analysis
    BY InputsThere DEF Analyze, Analysis, Metrics, Inventory, TypeOK
  <1>4. Check => config' \in Config
    BY InputsThere DEF Check, Config, Inventory, TypeOK
  <1>5. Reduce => reportData' \in ReportData
    BY InputsThere DEF Reduce, ReportData, Metrics, TypeOK
  <1> QED
    BY <1>1, <1>2, <1>3, <1>4, <1>5, NoFileAssumption

LEMMA StageType ==
  ASSUME TypeOK, StagesPassed, StageStep
  PROVE  TypeOK'
  <1> USE DEF TypeOK, Child
  <1>1. ASSUME NEW s \in Stages, StageFails(s)
        PROVE  TypeOK'
    BY <1>1 DEF StageFails
  <1>2. ASSUME NEW complete \in BOOLEAN, Discover(complete)
        PROVE  TypeOK'
    BY <1>2, StageWrites DEF Discover
  <1>3. ASSUME NEW data \in Measurement, NEW complete \in BOOLEAN, Fetch(data, complete)
        PROVE  TypeOK'
    BY <1>3, StageWrites DEF Fetch
  <1>4. CASE Analyze
    BY <1>4, StageWrites DEF Analyze
  <1>5. CASE Check
    BY <1>5, StageWrites DEF Check
  <1>6. CASE Reduce
    BY <1>6, StageWrites DEF Reduce
  <1> QED
    BY <1>1, <1>2, <1>3, <1>4, <1>5, <1>6 DEF StageStep

LEMMA RenderType ==
  ASSUME TypeOK, Render
  PROVE  TypeOK' /\ report' = Rendered /\ Rendered \in Report
  <1> USE DEF TypeOK
  <1>1. inventory.run \in Nat /\ analysis.run \in Nat /\ analysis.data \in Measurement
    BY DEF Render, Inventory, Analysis
  <1>2. Charts \in Nat
    BY DEF Charts, ReportData, Metrics
  <1>3. (IF config = NoFile THEN 0 ELSE config.run) \in Nat
    BY DEF Config
  <1>4. (stage = "finished" /\ exit = 0) \in BOOLEAN
    OBVIOUS
  <1>5. Rendered \in Report
    BY <1>1, <1>2, <1>3, <1>4 DEF Rendered, Report
  <1> QED
    BY <1>5 DEF Render

LEMMA NextType ==
  ASSUME TypeOK, StagesPassed, [Next]_vars
  PROVE  TypeOK'
  <1>1. CASE StartReview
    BY <1>1 DEF StartReview, TypeOK, Stages
  <1>2. CASE NextStage
    BY <1>2 DEF NextStage, TypeOK, Stages, After, Stopped
  <1>3. CASE EndReview \/ Kill
    BY <1>3 DEF EndReview, Kill, TypeOK
  <1>4. ASSUME NEW s \in Subjects, NEW figure \in Figure, WriteNotes(s, figure)
        PROVE  TypeOK'
    <2>1. notes' \in Note
      BY <1>4, FindingIdType, InputsThere DEF WriteNotes, Note, Analysis
    <2> QED
      BY <1>4, <2>1 DEF WriteNotes, TypeOK
  <1>5. CASE WritePricing
    <2>1. inventory.run = review
      BY <1>5, InputsThere DEF WritePricing
    <2> QED
      BY <1>5, <2>1 DEF WritePricing, TypeOK
  <1>6. CASE UNCHANGED vars
    BY <1>6 DEF TypeOK
  <1> QED
    BY <1>1, <1>2, <1>3, <1>4, <1>5, <1>6, StageType, RenderType DEF Next, ProgramStep

-----------------------------------------------------------------------------
(* Provenance                                                              *)

LEMMA InitProvenance == Init => OwnInputs /\ StagesPassed /\ StagePartsAreOneReview
  BY DEF Init, OwnInputs, StagesPassed, Passed, StagePartsAreOneReview

\* A stage that ends replaces at most its own file, from inputs of this review.
LEMMA StageProvenance ==
  ASSUME TypeOK, OwnInputs, StagesPassed, StageStep
  PROVE  OwnInputs' /\ StagesPassed'
  <1> USE DEF OwnInputs, StagesPassed, Passed, Child
  <1>1. ASSUME NEW s \in Stages, StageFails(s)
        PROVE  OwnInputs' /\ StagesPassed'
    BY <1>1 DEF StageFails, Stages
  <1>2. ASSUME NEW complete \in BOOLEAN, Discover(complete)
        PROVE  OwnInputs' /\ StagesPassed'
    BY <1>2, StageWrites DEF Discover
  <1>3. ASSUME NEW data \in Measurement, NEW complete \in BOOLEAN, Fetch(data, complete)
        PROVE  OwnInputs' /\ StagesPassed'
    BY <1>3, InputsThere, StageWrites DEF Fetch
  <1>4. CASE Analyze
    BY <1>4, InputsThere, StageWrites DEF Analyze
  <1>5. CASE Check
    BY <1>5, InputsThere, StageWrites DEF Check
  <1>6. CASE Reduce
    BY <1>6, InputsThere, StageWrites DEF Reduce
  <1> QED
    BY <1>1, <1>2, <1>3, <1>4, <1>5, <1>6 DEF StageStep

LEMMA NextProvenance ==
  ASSUME TypeOK, OwnInputs, StagesPassed, [Next]_vars
  PROVE  OwnInputs' /\ StagesPassed'
  <1> USE DEF OwnInputs, StagesPassed, Passed
  <1>1. CASE StartReview
    BY <1>1 DEF StartReview
  <1>2. CASE NextStage
    BY <1>2 DEF NextStage, ChildOk, After, Stopped, TypeOK, Stages
  <1>3. CASE EndReview \/ Kill
    BY <1>3 DEF EndReview, Kill
  <1>4. CASE \/ Render \/ WritePricing
             \/ \E s \in Subjects, figure \in Figure : WriteNotes(s, figure)
    BY <1>4 DEF Render, WriteNotes, WritePricing
  <1>5. CASE UNCHANGED vars
    BY <1>5
  <1> QED
    BY <1>1, <1>2, <1>3, <1>4, <1>5, StageProvenance DEF Next, ProgramStep

\* Only rendering changes the report.
LEMMA NextReport ==
  ASSUME TypeOK, OwnInputs, StagesPassed, StagePartsAreOneReview, [Next]_vars
  PROVE  StagePartsAreOneReview'
  <1> USE DEF StagePartsAreOneReview
  <1>1. CASE Render
    <2>1. report' = Rendered
      BY <1>1 DEF Render
    <2>2. Rendered.complete =>
            /\ Rendered.inventory = review /\ Rendered.analysis = review
            /\ Rendered.config = review /\ Rendered.charts = review
      <3> SUFFICES ASSUME stage = "finished", exit = 0
                   PROVE  /\ Rendered.inventory = review /\ Rendered.analysis = review
                          /\ Rendered.config = review /\ Rendered.charts = review
        BY DEF Rendered
      <3>1. Charts = review
        BY InputsThere DEF Charts, OwnInputs
      <3> QED
        BY <3>1, InputsThere DEF Rendered
    <2> QED
      BY <2>1, <2>2
  <1>2. CASE UNCHANGED report
    BY <1>2
  <1> QED
    BY <1>1, <1>2
    DEF Next, ProgramStep, StartReview, NextStage, EndReview, Kill, WriteNotes, WritePricing,
        StageStep, StageFails, Discover, Fetch, Analyze, Check, Reduce, Child

\* The inductive invariant holds in every behaviour.
THEOREM InductiveInvariant == Spec => []IInv
  <1>1. Init => IInv
    BY InitType, InitProvenance DEF IInv
  <1>2. IInv /\ [Next]_vars => IInv'
    BY NextType, NextProvenance, NextReport DEF IInv
  <1> QED
    BY <1>1, <1>2, PTL DEF Spec

-----------------------------------------------------------------------------
(* What the invariant gives                                                *)

\* Type correctness: every file has the shape its stage writes.
THEOREM TypeCorrect == Spec => []TypeOK
  <1>1. IInv => TypeOK
    BY DEF IInv
  <1> QED
    BY <1>1, InductiveInvariant, PTL

\* When run_review returns 0, each of the five files it lists is there and was
\* written by this review (run_review.main).
THEOREM SuccessIsFresh == Spec => []CompleteReviewIsFresh
  <1>1. IInv => CompleteReviewIsFresh
    BY DEF IInv, StagesPassed, Passed, CompleteReviewIsFresh
  <1> QED
    BY <1>1, InductiveInvariant, PTL

\* No stage computes from a file of another review or from a partial collection
\* (the early returns of run_review.main).
THEOREM NoForeignInputs == Spec => []OwnInputs
  <1>1. IInv => OwnInputs
    BY DEF IInv
  <1> QED
    BY <1>1, InductiveInvariant, PTL

\* What the stages contribute to a report rendered after a successful review is
\* of one run: the inventory, the findings, the charts and the configuration
\* checks (generate_html_report.main).  Nothing is said of the notes and the
\* prices, which main takes by existence whichever review they were written for.
THEOREM StagesMixNoReviews == Spec => []StagePartsAreOneReview
  <1>1. IInv => StagePartsAreOneReview
    BY DEF IInv
  <1> QED
    BY <1>1, InductiveInvariant, PTL

===============================================================================
