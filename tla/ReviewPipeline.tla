---------------------------- MODULE ReviewPipeline ----------------------------
(***************************************************************************)
(* scripts/run_review.py and what comes after it.  run_review runs five    *)
(* stages as child processes, one at a time, over one output directory;    *)
(* each replaces its own file atomically and the first one that exits with *)
(* a code other than zero ends the review.  Afterwards an agent writes its *)
(* notes and the prices of the clusters, and generate_html_report.py       *)
(* renders whatever files it finds.                                        *)
(*                                                                         *)
(* The directory survives: a review may fail or be killed half way and the *)
(* next one starts over the files of the earlier ones.  A file is modelled *)
(* by its provenance: the review that wrote it and the reviews that wrote  *)
(* what it was computed from.  The measurements of a review are a value    *)
(* per subject; the subjects that breach are numbered as findings.  Stage  *)
(* 2's own files are the subject of FetchMetrics.                          *)
(***************************************************************************)
EXTENDS Integers, FiniteSets

CONSTANTS
  N,           \* how many subjects a finding can be about, in the models' order
  Values,      \* what a subject can measure
  Breaching,   \* the values that make a finding
  MaxReviews,  \* bound: how many reviews are started
  NoFile,      \* the content of a path that does not exist
  NoFigure,    \* a note whose prose quotes no number
  NoProse      \* notes without any prose, which only name a finding

ASSUME NAssumption == N \in Nat
ASSUME BreachingAssumption == Breaching \subseteq Values
ASSUME MaxReviewsAssumption == MaxReviews \in Nat
ASSUME NoFigureAssumption == NoFigure \notin Values /\ NoProse \notin Values \cup {NoFigure}

VARIABLES
  review,      \* number of reviews started
  stage,       \* the stage run_review is in
  child,       \* the stage's process: "running", or how it ended
  exit,        \* run_review's exit code, -1 while there is none
  inventory, metrics, analysis, config, reportData,  \* the stages' files
  notes,       \* notes.json, written by the agent
  pricing,     \* the review whose clusters pricing.json prices, 0 without the file
  report       \* the last rendered report

files == <<inventory, metrics, analysis, config, reportData>>
pipeline == <<review, stage, child, exit>>
byAgent == <<notes, pricing>>
vars == <<pipeline, files, byAgent, report>>

-----------------------------------------------------------------------------
(* Files.  A definition named like the one that follows it with a suffix   *)
(* is that definition with a plausible fault.                              *)

Subjects == 1..N
Measurement == [Subjects -> Values]

Inventory == [run : Nat, complete : BOOLEAN]
Metrics == [run : Nat, inventory : Nat, complete : BOOLEAN, data : Measurement]
Analysis == [run : Nat, inventory : Nat, metrics : Nat, complete : BOOLEAN,
             data : Measurement]
Config == [run : Nat, inventory : Nat]
ReportData == [run : Nat, metrics : Nat]
Figure == Values \cup {NoFigure, NoProse}
Note == [run : Nat, id : Nat, judged : Subjects, figure : Figure]
Report == [complete : BOOLEAN, inventory : Nat, analysis : Nat, charts : Nat, config : Nat,
           pricing : Nat, data : Measurement, note : Note \cup {NoFile}]

ASSUME NoFileAssumption ==
  NoFile \notin Inventory \cup Metrics \cup Analysis \cup Config \cup ReportData \cup Note
                  \cup Report

\* The findings of an analysis; a finding's id is its position among them
\* (_finding_counter).
Findings(data) == {s \in Subjects : data[s] \in Breaching}
FindingId(data, s) == Cardinality({t \in Findings(data) : t <= s})
FindingIds(data) == {FindingId(data, s) : s \in Findings(data)}

Stages == {"discover", "fetch", "analyze", "check", "reduce"}
After == [discover |-> "fetch", fetch |-> "analyze", analyze |-> "check",
          check |-> "reduce", reduce |-> "finished"]

-----------------------------------------------------------------------------
(* run_review.py                                                           *)

Stopped == stage \in {"idle", "finished", "killed"}

Init ==
  /\ review = 0
  /\ stage = "idle"
  /\ child = "none"
  /\ exit = -1
  /\ inventory = NoFile /\ metrics = NoFile /\ analysis = NoFile
  /\ config = NoFile /\ reportData = NoFile
  /\ notes = NoFile
  /\ pricing = 0
  /\ report = NoFile

StartReview ==
  /\ Stopped
  /\ review < MaxReviews
  /\ review' = review + 1
  /\ stage' = "discover"
  /\ child' = "running"
  /\ exit' = -1
  /\ UNCHANGED <<files, byAgent, report>>

\* run_stage returned True: the next stage's process is started, and after the
\* last one main returns 0.  (The check that inventory.json exists cannot fail:
\* a Stage 1 that exits 0 has replaced it.)
ChildOkIfFileExists ==
  LET output == [discover |-> inventory, fetch |-> metrics, analyze |-> analysis,
                 check |-> config, reduce |-> reportData]
  IN child \in {"succeeded", "failed"} /\ output[stage] # NoFile
ChildOk == child = "succeeded"
NextStage ==
  /\ ~Stopped
  /\ ChildOk
  /\ stage' = After[stage]
  /\ child' = IF stage = "reduce" THEN "none" ELSE "running"
  /\ exit' = IF stage = "reduce" THEN 0 ELSE -1
  /\ UNCHANGED <<review, files, byAgent, report>>

\* run_stage returned False: main returns 1 at once.
EndReviewByRetrying ==
  /\ ~Stopped
  /\ child = "failed"
  /\ child' = "running"
  /\ UNCHANGED <<review, stage, exit, files, byAgent, report>>
EndReviewWithStageCode ==
  /\ ~Stopped
  /\ child = "failed"
  /\ stage' = "finished"
  /\ child' = "none"
  /\ exit' = 2
  /\ UNCHANGED <<review, files, byAgent, report>>
EndReview ==
  /\ ~Stopped
  /\ child = "failed"
  /\ stage' = "finished"
  /\ child' = "none"
  /\ exit' = 1
  /\ UNCHANGED <<review, files, byAgent, report>>

\* The review and its child are killed between two steps.
Kill ==
  /\ ~Stopped
  /\ stage' = "killed"
  /\ child' = "none"
  /\ UNCHANGED <<review, exit, files, byAgent, report>>

-----------------------------------------------------------------------------
(* The stages                                                              *)

Child(s, outcome) ==
  /\ stage = s
  /\ child = "running"
  /\ child' = outcome
  /\ UNCHANGED <<review, stage, exit, byAgent, report>>

\* Any stage can end without having replaced its file: unreadable input, an
\* AWS error, a write that failed.
StageFails(s) ==
  /\ Child(s, "failed")
  /\ UNCHANGED files

\* discover_inventory exits 0 over a complete inventory; over a partial one, or
\* one without clusters, it writes the file as well and exits 1 or 2.
Discover(complete) ==
  /\ Child("discover", IF complete THEN "succeeded" ELSE "failed")
  /\ inventory' = [run |-> review, complete |-> complete]
  /\ UNCHANGED <<metrics, analysis, config, reportData>>

\* fetch_metrics likewise; see FetchMetrics for what it writes and returns.
Fetch(data, complete) ==
  /\ Child("fetch", IF complete THEN "succeeded" ELSE "failed")
  /\ metrics' = [run |-> review, inventory |-> inventory.run,
                 complete |-> complete /\ inventory.complete, data |-> data]
  /\ UNCHANGED <<inventory, analysis, config, reportData>>

Analyze ==
  /\ Child("analyze", "succeeded")
  /\ analysis' = [run |-> review, inventory |-> inventory.run, metrics |-> metrics.run,
                  complete |-> metrics.complete /\ inventory.complete, data |-> metrics.data]
  /\ UNCHANGED <<inventory, metrics, config, reportData>>

Check ==
  /\ Child("check", "succeeded")
  /\ config' = [run |-> review, inventory |-> inventory.run]
  /\ UNCHANGED <<inventory, metrics, analysis, reportData>>

Reduce ==
  /\ Child("reduce", "succeeded")
  /\ reportData' = [run |-> review, metrics |-> metrics.run]
  /\ UNCHANGED <<inventory, metrics, analysis, config>>

-----------------------------------------------------------------------------
(* The agent and the report                                                *)

\* After a review that succeeded the agent judges one of its findings.  The
\* number it quotes, if any, may be wrong: checking it is the renderer's part.
WriteNotes(s, figure) ==
  /\ stage = "finished" /\ exit = 0
  /\ s \in Findings(analysis.data)
  /\ notes' = [run |-> analysis.run, id |-> FindingId(analysis.data, s), judged |-> s,
               figure |-> figure]
  /\ UNCHANGED <<pipeline, files, pricing, report>>

\* It may also look up what the reviewed clusters cost.
WritePricing ==
  /\ stage = "finished" /\ exit = 0
  /\ pricing' = inventory.run
  /\ UNCHANGED <<pipeline, files, notes, report>>

\* verify_notes: the quoted number is under the cited path, and the annotated
\* finding exists.  Without prose it returns before it looks at either.
NotesPass(n, data) ==
  n.figure # NoProse =>
    /\ n.figure # NoFigure => data[n.judged] = n.figure
    /\ n.id \in FindingIds(data)

\* The file the charts come from: report_data.json when it is there, else the
\* metrics, without either there is no report.
Charts == IF reportData # NoFile THEN reportData.metrics
          ELSE IF metrics # NoFile THEN metrics.run ELSE 0

Rendered ==
  [complete |-> stage = "finished" /\ exit = 0,
   inventory |-> inventory.run,
   analysis |-> analysis.run,
   charts |-> Charts,
   config |-> IF config = NoFile THEN 0 ELSE config.run,
   pricing |-> pricing,
   data |-> analysis.data,
   note |-> notes]

\* generate_html_report between two reviews.  Notes that fail the gate, like a
\* missing input, leave the earlier report in place.
Render ==
  /\ Stopped
  /\ inventory # NoFile /\ analysis # NoFile /\ Charts # 0
  /\ notes # NoFile => NotesPass(notes, analysis.data)
  /\ report' = Rendered
  /\ UNCHANGED <<pipeline, files, byAgent>>

-----------------------------------------------------------------------------
(* Specification                                                           *)

StageStep ==
  \/ \E s \in Stages : StageFails(s)
  \/ \E complete \in BOOLEAN : Discover(complete)
  \/ \E data \in Measurement, complete \in BOOLEAN : Fetch(data, complete)
  \/ Analyze
  \/ Check
  \/ Reduce

ProgramStep == StageStep \/ NextStage \/ EndReview

Next ==
  \/ StartReview
  \/ ProgramStep
  \/ Kill
  \/ \E s \in Subjects, figure \in Figure : WriteNotes(s, figure)
  \/ WritePricing
  \/ Render

Spec == Init /\ [][Next]_vars

\* A child process ends (its AWS calls time out, see FetchMetrics!RunEnds for
\* the longest stage) and run_review goes on.
FairSpec == Spec /\ WF_vars(ProgramStep)

-----------------------------------------------------------------------------
(* Properties                                                              *)

TypeOK ==
  /\ review \in Nat
  /\ stage \in Stages \cup {"idle", "finished", "killed"}
  /\ child \in {"none", "running", "succeeded", "failed"}
  /\ exit \in {-1, 0, 1}
  /\ inventory \in Inventory \cup {NoFile}
  /\ metrics \in Metrics \cup {NoFile}
  /\ analysis \in Analysis \cup {NoFile}
  /\ config \in Config \cup {NoFile}
  /\ reportData \in ReportData \cup {NoFile}
  /\ notes \in Note \cup {NoFile}
  /\ pricing \in Nat
  /\ report \in Report \cup {NoFile}

\* run_review returning 0 promises the five files it lists: each is there, was
\* written by this review, and none is left over from an earlier one.
CompleteReviewIsFresh ==
  stage = "finished" /\ exit = 0 =>
    /\ inventory # NoFile /\ inventory.run = review /\ inventory.complete
    /\ metrics # NoFile /\ metrics.run = review /\ metrics.complete
    /\ analysis # NoFile /\ analysis.run = review
    /\ config # NoFile /\ config.run = review
    /\ reportData # NoFile /\ reportData.run = review

\* Whatever reviews failed or were killed, no stage ever reads a file an earlier
\* review left behind, and nothing is computed from a partial collection.
OwnInputs ==
  /\ metrics # NoFile => metrics.inventory = metrics.run
  /\ analysis # NoFile => /\ analysis.inventory = analysis.run
                          /\ analysis.metrics = analysis.run
                          /\ analysis.complete
  /\ config # NoFile => config.inventory = config.run
  /\ reportData # NoFile => reportData.metrics = reportData.run

\* Of a report rendered after a review that returned 0, the parts the five stages
\* contribute are of one review, although main picks four of them up by the mere
\* existence of a file.  The agent's two files, which are picked up the same way,
\* may be of an earlier one: no stage replaces them.
StagePartsAreOneReview ==
  report # NoFile /\ report.complete =>
    /\ report.analysis = report.inventory
    /\ report.charts = report.inventory
    /\ report.config = report.inventory

\* A review that is not killed ends.
ReviewEnds == stage = "discover" ~> Stopped

-----------------------------------------------------------------------------
(* Claims of the code's comments that the code does not keep               *)

\* run_review, Stage 3.5: "Independent of Stage 3, so a metrics failure must not
\* cost us the security and reliability checks".  When a review ends because
\* its metrics were not collected or not analysed, its configuration findings
\* are there.
ChecksSurviveMetricsFailure ==
  [][(stage \in {"fetch", "analyze"} /\ stage' = "finished") =>
       config # NoFile /\ config.run = review]_vars

\* generate_html_report.main: "Staleness is not silent [...] an out-of-date
\* notes.json fails the render rather than attaching last week's judgement to
\* this week's data".  A note with prose is only ever shown on the finding it
\* judged.
StaleNotesRejected ==
  report # NoFile /\ report.note # NoFile /\ report.note.figure # NoProse =>
    /\ report.note.judged \in Findings(report.data)
    /\ report.note.id = FindingId(report.data, report.note.judged)
===============================================================================
