----------------------------- MODULE FleetReview -----------------------------
(***************************************************************************)
(* The second half of a review, from the files of Stages 1 and 2 to the    *)
(* report: Stage 3, Stage 3.5 and the reduction one after the other, as    *)
(* run_review.py starts them, then the agent's notes and the render.  Here *)
(* a file is its content, where ReviewPipeline has only its provenance.    *)
(***************************************************************************)
EXTENDS ReportContent

CONSTANT Scenarios  \* the files and arguments a review can start from

Inputs == [inventory : Inventories, metrics : MetricsFiles, policy : Policies, today : Dates,
           pricing : Pricings]
ASSUME ScenariosAssumption == Scenarios \subseteq Inputs

VARIABLE stage  \* "analyze", "check", "reduce", "notes", "render" or "done"

vars == <<inventory, analyzeVars, checkVars, reportVars, stage>>

Init ==
  /\ \E s \in Scenarios :
       /\ inventory = s.inventory /\ metricsFile = s.metrics
       /\ policy = s.policy /\ today = s.today /\ pricing = s.pricing
  /\ AnalyzeInit /\ CheckInit /\ ReportInit
  /\ stage = "analyze"

-----------------------------------------------------------------------------
(* run_review.py: a stage that exits with 1 ends the review.  The scripts  *)
(* that do not depend on its file can still be started by hand.            *)

AfterStage(exit, this, next, otherwise) ==
  stage' = CASE exit = 0 -> next [] exit = -1 -> this [] OTHER -> otherwise

Analyze ==
  /\ stage = "analyze" /\ AnalyzeNext
  /\ AfterStage(analyzeExit', "analyze", "check", "check")
  /\ UNCHANGED <<checkVars, reportVars>>
CheckConfig ==
  /\ stage = "check" /\ CheckNext
  /\ AfterStage(checkExit', "check", "reduce", "notes")
  /\ UNCHANGED <<inventory, analyzeVars, reportVars>>
Reduce ==
  /\ stage = "reduce" /\ EmitReportData
  /\ stage' = "notes"
  /\ UNCHANGED <<inventory, analyzeVars, checkVars>>
ReduceFails ==
  /\ stage = "reduce"
  /\ stage' = "notes"
  /\ UNCHANGED <<inventory, analyzeVars, checkVars, reportVars>>
RenderReport ==
  /\ stage = "render" /\ (RenderRefused \/ RenderRejectsNotes \/ Render \/ RenderFails)
  /\ stage' = "done"
  /\ UNCHANGED <<inventory, analyzeVars, checkVars>>

-----------------------------------------------------------------------------
(* The agent (external).  It may answer every fleet-wide pattern with one  *)
(* note, forget one, judge one twice, quote a figure without support, name *)
(* a finding that is not there, or write no reasoning at all.              *)

Note(id, reasoning, supported) ==
  [id |-> id, reasoning |-> reasoning, supported |-> supported, verdict |-> "confirmed"]
NotesWith(assessment, list) == [assessment |-> assessment, findings |-> list]
Unknown == <<Absent, "configuration", 0>>

Patterns == FleetWidePatterns(ListedFindings, Cardinality(InventoryIds))
AnswerTo(key) == (CHOOSE f \in ListedFindings : f.key = key).id
Answers(keys) == Listed(keys, LAMBDA key : Note(AnswerTo(key), TRUE, TRUE))
BareVerdicts(keys) == Listed(keys, LAMBDA key : Note(AnswerTo(key), FALSE, TRUE))
NotesChoices ==
  {Absent, NotesWith("supported", Answers(Patterns)), NotesWith("unsupported", Answers(Patterns)),
   NotesWith("supported", BareVerdicts(Patterns)),
   NotesWith("none", Answers(Patterns) \o <<Note(Unknown, FALSE, TRUE)>>)}
    \cup {NotesWith("supported", Answers(Patterns \ {key})) : key \in Patterns}
    \cup {NotesWith("none", Answers(Patterns) \o <<Note(AnswerTo(key), FALSE, TRUE)>>) : key \in Patterns}
    \cup {NotesWith("none", Answers(Patterns) \o <<Note(f.id, TRUE, FALSE)>>) : f \in ListedFindings}
WriteNotes ==
  /\ stage = "notes"
  /\ notes' \in IF analysisFile = Absent THEN {Absent} ELSE NotesChoices
  /\ stage' = "render"
  /\ UNCHANGED <<inventory, analyzeVars, checkVars, reportData, pricing, report, renderExit>>

\* Nothing is left to do: the only way to stop.
Finished == stage = "done" /\ UNCHANGED vars

Next == Analyze \/ CheckConfig \/ Reduce \/ ReduceFails \/ WriteNotes \/ RenderReport \/ Finished

Spec == Init /\ [][Next]_vars

-----------------------------------------------------------------------------
(* Properties                                                              *)

\* ConfigurationChecker.check_cluster: "so 'did not apply' never reads as
\* 'passed'".  In a report, for every cluster and every check: a finding is
\* shown exactly if the record in the table fails the check, and where nothing
\* is shown the check is listed as skipped, the cluster as unchecked, or the
\* record has passed, whichever predicates raised and however many records
\* carry the name.
Passes(c, k) ==
  /\ c.cluster_type \in Checks[k].types
  /\ ~ReadsMalformed(c, Checks[k].id) /\ ~AsksToSkip(c, Checks[k].id)
  /\ ~Fails(c)[Checks[k].id]
ReportsCheck(id, k) == \E f \in report.findings : f.cluster = id /\ f.check = Checks[k].id
NotChecked(id, k) ==
  \/ report.config = Absent
  \/ id \in report.config.unchecked
  \/ <<Checks[k].id, id>> \in report.config.skipped
SilenceMeansPassed ==
  report # Absent =>
    \A id \in DOMAIN report.rows, k \in DOMAIN Checks :
      LET c == LastRecordOf(Records, id)
      IN IF ReportsCheck(id, k)
         THEN Fails(c)[Checks[k].id] /\ ~NotChecked(id, k)
         ELSE NotChecked(id, k) \/ Passes(c, k)

\* "so a reader can recompute a score by hand from the findings": each pillar
\* score of a cluster is what the findings shown for it, classified by their
\* own text, leave of 100, although scores and list are built from the files
\* separately.
ShownPillar(f) ==
  IF f.check # "none" THEN (CHOOSE k \in Range(Checks) : k.id = f.check).pillar
  ELSE CASE f.key[1] = "correlation" -> "none"
         [] f.key[1] = "utilization" /\ f.key[3] \in {"IDLE", "OVER-PROVISIONED"} -> "sustainability"
         [] OTHER -> "performance"
ScoresAccountForFindings ==
  report # Absent =>
    \A id \in DOMAIN report.rows, p \in Pillars :
      LET own == {f \in report.findings : f.cluster = id /\ ShownPillar(f) = p}
          left == 100 - MapThenSumSet(LAMBDA f : ScorePenalty[f.severity], own)
      IN report.scores.clusters[id].pillars[p] = IF left < 0 THEN 0 ELSE left

\* _gate_options: "joins pricing with the analysis verdict so the report never
\* contradicts itself".  A cluster the report advises to switch off has served
\* nothing in the window (when its traffic counters were measured at the timestamps
\* of its grid: otherwise see IdleRestsOnTraffic), and is offered nothing else; what
\* the fleet can recover is what those clusters cost, and the best commitment is one
\* the report offers without a warning for a cluster it keeps.
Decommissioned ==
  {id \in DOMAIN report.savings.options :
     \E o \in report.savings.options[id] : o.is_decommission}
OfferedUnwarned ==
  UNION {{o \in report.savings.options[id] : o.commitment /\ ~o.risk /\ o.saving # Absent} :
           id \in DOMAIN report.savings.options \ Decommissioned}
SavingsAreEvidenced ==
  (report # Absent /\ report.savings # Absent) =>
    LET spent == MapThenSumSet(LAMBDA id : pricing[id].current,
                               {id \in Decommissioned : pricing[id].current # Absent})
        best == report.savings.best_committed
    IN /\ \A id \in Decommissioned :
            /\ OnGrid(metricsFile[id]) => ServedNothing(metricsFile[id])
            /\ Cardinality(report.savings.options[id]) = 1
       /\ report.savings.idle_recoverable = IF spent = 0 THEN Absent ELSE spent
       /\ best # Absent => \E o \in OfferedUnwarned : o.saving = best

\* verify_coverage: a finding that recurs on half of the clusters of a fleet of
\* at least two "is not silently dropped": a report with notes shows reasoning
\* on one of its occurrences, when no finding has two notes (the last is shown).
NotedOnce == Cardinality(NotedIds) = Len(notes.findings)
SystemicFindingsAnswered ==
  (report # Absent /\ notes # Absent /\ NotedOnce /\ Cardinality(DOMAIN report.rows) >= 2) =>
    \A f \in report.findings :
      LET clusters == {g.cluster : g \in {g \in report.findings : g.key = f.key}}
      IN (Cardinality(clusters) >= 2 /\ 2 * Cardinality(clusters) >= Cardinality(DOMAIN report.rows))
           => \E g \in report.findings : g.key = f.key /\ g.note

\* The reduction hides no peak of what the grid covers: of every node and metric
\* with values, no value measured in a period of the grid is above the curve, a last
\* bucket that is not full included, the curve shows measured values only, and a
\* metric is summarised as flat only if no value in the grid is positive.  (Values
\* beyond the grid, which the cluster's first series ends, are not charted.)
Within(series, grid) == SubSeq(series, 1, Min({Len(series), Len(grid)}))
ChartsKeepPeaks ==
  report # Absent =>
    \A id \in DOMAIN report.panels \cap DOMAIN metricsFile :
      LET bundle == report.panels[id].bundle
          nodes == metricsFile[id].nodes
      IN \A n \in DOMAIN nodes : \A key \in DOMAIN nodes[n].series :
           LET series == nodes[n].series[key]
               covered == {v \in Range(Within(series, metricsFile[id].timestamps)) : Measured(v)}
           IN /\ series # <<>> => key \in DOMAIN bundle.charts \cup bundle.flat_zero
              /\ key \in bundle.flat_zero => \A v \in covered : v <= 0
              /\ key \in DOMAIN bundle.charts =>
                   \A curve \in Range(bundle.charts[key]) :
                     curve.node = nodes[n].id =>
                       /\ \A v \in covered : \E w \in Range(curve.values) \ {Absent} : v <= w
                       /\ Range(curve.values) \ {Absent} \subseteq Range(series)

\* A review ends, whatever raises and however its inputs are broken: each step
\* of a stage leaves less to do, and (the run looks for deadlocks) there is always
\* a step until the render is done.
AnalysisLeft == 100 * Cardinality(pending) + (IF cluster = Absent THEN 0 ELSE 50 - position)
ChecksLeft == 100 * (Len(Records) + 1 - record) + 20 - check
Remaining ==
  CASE stage = "analyze" -> 4 + ChecksLeft + AnalysisLeft
    [] stage = "check" -> 3 + ChecksLeft
    [] stage = "reduce" -> 3 [] stage = "notes" -> 2 [] stage = "render" -> 1
    [] OTHER -> 0
EveryStepIsProgress == [][Remaining' \in 0..(Remaining - 1)]_vars
=============================================================================
