------------------------- MODULE CheckConfiguration -------------------------
(***************************************************************************)
(* scripts/check_configuration.py: Stage 3.5.  The registry's checks run   *)
(* one after the other over every record of the inventory.  A check that   *)
(* does not apply, whose predicate asks to be skipped or whose predicate   *)
(* raises is listed as skipped; it is neither a finding nor a pass.        *)
(*                                                                         *)
(* A finding keeps its number, check, severity and, for SEC-06, the        *)
(* premium; wording is left out.  Days are counted from 2026-01-31.        *)
(***************************************************************************)
EXTENDS Fleet, FiniteSets

CONSTANTS
  Policies,    \* the policies of the command line
  Dates        \* review dates (--as-of or today)

ASSUME PoliciesAssumption ==
  Policies \subseteq [replicas : Int, retention : Int, tags : SUBSET Tags]
ASSUME DatesAssumption == Dates \subseteq Int

VARIABLES
  policy, today,   \* the arguments
  record,          \* position of the record under evaluation
  check,           \* position in the registry of the next check
  found, skipped,  \* the record's findings and skipped checks so far
  counter,         \* findings numbered so far, over all records
  results,         \* cluster_id -> what was kept for it
  total, bySeverity,
  findingsFile,    \* config_findings.json
  checkExit        \* exit code, -1 while running

checkVars == <<policy, today, record, check, found, skipped, counter, results,
               total, bySeverity, findingsFile, checkExit>>

-----------------------------------------------------------------------------
(* The predicates, one per check: does the record fail it?                 *)

Unset(retention) == retention = Absent \/ retention = 0

Sec01Tls(c) == ~c.tls
Sec02AtRest(c) == ~c.at_rest
Sec03Auth(c) == c.auth_mode \in {"none", Absent}
Sec04Rbac(c) == c.auth_mode = "AUTH-token"
Sec05SecurityGroups(c) == c.permissive_rules > 0
Rel01MultiAz(c) == ~c.multi_az
Rel02Failover(c) == ~c.failover
Rel03Replicas(c) == c.replicas # Absent /\ c.replicas < policy.replicas
Rel04Backups(c) == Unset(c.retention) /\ "retention" \notin c.malformed
Rel04bRetentionShort(c) == ~Unset(c.retention) /\ c.retention < policy.retention
Oe04Tags(c) == ~(policy.tags \subseteq c.tags)
Oe06aSlowLog(c) == "slow-log" \notin c.active_logs
Oe06bEngineLog(c) == "engine-log" \notin c.active_logs
Cost01Valkey(c) == c.engine = "redis"
Cost06UsageLimits(c) == \E l \in Limits : c.limits[l] = Absent

\* Redis OSS majors whose end of standard support has been announced.
EngineSupportSchedule == [major \in {4, 5, 6} |-> IF major = 6 THEN 365 ELSE 0]
ExtendedSupportPremium == <<80, 80, 160>>
SupportEndWarningDays == 90

Scheduled(c) ==
  /\ c.engine = "redis" /\ c.version # Absent
  /\ c.version[1] \in DOMAIN EngineSupportSchedule
DaysLeftSwapped(c, day) == day - EngineSupportSchedule[c.version[1]]
DaysLeft(c, day) == EngineSupportSchedule[c.version[1]] - day
Sec06SeverityUnranked(c, day) ==
  IF DaysLeft(c, day) < 0 THEN "OVERDUE"
  ELSE IF DaysLeft(c, day) <= SupportEndWarningDays THEN "MEDIUM" ELSE "LOW"
Sec06Severity(c, day) ==
  IF DaysLeft(c, day) < 0 THEN "HIGH"
  ELSE IF DaysLeft(c, day) <= SupportEndWarningDays THEN "MEDIUM" ELSE "LOW"
PremiumYear(overdue) == LET year == overdue \div 365 + 1 IN IF year < 3 THEN year ELSE 3
Premium(c, day) ==
  IF DaysLeft(c, day) < 0 THEN ExtendedSupportPremium[PremiumYear(-DaysLeft(c, day))] ELSE 0

\* Which logs the engine can deliver (_engine_version_tuple compares in order).
FromVersion(c, major, minor) ==
  c.version # Absent /\ (c.version[1] > major \/ (c.version[1] = major /\ c.version[2] >= minor))
SupportsSlowLog(c) == c.engine = "valkey" \/ (c.engine = "redis" /\ FromVersion(c, 6, 0))
SupportsEngineLog(c) == c.engine = "valkey" \/ (c.engine = "redis" /\ FromVersion(c, 6, 2))

-----------------------------------------------------------------------------
(* The registry, in its order.                                             *)

Severities == {"CRITICAL", "HIGH", "MEDIUM", "LOW"}
Node == {"node-based"}
Both == {"node-based", "serverless"}

Check(id, pillar, severity, types) ==
  [id |-> id, pillar |-> pillar, severity |-> severity, types |-> types]
Checks ==
  << Check("SEC_01", "security", "CRITICAL", Node), Check("SEC_02", "security", "HIGH", Node),
     Check("SEC_03", "security", "CRITICAL", Both), Check("SEC_04", "security", "MEDIUM", Both),
     Check("SEC_05", "security", "CRITICAL", Both), Check("REL_01", "reliability", "HIGH", Node),
     Check("REL_02", "reliability", "HIGH", Node), Check("REL_03", "reliability", "MEDIUM", Node),
     Check("REL_04", "reliability", "HIGH", Both), Check("REL_04b", "reliability", "LOW", Both),
     Check("OE_04", "operational_excellence", "LOW", Both),
     Check("OE_06a", "operational_excellence", "LOW", Node),
     Check("OE_06b", "operational_excellence", "LOW", Node),
     Check("COST_01", "cost_optimization", "LOW", Both),
     Check("COST_06", "cost_optimization", "MEDIUM", {"serverless"}),
     Check("SEC_06", "security", "LOW", Both) >>
CheckIds == {Checks[k].id : k \in DOMAIN Checks}

Fails(c) ==
  [SEC_01 |-> Sec01Tls(c), SEC_02 |-> Sec02AtRest(c), SEC_03 |-> Sec03Auth(c),
   SEC_04 |-> Sec04Rbac(c), SEC_05 |-> Sec05SecurityGroups(c), REL_01 |-> Rel01MultiAz(c),
   REL_02 |-> Rel02Failover(c), REL_03 |-> Rel03Replicas(c), REL_04 |-> Rel04Backups(c),
   REL_04b |-> Rel04bRetentionShort(c), OE_04 |-> Oe04Tags(c), OE_06a |-> Oe06aSlowLog(c),
   OE_06b |-> Oe06bEngineLog(c), COST_01 |-> Cost01Valkey(c),
   COST_06 |-> Cost06UsageLimits(c), SEC_06 |-> Scheduled(c)]

\* A predicate returns _Skip for an engine that cannot deliver the log ...
AsksToSkip(c, id) ==
  \/ id = "OE_06a" /\ ~SupportsSlowLog(c)
  \/ id = "OE_06b" /\ ~SupportsEngineLog(c)

\* ... and raises when a field it gets as far as reading has the wrong shape.
ReadsMalformed(c, id) ==
  \/ id = "SEC_05" /\ "security_groups" \in c.malformed
  \/ id = "REL_03" /\ "replicas" \in c.malformed
  \/ id = "REL_04b" /\ "retention" \in c.malformed
  \/ id = "OE_04" /\ "tags" \in c.malformed /\ policy.tags # {}
  \/ id \in {"OE_06a", "OE_06b"} /\ "log_delivery" \in c.malformed /\ ~AsksToSkip(c, id)
  \/ id = "COST_06" /\ "limits" \in c.malformed
  \/ id \in {"SEC_06", "OE_06a", "OE_06b", "COST_01"} /\ "engine" \in c.malformed

Finding == [number : Nat, check : CheckIds, severity : Severities, premium : Nat]
FindingOfPerRecord(c, k) ==
  [number |-> Len(found) + 1, check |-> Checks[k].id,
   severity |-> IF Checks[k].id = "SEC_06" THEN Sec06Severity(c, today) ELSE Checks[k].severity,
   premium |-> IF Checks[k].id = "SEC_06" THEN Premium(c, today) ELSE 0]
FindingOf(c, k) ==
  [number |-> counter + 1, check |-> Checks[k].id,
   severity |-> IF Checks[k].id = "SEC_06" THEN Sec06Severity(c, today) ELSE Checks[k].severity,
   premium |-> IF Checks[k].id = "SEC_06" THEN Premium(c, today) ELSE 0]

-----------------------------------------------------------------------------
(* main and ConfigurationChecker                                           *)

CheckInit ==
  /\ policy \in Policies /\ today \in Dates
  /\ record = 1 /\ check = 1 /\ found = <<>> /\ skipped = {} /\ counter = 0
  /\ results = [id \in {} |-> 0] /\ total = 0 /\ bySeverity = [s \in Severities |-> 0]
  /\ findingsFile = Absent /\ checkExit = -1

Checking == checkExit = -1
ValidPolicy == policy.replicas >= 0 /\ policy.retention >= 0

\* A negative policy value, no inventory, an inventory that is not JSON or has
\* no list of clusters: exit 1 with nothing written.
RejectInput ==
  /\ Checking
  /\ ~ValidPolicy \/ inventory \in BadFiles
  /\ checkExit' = 1
  /\ UNCHANGED <<policy, today, record, check, found, skipped, counter, results, total,
                 bySeverity, findingsFile>>

Evaluating == Checking /\ ValidPolicy /\ inventory \notin BadFiles /\ record <= Len(inventory)
Cluster == inventory[record]

SkipUnnamed ==
  /\ Evaluating /\ Cluster.cluster_id = Absent
  /\ record' = record + 1
  /\ UNCHANGED <<policy, today, check, found, skipped, counter, results, total,
                 bySeverity, findingsFile, checkExit>>

AtCheck(k) == Evaluating /\ Cluster.cluster_id # Absent /\ check = k /\ k \in DOMAIN Checks
Applies(k) == Cluster.cluster_type \in Checks[k].types
Raises(k) == ReadsMalformed(Cluster, Checks[k].id)
Declines(k) == AsksToSkip(Cluster, Checks[k].id)

ListSkipped(k) ==
  /\ skipped' = skipped \cup {Checks[k].id}
  /\ check' = check + 1
  /\ UNCHANGED <<policy, today, record, found, counter, results, total, bySeverity,
                 findingsFile, checkExit>>

NotApplicable(k) == AtCheck(k) /\ ~Applies(k) /\ ListSkipped(k)
PredicateRaisesSilently(k) ==
  /\ AtCheck(k) /\ Applies(k) /\ Raises(k)
  /\ check' = check + 1
  /\ UNCHANGED <<policy, today, record, found, skipped, counter, results, total, bySeverity,
                 findingsFile, checkExit>>
PredicateRaises(k) == AtCheck(k) /\ Applies(k) /\ Raises(k) /\ ListSkipped(k)
PredicateDeclines(k) == AtCheck(k) /\ Applies(k) /\ ~Raises(k) /\ Declines(k) /\ ListSkipped(k)

Decided(k) == AtCheck(k) /\ Applies(k) /\ ~Raises(k) /\ ~Declines(k)

CheckPasses(k) ==
  /\ Decided(k) /\ ~Fails(Cluster)[Checks[k].id]
  /\ check' = check + 1
  /\ UNCHANGED <<policy, today, record, found, skipped, counter, results, total,
                 bySeverity, findingsFile, checkExit>>

CheckFails(k) ==
  /\ Decided(k) /\ Fails(Cluster)[Checks[k].id]
  /\ found' = Append(found, FindingOf(Cluster, k))
  /\ counter' = counter + 1
  /\ check' = check + 1
  /\ UNCHANGED <<policy, today, record, skipped, results, total, bySeverity,
                 findingsFile, checkExit>>

\* After check_cluster: the totals grow and the result is stored under the
\* name, over the result of an earlier record of that name.
WithSeverityOfRegistry(findings, s) ==
  Cardinality({i \in DOMAIN findings :
                 \E k \in DOMAIN Checks : Checks[k].id = findings[i].check /\ Checks[k].severity = s})
WithSeverity(findings, s) == Cardinality({i \in DOMAIN findings : findings[i].severity = s})
KeepResultKeepingSkipped ==
  /\ Evaluating /\ Cluster.cluster_id # Absent /\ check > Len(Checks)
  /\ total' = total + Len(found)
  /\ bySeverity' = [s \in Severities |-> bySeverity[s] + WithSeverity(found, s)]
  /\ results' = [id \in DOMAIN results \cup {Cluster.cluster_id} |->
                   IF id = Cluster.cluster_id
                   THEN [findings |-> found, skipped |-> skipped,
                         evaluated |-> Len(Checks) - Cardinality(skipped)]
                   ELSE results[id]]
  /\ record' = record + 1 /\ check' = 1 /\ found' = <<>>
  /\ UNCHANGED <<policy, today, skipped, counter, findingsFile, checkExit>>
KeepResult ==
  /\ Evaluating /\ Cluster.cluster_id # Absent /\ check > Len(Checks)
  /\ total' = total + Len(found)
  /\ bySeverity' = [s \in Severities |-> bySeverity[s] + WithSeverity(found, s)]
  /\ results' = [id \in DOMAIN results \cup {Cluster.cluster_id} |->
                   IF id = Cluster.cluster_id
                   THEN [findings |-> found, skipped |-> skipped,
                         evaluated |-> Len(Checks) - Cardinality(skipped)]
                   ELSE results[id]]
  /\ record' = record + 1 /\ check' = 1 /\ found' = <<>> /\ skipped' = {}
  /\ UNCHANGED <<policy, today, counter, findingsFile, checkExit>>

AllKept == Checking /\ ValidPolicy /\ inventory \notin BadFiles /\ record > Len(inventory)

\* _atomic_write replaces the file or leaves it alone.
WriteFindings ==
  /\ AllKept
  /\ findingsFile' = [clusters |-> results, total |-> total, bySeverity |-> bySeverity,
                      policy |-> policy, date |-> today]
  /\ checkExit' = 0
  /\ UNCHANGED <<policy, today, record, check, found, skipped, counter, results, total,
                 bySeverity>>
WriteFindingsFails ==
  /\ AllKept
  /\ checkExit' = 1
  /\ UNCHANGED <<policy, today, record, check, found, skipped, counter, results, total,
                 bySeverity, findingsFile>>

CheckNext ==
  \/ RejectInput \/ SkipUnnamed
  \/ \E k \in DOMAIN Checks : \/ NotApplicable(k) \/ PredicateRaises(k)
                              \/ PredicateDeclines(k) \/ CheckPasses(k) \/ CheckFails(k)
  \/ KeepResult \/ WriteFindings \/ WriteFindingsFails

CheckSpec ==
  /\ inventory \in Inventories /\ CheckInit
  /\ [][CheckNext /\ UNCHANGED inventory]_<<inventory, checkVars>>

-----------------------------------------------------------------------------
(* Properties                                                              *)

Result == [findings : Seq(Finding), skipped : SUBSET CheckIds, evaluated : 0..Len(Checks)]
ResultsType(kept) == DOMAIN kept \subseteq Ids /\ \A id \in DOMAIN kept : kept[id] \in Result

\* The types of the checker's state, the ranks of severities included: the
\* counters of run() and the scores are keyed by them.
CheckTypeOK ==
  /\ policy \in Policies /\ today \in Dates
  /\ record \in Nat \ {0} /\ check \in 1..(Len(Checks) + 1)
  /\ found \in Seq(Finding) /\ skipped \subseteq CheckIds /\ counter \in Nat
  /\ ResultsType(results)
  /\ total \in Nat /\ bySeverity \in [Severities -> Nat]
  /\ findingsFile # Absent => ResultsType(findingsFile.clusters)
  /\ checkExit \in {-1, 0, 1}

KeptFindings == UNION {{id} \X DOMAIN results[id].findings : id \in DOMAIN results}
KeptFinding(p) == results[p[1]].findings[p[2]]

\* Finding ids are what notes refer to: no two findings of a review have the
\* same number, and while no name occurs twice none is missing, whatever was
\* skipped in between.
FindingsNumbered ==
  /\ \A p, q \in KeptFindings : KeptFinding(p).number = KeptFinding(q).number => p = q
  /\ \A p \in KeptFindings : KeptFinding(p).number \in 1..(counter - Len(found))
  /\ \A i \in DOMAIN found : found[i].number = counter - Len(found) + i
  /\ (inventory \notin BadFiles /\ DistinctIds(inventory)) =>
       \A n \in 1..(counter - Len(found)) : \E p \in KeptFindings : KeptFinding(p).number = n

\* The totals of the file's metadata, which nothing recomputes, are those of the
\* findings it lists, by the severity on the finding and not the registry's, as
\* long as no two records share a name.
TotalsMatchFindings ==
  (inventory \notin BadFiles /\ DistinctIds(inventory)) =>
    /\ total = Cardinality(KeptFindings)
    /\ \A s \in Severities :
         bySeverity[s] = Cardinality({p \in KeptFindings : KeptFinding(p).severity = s})

\* What a record's result has to be, from the record, the policy and the date
\* alone.
Skips(c, id) == AsksToSkip(c, id) \/ ReadsMalformed(c, id)
SkippedOf(c) ==
  {Checks[k].id : k \in {k \in DOMAIN Checks : \/ c.cluster_type \notin Checks[k].types
                                               \/ Skips(c, Checks[k].id)}}
FailedOf(c) == {id \in CheckIds \ SkippedOf(c) : Fails(c)[id]}
IsResultOf(result, c) ==
  /\ result.skipped = SkippedOf(c)
  /\ {result.findings[i].check : i \in DOMAIN result.findings} = FailedOf(c)
  /\ Len(result.findings) = Cardinality(FailedOf(c))

\* The result kept under a name is that of the last record of the name, and of
\* nothing else: neither of the records evaluated before it, whatever they
\* skipped or raised, nor of their order.
ResultsMatchRecords ==
  \A r \in 1..(record - 1) :
    LET id == inventory[r].cluster_id
    IN id = Absent \/ (\E s \in (r + 1)..(record - 1) : inventory[s].cluster_id = id)
         \/ (id \in DOMAIN results /\ IsResultOf(results[id], inventory[r]))

\* references/engine-support-lifecycle.md: the closer or the longer past the end
\* of support, the worse.  The severity and the premium of a SEC-06 finding are
\* never less for a later review of the same record.
Urgency == [LOW |-> 1, MEDIUM |-> 2, HIGH |-> 3, CRITICAL |-> 4]
NoLessUrgent(c, f, later) ==
  Urgency[Sec06Severity(c, later)] >= Urgency[f.severity] /\ Premium(c, later) >= f.premium
SupportUrgency ==
  \A id \in DOMAIN results : \A i \in DOMAIN results[id].findings :
    results[id].findings[i].check = "SEC_06" =>
      \E r \in 1..(record - 1) :
        /\ inventory[r].cluster_id = id /\ Scheduled(inventory[r])
        /\ \A later \in Dates :
             later >= today => NoLessUrgent(inventory[r], results[id].findings[i], later)
=============================================================================
