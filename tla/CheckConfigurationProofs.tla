---------------------- MODULE CheckConfigurationProofs ----------------------
(***************************************************************************)
(* Proofs about CheckConfiguration for any inventory, policy and date.     *)
(***************************************************************************)
EXTENDS CheckConfiguration, FiniteSetTheorems, TLAPS

-----------------------------------------------------------------------------
(* The registry                                                            *)

\* The ids of the registry are distinct, its severities are ranked.
LEMMA Registry ==
  /\ Len(Checks) = 16 /\ DOMAIN Checks = 1..16
  /\ \A k \in 1..16 : Checks[k].id \in CheckIds /\ Checks[k].severity \in Severities
  /\ \A j, k \in 1..16 : Checks[j].id = Checks[k].id => j = k
  <1>1. Len(Checks) = 16 /\ DOMAIN Checks = 1..16
    BY DEF Checks
  <1>2. \A k \in 1..16 : Checks[k].severity \in Severities
    BY DEF Checks, Check, Severities
  <1>3. \A j, k \in 1..16 : Checks[j].id = Checks[k].id => j = k
    BY DEF Checks, Check
  <1> QED
    BY <1>1, <1>2, <1>3 DEF CheckIds

\* There are no more ids than checks.
LEMMA IdsCounted == IsFiniteSet(CheckIds) /\ Cardinality(CheckIds) <= 16
  <1> DEFINE idOf == [k \in 1..16 |-> Checks[k].id]
  <1>1. idOf \in Surjection(1..16, CheckIds)
    BY Registry DEF Surjection, CheckIds
  <1>2. IsFiniteSet(1..16) /\ Cardinality(1..16) = 16
    <2>1. /\ IsFiniteSet(1..16)
          /\ Cardinality(1..16) = IF 1 > 16 THEN 0 ELSE 16 - 1 + 1
      BY 1 \in Int, 16 \in Int, FS_Interval, Zenon
    <2> QED
      BY <2>1
  <1> HIDE DEF idOf
  <1> QED
    BY <1>1, <1>2, FS_Surjection

-----------------------------------------------------------------------------
(* Type correctness                                                        *)

\* The premium of a finding is a number, its severity is ranked.
LEMMA GradeType ==
  ASSUME NEW c \in Record, NEW day \in Int, Scheduled(c)
  PROVE  /\ DaysLeft(c, day) \in Int
         /\ Sec06Severity(c, day) \in Severities /\ Premium(c, day) \in Nat
  <1>1. c.version[1] \in {4, 5, 6}
    BY DEF Scheduled, EngineSupportSchedule
  <1>2. DaysLeft(c, day) \in Int
    BY <1>1 DEF DaysLeft, EngineSupportSchedule
  <1>3. Sec06Severity(c, day) \in Severities
    BY DEF Sec06Severity, Severities
  <1>4. ASSUME DaysLeft(c, day) < 0 PROVE PremiumYear(-DaysLeft(c, day)) \in 1..3
    BY <1>2, <1>4 DEF PremiumYear
  <1>5. Premium(c, day) \in Nat
    <2>1. \A i \in 1..3 : ExtendedSupportPremium[i] \in Nat
      BY DEF ExtendedSupportPremium
    <2> QED
      BY <1>4, <2>1 DEF Premium
  <1> QED
    BY <1>2, <1>3, <1>5

\* What a failing check adds is a finding.
LEMMA FindingType ==
  ASSUME NEW c \in Record, NEW k \in 1..16, counter \in Nat, today \in Int,
         Fails(c)[Checks[k].id]
  PROVE  FindingOf(c, k) \in Finding
  <1>1. Checks[k].id \in CheckIds /\ Checks[k].severity \in Severities
    BY Registry
  <1>2. CASE Checks[k].id = "SEC_06"
    <2>1. Scheduled(c)
      BY <1>2 DEF Fails
    <2> QED
      BY <1>1, <1>2, <2>1, GradeType DEF FindingOf, Finding
  <1>3. CASE Checks[k].id # "SEC_06"
    BY <1>1, <1>3 DEF FindingOf, Finding
  <1> QED
    BY <1>2, <1>3

\* The record under evaluation is one.
LEMMA ClusterType ==
  ASSUME inventory \in Inventories, CheckTypeOK, Evaluating
  PROVE  Cluster \in Record /\ inventory \in Seq(Record) /\ record \in 1..Len(inventory)
  <1>1. inventory \in Seq(Record)
    BY InventoriesAssumption DEF Evaluating
  <1>2. record \in 1..Len(inventory)
    BY <1>1 DEF Evaluating, CheckTypeOK
  <1> QED
    BY <1>1, <1>2 DEF Cluster

\* The steps of the checker, the three ways to skip a check taken together.
Skipping(c, k) == c.cluster_type \notin Checks[k].types \/ Skips(c, Checks[k].id)
Failing(c, k) == ~Skipping(c, k) /\ Fails(c)[Checks[k].id]
LEMMA StepCases ==
  ASSUME CheckNext
  PROVE  \/ RejectInput \/ SkipUnnamed
         \/ \E k \in 1..16 : AtCheck(k) /\ Skipping(Cluster, k) /\ ListSkipped(k)
         \/ \E k \in 1..16 : ~Skipping(Cluster, k) /\ ~Failing(Cluster, k) /\ CheckPasses(k)
         \/ \E k \in 1..16 : Failing(Cluster, k) /\ CheckFails(k)
         \/ KeepResult \/ WriteFindings \/ WriteFindingsFails
  <1>1. ASSUME NEW k \in DOMAIN Checks, NotApplicable(k) \/ PredicateRaises(k) \/ PredicateDeclines(k)
        PROVE  k \in 1..16 /\ AtCheck(k) /\ Skipping(Cluster, k) /\ ListSkipped(k)
    BY <1>1, Registry, Zenon DEF NotApplicable, PredicateRaises, PredicateDeclines, Applies, Raises,
             Declines, Skipping, Skips
  <1>2. ASSUME NEW k \in DOMAIN Checks, CheckPasses(k)
        PROVE  k \in 1..16 /\ ~Skipping(Cluster, k) /\ ~Failing(Cluster, k)
    BY <1>2, Registry, Zenon DEF CheckPasses, Decided, Applies, Raises, Declines, Skipping, Skips,
             Failing
  <1>3. ASSUME NEW k \in DOMAIN Checks, CheckFails(k)
        PROVE  k \in 1..16 /\ Failing(Cluster, k)
    BY <1>3, Registry, Zenon DEF CheckFails, Decided, Applies, Raises, Declines, Skipping, Skips,
             Failing
  <1> QED
    BY <1>1, <1>2, <1>3, Zenon DEF CheckNext

LEMMA TypeInit ==
  ASSUME CheckInit
  PROVE  CheckTypeOK
  BY Registry DEF CheckInit, CheckTypeOK, ResultsType

\* How many findings of a severity there are is a number.
LEMMA CountType ==
  ASSUME NEW findings \in Seq(Finding), NEW s
  PROVE  WithSeverity(findings, s) \in Nat
  <1>1. IsFiniteSet(DOMAIN findings)
    BY Len(findings) \in Int, 1 \in Int, DOMAIN findings = 1..Len(findings), FS_Interval, Zenon
  <1> QED
    BY <1>1, FS_Subset, FS_CardinalityType DEF WithSeverity

LEMMA KeepType ==
  ASSUME inventory \in Inventories, CheckTypeOK, KeepResult
  PROVE  CheckTypeOK'
  <1>1. Cluster \in Record /\ Cluster.cluster_id \in Ids
    BY ClusterType DEF KeepResult, Record
  <1>2. IsFiniteSet(skipped) /\ Cardinality(skipped) \in 0..16
    <2>1. skipped \in SUBSET CheckIds
      BY DEF CheckTypeOK
    <2>2. /\ IsFiniteSet(skipped) /\ Cardinality(skipped) <= Cardinality(CheckIds)
          /\ Cardinality(skipped) \in Nat /\ Cardinality(CheckIds) \in Nat
      BY <2>1, IdsCounted, FS_Subset, FS_CardinalityType, Zenon
    <2> QED
      BY <2>2, IdsCounted
  <1>3. [findings |-> found, skipped |-> skipped,
         evaluated |-> Len(Checks) - Cardinality(skipped)] \in Result
    <2>1. Len(Checks) - Cardinality(skipped) \in 0..Len(Checks)
      BY <1>2, Registry
    <2> QED
      BY <2>1 DEF CheckTypeOK, Result
  <1>4. ResultsType(results')
    BY <1>1, <1>3 DEF KeepResult, ResultsType, CheckTypeOK
  <1>5. total' \in Nat
    BY DEF KeepResult, CheckTypeOK
  <1>6. bySeverity' \in [Severities -> Nat]
    BY CountType DEF KeepResult, CheckTypeOK
  <1>7. check' \in 1..(Len(Checks) + 1)
    BY Registry DEF KeepResult
  <1>8. found' \in Seq(Finding) /\ skipped' \subseteq CheckIds
    BY DEF KeepResult
  <1> QED
    BY <1>4, <1>5, <1>6, <1>7, <1>8 DEF KeepResult, CheckTypeOK

LEMMA NextPosition ==
  ASSUME NEW k \in 1..16
  PROVE  k + 1 \in 1..(Len(Checks) + 1) /\ Checks[k].id \in CheckIds
  BY Registry

LEMMA TypeStep ==
  ASSUME inventory \in Inventories, CheckTypeOK,
         [CheckNext /\ UNCHANGED inventory]_<<inventory, checkVars>>
  PROVE  CheckTypeOK'
  <1>1. CASE RejectInput
    BY <1>1 DEF RejectInput, CheckTypeOK
  <1>2. CASE SkipUnnamed
    BY <1>2 DEF SkipUnnamed, CheckTypeOK
  <1>3. ASSUME NEW k \in 1..16, AtCheck(k), ListSkipped(k)
        PROVE  CheckTypeOK'
    BY <1>3, NextPosition DEF AtCheck, ListSkipped, CheckTypeOK
  <1>4. ASSUME NEW k \in 1..16, CheckPasses(k)
        PROVE  CheckTypeOK'
    BY <1>4, NextPosition DEF CheckPasses, Decided, AtCheck, CheckTypeOK
  <1>5. ASSUME NEW k \in 1..16, CheckFails(k)
        PROVE  CheckTypeOK'
    <2>1. Cluster \in Record
      BY <1>5, ClusterType DEF CheckFails, Decided, AtCheck
    <2>2. today \in Int
      BY DatesAssumption DEF CheckTypeOK
    <2>3. FindingOf(Cluster, k) \in Finding
      BY <1>5, <2>1, <2>2, FindingType DEF CheckFails, CheckTypeOK
    <2>4. found' \in Seq(Finding)
      BY <1>5, <2>3 DEF CheckFails, CheckTypeOK
    <2>5. counter' \in Nat /\ check' \in 1..(Len(Checks) + 1)
      BY <1>5, NextPosition DEF CheckFails, Decided, AtCheck, CheckTypeOK
    <2>6. UNCHANGED <<policy, today, record, skipped, results, total, bySeverity, findingsFile,
                      checkExit>>
      BY <1>5 DEF CheckFails
    <2> QED
      BY <2>4, <2>5, <2>6 DEF CheckTypeOK
  <1>6. CASE KeepResult
    BY <1>6, KeepType
  <1>7. CASE WriteFindings
    BY <1>7 DEF WriteFindings, CheckTypeOK
  <1>8. CASE WriteFindingsFails
    BY <1>8 DEF WriteFindingsFails, CheckTypeOK
  <1>9. CASE UNCHANGED <<inventory, checkVars>>
    BY <1>9 DEF checkVars, CheckTypeOK
  <1> QED
    BY <1>1, <1>2, <1>3, <1>4, <1>5, <1>6, <1>7, <1>8, <1>9, StepCases, Zenon

\* The file and the state of the checker have their types: above all, every
\* severity that totals and scores are keyed by is a ranked one.
THEOREM CheckerTypeCorrect == CheckSpec => []CheckTypeOK
  <1>1. CheckSpec => []CheckTypeOK
    <2> DEFINE Inv == inventory \in Inventories /\ CheckTypeOK
    <2>1. inventory \in Inventories /\ CheckInit => Inv
      BY TypeInit
    <2>2. Inv /\ [CheckNext /\ UNCHANGED inventory]_<<inventory, checkVars>> => Inv'
      BY TypeStep
    <2> QED
      BY <2>1, <2>2, PTL DEF CheckSpec
  <1> QED
    BY <1>1

-----------------------------------------------------------------------------
(* What the checker has found of a record before its n-th check            *)

SkippedBefore(c, n) == {Checks[k].id : k \in {k \in 1..(n - 1) : Skipping(c, k)}}
FailedBefore(c, n) == {Checks[k].id : k \in {k \in 1..(n - 1) : Failing(c, k)}}
ChecksOf(findings) == {findings[i].check : i \in DOMAIN findings}

\* The record under evaluation has been checked up to the current check.
CheckedSoFar(c) ==
  /\ skipped = SkippedBefore(c, check)
  /\ ChecksOf(found) = FailedBefore(c, check)
  /\ Len(found) = Cardinality(FailedBefore(c, check))
UnderCheck ==
  IF inventory \in BadFiles THEN record = 1
  ELSE /\ record <= Len(inventory) + 1
       /\ record = Len(inventory) + 1 => check = 1 /\ found = <<>>
       /\ record <= Len(inventory) =>
            (Cluster.cluster_id = Absent => check = 1) /\ CheckedSoFar(Cluster)

RecordsInv ==
  inventory \in Inventories /\ CheckTypeOK /\ UnderCheck /\ ResultsMatchRecords

\* Nothing has been found before the first check, everything after the last.
LEMMA BeforeFirst ==
  ASSUME NEW c
  PROVE  SkippedBefore(c, 1) = {} /\ FailedBefore(c, 1) = {}
  BY DEF SkippedBefore, FailedBefore

LEMMA AfterLast ==
  ASSUME NEW c
  PROVE  SkippedBefore(c, 17) = SkippedOf(c) /\ FailedBefore(c, 17) = FailedOf(c)
  <1>1. \A k \in 1..16 : Checks[k].id \in SkippedOf(c) <=> Skipping(c, k)
    BY Registry DEF SkippedOf, Skipping
  <1>2. SkippedBefore(c, 17) = SkippedOf(c)
    BY Registry DEF SkippedBefore, SkippedOf, Skipping
  <1>3. FailedBefore(c, 17) = FailedOf(c)
    BY <1>1, Registry DEF FailedBefore, FailedOf, Failing, CheckIds
  <1> QED
    BY <1>2, <1>3

\* One check more.
LEMMA OneMore ==
  ASSUME NEW c, NEW k \in 1..16
  PROVE  /\ Skipping(c, k) => SkippedBefore(c, k + 1) = SkippedBefore(c, k) \cup {Checks[k].id}
         /\ ~Skipping(c, k) => SkippedBefore(c, k + 1) = SkippedBefore(c, k)
         /\ Failing(c, k) => FailedBefore(c, k + 1) = FailedBefore(c, k) \cup {Checks[k].id}
         /\ ~Failing(c, k) => FailedBefore(c, k + 1) = FailedBefore(c, k)
         /\ Checks[k].id \notin FailedBefore(c, k)
  <1>1. 1..(k + 1 - 1) = 1..(k - 1) \cup {k} /\ k \notin 1..(k - 1)
    OBVIOUS
  <1> QED
    BY <1>1, Registry DEF SkippedBefore, FailedBefore

LEMMA FailedFinite ==
  ASSUME NEW c, NEW k \in 1..17
  PROVE  IsFiniteSet(FailedBefore(c, k))
  <1>1. FailedBefore(c, k) \in SUBSET CheckIds
    BY Registry DEF FailedBefore
  <1> QED
    BY <1>1, IdsCounted, FS_Subset, Zenon

\* What a record's result has to be does not change while the policy does not.
LEMMA SameDemand ==
  ASSUME NEW r, UNCHANGED <<inventory, policy>>
  PROVE  /\ Len(inventory)' = Len(inventory)
         /\ SkippedOf(inventory[r])' = SkippedOf(inventory[r])
         /\ FailedOf(inventory[r])' = FailedOf(inventory[r])
         /\ \A k : Skipping(inventory[r], k)' <=> Skipping(inventory[r], k)
         /\ \A k : Failing(inventory[r], k)' <=> Failing(inventory[r], k)
  <1>1. Fails(inventory[r])' = Fails(inventory[r])
    BY DEF Fails, Rel03Replicas, Rel04bRetentionShort, Oe04Tags, Sec01Tls, Sec02AtRest, Sec03Auth,
           Sec04Rbac, Sec05SecurityGroups, Rel01MultiAz, Rel02Failover, Rel04Backups, Unset,
           Oe06aSlowLog, Oe06bEngineLog, Cost01Valkey, Cost06UsageLimits, Scheduled
  <1>2. \A id : Skips(inventory[r], id)' <=> Skips(inventory[r], id)
    BY DEF Skips, AsksToSkip, ReadsMalformed, SupportsSlowLog, SupportsEngineLog, FromVersion
  <1>3. SkippedOf(inventory[r])' = SkippedOf(inventory[r])
    BY <1>2 DEF SkippedOf
  <1>4. FailedOf(inventory[r])' = FailedOf(inventory[r])
    BY <1>1, <1>3 DEF FailedOf
  <1>5. \A k : Skipping(inventory[r], k)' <=> Skipping(inventory[r], k)
    BY <1>2 DEF Skipping
  <1>6. \A k : Failing(inventory[r], k)' <=> Failing(inventory[r], k)
    BY <1>1, <1>5 DEF Failing
  <1> QED
    BY <1>3, <1>4, <1>5, <1>6

LEMMA SameCluster ==
  ASSUME UNCHANGED <<inventory, policy, record>>
  PROVE  /\ \A k : Skipping(Cluster, k)' <=> Skipping(Cluster, k)
         /\ \A k : Failing(Cluster, k)' <=> Failing(Cluster, k)
  <1>1. Fails(Cluster)' = Fails(Cluster)
    BY DEF Cluster, Fails, Rel03Replicas, Rel04bRetentionShort, Oe04Tags, Sec01Tls, Sec02AtRest,
           Sec03Auth, Sec04Rbac, Sec05SecurityGroups, Rel01MultiAz, Rel02Failover, Rel04Backups,
           Unset, Oe06aSlowLog, Oe06bEngineLog, Cost01Valkey, Cost06UsageLimits, Scheduled
  <1>2. \A id : Skips(Cluster, id)' <=> Skips(Cluster, id)
    BY DEF Cluster, Skips, AsksToSkip, ReadsMalformed, SupportsSlowLog, SupportsEngineLog,
           FromVersion
  <1>3. \A k : Skipping(Cluster, k)' <=> Skipping(Cluster, k)
    BY <1>2 DEF Skipping, Cluster
  <1>4. \A k : Failing(Cluster, k)' <=> Failing(Cluster, k)
    BY <1>1, <1>3 DEF Failing
  <1> QED
    BY <1>3, <1>4

\* A check that is skipped, passes or fails.
LEMMA CheckStep ==
  ASSUME RecordsInv, UNCHANGED <<inventory, policy, record>>, NEW k \in 1..16, AtCheck(k),
         check' = check + 1,
         skipped' = IF Skipping(Cluster, k) THEN skipped \cup {Checks[k].id} ELSE skipped,
         IF Failing(Cluster, k) THEN found' = Append(found, FindingOf(Cluster, k))
                                ELSE found' = found
  PROVE  UnderCheck'
  <1> DEFINE new == FindingOf(Cluster, k)
  <1>1. /\ check = k /\ inventory \notin BadFiles /\ Cluster.cluster_id # Absent
        /\ record \in 1..Len(inventory) /\ CheckedSoFar(Cluster) /\ found \in Seq(Finding)
    BY ClusterType DEF RecordsInv, UnderCheck, AtCheck, Evaluating, CheckTypeOK
  <1>2. Cluster' = Cluster
    BY DEF Cluster
  <1>3. /\ SkippedBefore(Cluster, check)' = SkippedBefore(Cluster, k + 1)
        /\ FailedBefore(Cluster, check)' = FailedBefore(Cluster, k + 1)
    BY <1>1, SameCluster DEF SkippedBefore, FailedBefore
  <1>4. skipped' = SkippedBefore(Cluster, k + 1)
    BY <1>1, OneMore DEF CheckedSoFar
  <1>5. /\ ChecksOf(found)' = FailedBefore(Cluster, k + 1)
        /\ Len(found)' = Cardinality(FailedBefore(Cluster, k + 1))
    <2>1. CASE ~Failing(Cluster, k)
      <3>1. ChecksOf(found)' = ChecksOf(found) /\ Len(found)' = Len(found)
        BY <2>1 DEF ChecksOf
      <3>2. FailedBefore(Cluster, k + 1) = FailedBefore(Cluster, k)
        BY <2>1, OneMore
      <3> QED
        BY <1>1, <3>1, <3>2 DEF CheckedSoFar
    <2>2. CASE Failing(Cluster, k)
      <3>1. new.check = Checks[k].id
        BY DEF FindingOf
      <3> HIDE DEF new
      <3>2. found' = Append(found, new)
        BY <2>2 DEF new
      <3>3. Len(found') = Len(found) + 1 /\ ChecksOf(found') = ChecksOf(found) \cup {new.check}
        BY <1>1, <3>2 DEF ChecksOf
      <3>4. /\ IsFiniteSet(FailedBefore(Cluster, k))
            /\ Checks[k].id \notin FailedBefore(Cluster, k)
            /\ FailedBefore(Cluster, k + 1) = FailedBefore(Cluster, k) \cup {Checks[k].id}
        <4>1. k \in 1..17
          OBVIOUS
        <4> QED
          BY <2>2, <4>1, FailedFinite, OneMore
      <3>5. Cardinality(FailedBefore(Cluster, k + 1)) = Cardinality(FailedBefore(Cluster, k)) + 1
        BY <3>4, FS_AddElement
      <3> QED
        BY <1>1, <3>1, <3>3, <3>4, <3>5 DEF CheckedSoFar, ChecksOf
    <2> QED
      BY <2>1, <2>2
  <1>6. CheckedSoFar(Cluster)'
    BY <1>3, <1>4, <1>5 DEF CheckedSoFar
  <1>7. /\ inventory' \notin BadFiles /\ record' <= Len(inventory')
        /\ Cluster'.cluster_id # Absent
    BY <1>1, <1>2 DEF BadFiles
  <1>8. record' <= Len(inventory') + 1 /\ record' # Len(inventory') + 1
    BY <1>1
  <1> QED
    BY <1>6, <1>7, <1>8 DEF UnderCheck, BadFiles

\* A record left behind.
LEMMA NextRecord ==
  ASSUME RecordsInv, UNCHANGED <<inventory, policy>>, Evaluating,
         record' = record + 1, check' = 1, found' = <<>>, skipped' = {}
  PROVE  UnderCheck'
  <1>1. record \in 1..Len(inventory) /\ inventory \in Seq(Record) /\ inventory \notin BadFiles
    BY ClusterType DEF RecordsInv, Evaluating
  <1>2. /\ record' <= Len(inventory') + 1 /\ inventory' \notin BadFiles'
    BY <1>1 DEF BadFiles
  <1>3. SkippedBefore(Cluster, check)' = {} /\ FailedBefore(Cluster, check)' = {}
    BY DEF SkippedBefore, FailedBefore
  <1>4. CheckedSoFar(Cluster)'
    BY <1>3, FS_EmptySet DEF CheckedSoFar, ChecksOf
  <1> QED
    BY <1>2, <1>4 DEF UnderCheck

\* ResultsMatchRecords, record by record.
RecordMatches(r) ==
  \/ inventory[r].cluster_id = Absent
  \/ \E s \in (r + 1)..(record - 1) : inventory[s].cluster_id = inventory[r].cluster_id
  \/ /\ inventory[r].cluster_id \in DOMAIN results
     /\ IsResultOf(results[inventory[r].cluster_id], inventory[r])
LEMMA MatchesEach == ResultsMatchRecords <=> \A r \in 1..(record - 1) : RecordMatches(r)
  BY DEF ResultsMatchRecords, RecordMatches

LEMMA MatchesWhileKept ==
  ASSUME RecordsInv, UNCHANGED <<inventory, policy, results>>,
         \/ record' = record
         \/ record' = record + 1 /\ Evaluating /\ Cluster.cluster_id = Absent
  PROVE  ResultsMatchRecords'
  <1>1. record \in Nat \ {0}
    BY DEF RecordsInv, CheckTypeOK
  <1>2. ASSUME NEW r \in 1..(record' - 1)
        PROVE  RecordMatches(r)'
    <2>1. CASE r \in 1..(record - 1)
      <3>1. RecordMatches(r)
        BY <2>1, MatchesEach DEF RecordsInv
      <3>2. (record - 1) \in Int /\ (record' - 1) \in Int /\ record - 1 <= record' - 1
        BY <1>1
      <3>3. \A s \in (r + 1)..(record - 1) : s \in (r + 1)..(record' - 1)
        BY <1>1, <3>2
      <3> QED
        BY <3>1, <3>3, SameDemand DEF RecordMatches, IsResultOf
    <2>2. CASE r \notin 1..(record - 1)
      <3>1. r = record /\ Cluster.cluster_id = Absent
        BY <1>1, <1>2, <2>2
      <3> QED
        BY <3>1 DEF RecordMatches, Cluster
    <2> QED
      BY <2>1, <2>2
  <1>3. ResultsMatchRecords' <=> \A r \in 1..(record' - 1) : RecordMatches(r)'
    BY DEF ResultsMatchRecords, RecordMatches
  <1> QED
    BY <1>2, <1>3

LEMMA KeptMatches ==
  ASSUME RecordsInv, KeepResult, UNCHANGED inventory
  PROVE  ResultsMatchRecords'
  <1> DEFINE name == Cluster.cluster_id
  <1>1. /\ record \in 1..Len(inventory) /\ check = 17 /\ name \in Ids /\ record' = record + 1
        /\ CheckedSoFar(Cluster) /\ policy' = policy
    <2>1. Evaluating /\ name # Absent /\ check > 16 /\ check \in 1..17
      BY Registry DEF KeepResult, RecordsInv, CheckTypeOK
    <2>2. record \in 1..Len(inventory) /\ Cluster \in Record
      BY <2>1, ClusterType DEF RecordsInv
    <2>3. name \in Ids
      BY <2>1, <2>2 DEF Record
    <2>4. CheckedSoFar(Cluster)
      BY <2>1, <2>2 DEF RecordsInv, UnderCheck, Evaluating
    <2> QED
      BY <2>1, <2>2, <2>3, <2>4 DEF KeepResult
  <1>2. /\ skipped = SkippedOf(Cluster) /\ ChecksOf(found) = FailedOf(Cluster)
        /\ Len(found) = Cardinality(FailedOf(Cluster))
    BY <1>1, AfterLast DEF CheckedSoFar
  <1>3. /\ DOMAIN results' = DOMAIN results \cup {name}
        /\ results'[name].findings = found /\ results'[name].skipped = skipped
        /\ \A id \in DOMAIN results : id # name => results'[id] = results[id]
    BY DEF KeepResult
  <1>4. ASSUME NEW r \in 1..(record' - 1)
        PROVE  RecordMatches(r)'
    <2>1. CASE r = record
      <3>1. IsResultOf(results'[name], inventory[r])
        BY <1>2, <1>3, <2>1 DEF IsResultOf, ChecksOf, Cluster
      <3>2. inventory'[r].cluster_id = name
        BY <2>1 DEF Cluster
      <3>3. IsResultOf(results[inventory[r].cluster_id], inventory[r])'
        BY <1>1, <3>1, <3>2, SameDemand DEF IsResultOf
      <3> QED
        BY <1>3, <3>2, <3>3 DEF RecordMatches
    <2>2. CASE r # record
      <3>1. r \in 1..(record - 1) /\ RecordMatches(r)
        BY <1>1, <1>4, <2>2, MatchesEach DEF RecordsInv
      <3>2. CASE inventory[r].cluster_id = name
        <4>1. record \in (r + 1)..(record' - 1) /\ inventory'[record].cluster_id = name
          BY <1>1, <3>1 DEF Cluster
        <4> QED
          BY <3>2, <4>1 DEF RecordMatches
      <3>3. CASE inventory[r].cluster_id # name
        <4>1. \A s \in (r + 1)..(record - 1) : s \in (r + 1)..(record' - 1)
          BY <1>1
        <4>2. inventory[r].cluster_id \in DOMAIN results =>
                results'[inventory[r].cluster_id] = results[inventory[r].cluster_id]
          BY <1>3, <3>3
        <4> QED
          BY <1>1, <1>3, <3>1, <4>1, <4>2, SameDemand DEF RecordMatches, IsResultOf
      <3> QED
        BY <3>2, <3>3
    <2> QED
      BY <2>1, <2>2
  <1>5. ResultsMatchRecords' <=> \A r \in 1..(record' - 1) : RecordMatches(r)'
    BY DEF ResultsMatchRecords, RecordMatches
  <1> QED
    BY <1>4, <1>5

LEMMA RecordsInit ==
  ASSUME inventory \in Inventories, CheckInit
  PROVE  RecordsInv
  <1>1. CheckTypeOK
    BY TypeInit
  <1>2. ResultsMatchRecords
    BY DEF CheckInit, ResultsMatchRecords
  <1>3. UnderCheck
    <2>1. ASSUME inventory \notin BadFiles
          PROVE  Len(inventory) \in Nat
      BY <2>1, InventoriesAssumption
    <2>2. CheckedSoFar(Cluster)
      <3>1. check = 1 /\ skipped = {} /\ Len(found) = 0 /\ ChecksOf(found) = {}
        BY DEF CheckInit, ChecksOf
      <3> QED
        BY <3>1, BeforeFirst, FS_EmptySet DEF CheckedSoFar
    <2> QED
      BY <2>1, <2>2 DEF CheckInit, UnderCheck
  <1> QED
    BY <1>1, <1>2, <1>3 DEF RecordsInv

LEMMA UnderCheckSame ==
  ASSUME RecordsInv, UNCHANGED <<inventory, policy, record, check, found, skipped>>
  PROVE  UnderCheck'
  <1>1. /\ SkippedBefore(Cluster, check)' = SkippedBefore(Cluster, check)
        /\ FailedBefore(Cluster, check)' = FailedBefore(Cluster, check)
    BY SameCluster DEF SkippedBefore, FailedBefore
  <1>2. CheckedSoFar(Cluster)' <=> CheckedSoFar(Cluster)
    BY <1>1 DEF CheckedSoFar, ChecksOf
  <1>3. Cluster' = Cluster
    BY DEF Cluster
  <1> QED
    BY <1>2, <1>3 DEF RecordsInv, UnderCheck, BadFiles

LEMMA RecordsStep ==
  ASSUME RecordsInv, [CheckNext /\ UNCHANGED inventory]_<<inventory, checkVars>>
  PROVE  RecordsInv'
  <1>1. CheckTypeOK' /\ inventory' \in Inventories
    BY TypeStep DEF RecordsInv
  <1>2. UnderCheck' /\ ResultsMatchRecords'
    <2>1. ASSUME UNCHANGED <<inventory, policy, record, check, found, skipped, results>>
          PROVE  UnderCheck' /\ ResultsMatchRecords'
      BY <2>1, UnderCheckSame, MatchesWhileKept
    <2>2. ASSUME RejectInput \/ WriteFindings \/ WriteFindingsFails, UNCHANGED inventory
          PROVE  UnderCheck' /\ ResultsMatchRecords'
      BY <2>1, <2>2 DEF RejectInput, WriteFindings, WriteFindingsFails
    <2>3. ASSUME SkipUnnamed, UNCHANGED inventory
          PROVE  UnderCheck' /\ ResultsMatchRecords'
      <3>1. Evaluating /\ Cluster.cluster_id = Absent /\ record \in 1..Len(inventory)
        BY <2>3, ClusterType DEF SkipUnnamed, RecordsInv
      <3>2. check = 1 /\ CheckedSoFar(Cluster)
        BY <3>1 DEF RecordsInv, UnderCheck, Evaluating
      <3>3. skipped = {} /\ found = <<>>
        <4>1. Len(found) = 0 /\ found \in Seq(Finding) /\ skipped = {}
          BY <3>2, BeforeFirst, FS_EmptySet DEF CheckedSoFar, RecordsInv, CheckTypeOK
        <4> QED
          BY <4>1
      <3> QED
        BY <2>3, <3>1, <3>2, <3>3, NextRecord, MatchesWhileKept DEF SkipUnnamed
    <2>4. ASSUME NEW k \in 1..16, AtCheck(k), Skipping(Cluster, k), ListSkipped(k),
                 UNCHANGED inventory
          PROVE  UnderCheck' /\ ResultsMatchRecords'
      BY <2>4, CheckStep, MatchesWhileKept DEF ListSkipped, Failing
    <2>5. ASSUME NEW k \in 1..16, ~Skipping(Cluster, k), ~Failing(Cluster, k), CheckPasses(k),
                 UNCHANGED inventory
          PROVE  UnderCheck' /\ ResultsMatchRecords'
      BY <2>5, CheckStep, MatchesWhileKept DEF CheckPasses, Decided
    <2>6. ASSUME NEW k \in 1..16, Failing(Cluster, k), CheckFails(k), UNCHANGED inventory
          PROVE  UnderCheck' /\ ResultsMatchRecords'
      BY <2>6, CheckStep, MatchesWhileKept DEF CheckFails, Decided, Failing
    <2>7. ASSUME KeepResult, UNCHANGED inventory
          PROVE  UnderCheck' /\ ResultsMatchRecords'
      BY <2>7, NextRecord, KeptMatches DEF KeepResult
    <2>8. CASE UNCHANGED <<inventory, checkVars>>
      BY <2>1, <2>8 DEF checkVars
    <2>9. CASE CheckNext /\ UNCHANGED inventory
      BY <2>2, <2>3, <2>4, <2>5, <2>6, <2>7, <2>9, StepCases, Zenon
    <2> QED
      BY <2>8, <2>9
  <1> QED
    BY <1>1, <1>2 DEF RecordsInv

\* Whatever the inventory, the result kept under a name is that of the last
\* record of the name, and a finding or a skipped check of that record only.
THEOREM ResultsAreTheRecords == CheckSpec => []ResultsMatchRecords
  <1>1. inventory \in Inventories /\ CheckInit => RecordsInv
    BY RecordsInit
  <1>2. RecordsInv /\ [CheckNext /\ UNCHANGED inventory]_<<inventory, checkVars>> => RecordsInv'
    BY RecordsStep
  <1>3. RecordsInv => ResultsMatchRecords
    BY DEF RecordsInv
  <1> QED
    BY <1>1, <1>2, <1>3, PTL DEF CheckSpec

-----------------------------------------------------------------------------
(* Support dates                                                           *)

\* A later review grades the end of support no lower.
LEMMA UrgencyGrows ==
  ASSUME NEW c \in Record, NEW day \in Int, NEW later \in Int, day <= later, Scheduled(c)
  PROVE  /\ Urgency[Sec06Severity(c, day)] <= Urgency[Sec06Severity(c, later)]
         /\ Premium(c, day) <= Premium(c, later)
  <1>1. /\ DaysLeft(c, day) \in Int /\ DaysLeft(c, later) \in Int
        /\ DaysLeft(c, later) <= DaysLeft(c, day)
    <2>1. c.version[1] \in {4, 5, 6}
      BY DEF Scheduled, EngineSupportSchedule
    <2> QED
      BY <2>1 DEF DaysLeft, EngineSupportSchedule
  <1>2. Urgency[Sec06Severity(c, day)] <= Urgency[Sec06Severity(c, later)]
    BY <1>1 DEF Sec06Severity, Urgency, SupportEndWarningDays
  <1>3. Premium(c, day) <= Premium(c, later)
    <2>1. \A i, j \in 1..3 : i <= j => ExtendedSupportPremium[i] <= ExtendedSupportPremium[j]
      BY DEF ExtendedSupportPremium
    <2>2. \A i \in 1..3 : ExtendedSupportPremium[i] \in Nat
      BY DEF ExtendedSupportPremium
    <2>3. \A a, b \in Nat \ {0} : a <= b =>
            /\ PremiumYear(a) \in 1..3 /\ PremiumYear(b) \in 1..3
            /\ PremiumYear(a) <= PremiumYear(b)
      BY DEF PremiumYear
    <2>4. CASE DaysLeft(c, later) >= 0
      BY <1>1, <2>4 DEF Premium
    <2>5. CASE DaysLeft(c, day) < 0
      BY <1>1, <2>1, <2>3, <2>5 DEF Premium
    <2>6. CASE DaysLeft(c, day) >= 0 /\ DaysLeft(c, later) < 0
      BY <1>1, <2>2, <2>3, <2>6 DEF Premium
    <2> QED
      BY <1>1, <2>4, <2>5, <2>6
  <1> QED
    BY <1>2, <1>3

\* A SEC-06 finding is graded by a record of its cluster and the review's date.
GradedAs(f, c) ==
  f.check = "SEC_06" =>
    Scheduled(c) /\ f.severity = Sec06Severity(c, today) /\ f.premium = Premium(c, today)
GradedInv ==
  /\ RecordsInv
  /\ inventory \notin BadFiles /\ record <= Len(inventory) =>
       \A i \in DOMAIN found : GradedAs(found[i], Cluster)
  /\ \A id \in DOMAIN results : \A i \in DOMAIN results[id].findings :
       \E r \in 1..(record - 1) :
         /\ inventory[r] \in Record /\ inventory[r].cluster_id = id
         /\ GradedAs(results[id].findings[i], inventory[r])

LEMMA FindingGraded ==
  ASSUME NEW c \in Record, NEW k \in 1..16, Failing(c, k)
  PROVE  GradedAs(FindingOf(c, k), c)
  <1>1. FindingOf(c, k).check = Checks[k].id
    BY DEF FindingOf
  <1>2. CASE Checks[k].id = "SEC_06"
    <2>1. Scheduled(c)
      BY <1>2 DEF Failing, Fails
    <2> QED
      BY <1>2, <2>1 DEF GradedAs, FindingOf
  <1> QED
    BY <1>1, <1>2 DEF GradedAs

LEMMA GradedSame ==
  ASSUME GradedInv, UNCHANGED <<inventory, today, results>>, RecordsInv',
         record' = record \/ (record' = record + 1 /\ found' = <<>>),
         record' = record => found' = found
  PROVE  GradedInv'
  <1>1. record \in Nat \ {0} /\ Cluster = inventory[record]
    BY DEF GradedInv, RecordsInv, CheckTypeOK, Cluster
  <1>2. ASSUME inventory \notin BadFiles, record' <= Len(inventory), NEW i \in DOMAIN found'
        PROVE  GradedAs(found[i], Cluster)'
    <2>1. record' = record /\ found' = found
      BY <1>1, <1>2
    <2>2. GradedAs(found[i], Cluster)
      BY <1>2, <2>1 DEF GradedInv
    <2> QED
      BY <2>1, <2>2 DEF GradedAs, Cluster, Scheduled, Sec06Severity, Premium, DaysLeft
  <1>3. ASSUME NEW id \in DOMAIN results', NEW i \in DOMAIN results'[id].findings
        PROVE  \E r \in 1..(record' - 1) :
                 /\ inventory'[r] \in Record /\ inventory'[r].cluster_id = id
                 /\ GradedAs(results[id].findings[i], inventory[r])'
    <2>1. PICK r \in 1..(record - 1) :
            /\ inventory[r] \in Record /\ inventory[r].cluster_id = id
            /\ GradedAs(results[id].findings[i], inventory[r])
      BY <1>3 DEF GradedInv
    <2>2. r \in 1..(record' - 1)
      BY <1>1
    <2>3. GradedAs(results[id].findings[i], inventory[r])'
      BY <2>1 DEF GradedAs
    <2> QED
      BY <2>1, <2>2, <2>3
  <1> QED
    BY <1>2, <1>3 DEF GradedInv, BadFiles

LEMMA GradedFails ==
  ASSUME GradedInv, RecordsInv', NEW k \in 1..16, Failing(Cluster, k), CheckFails(k),
         UNCHANGED inventory
  PROVE  GradedInv'
  <1> DEFINE new == FindingOf(Cluster, k)
  <1>1. /\ Cluster \in Record /\ found \in Seq(Finding) /\ today' = today /\ record' = record
        /\ results' = results /\ inventory \notin BadFiles /\ record <= Len(inventory)
    BY ClusterType DEF CheckFails, Decided, AtCheck, Evaluating, GradedInv, RecordsInv, CheckTypeOK
  <1>2. GradedAs(new, Cluster)
    BY <1>1, FindingGraded
  <1> HIDE DEF new
  <1>3. found' = Append(found, new)
    BY DEF CheckFails, new
  <1>4. ASSUME NEW i \in DOMAIN found'
        PROVE  GradedAs(found'[i], Cluster)
    BY <1>1, <1>2, <1>3, <1>4 DEF GradedInv
  <1>5. ASSUME NEW i \in DOMAIN found'
        PROVE  GradedAs(found[i], Cluster)'
    BY <1>1, <1>4, <1>5 DEF GradedAs, Cluster
  <1>6. ASSUME NEW id \in DOMAIN results', NEW i \in DOMAIN results'[id].findings
        PROVE  \E r \in 1..(record' - 1) :
                 /\ inventory'[r] \in Record /\ inventory'[r].cluster_id = id
                 /\ GradedAs(results[id].findings[i], inventory[r])'
    BY <1>1, <1>6 DEF GradedInv, GradedAs
  <1> QED
    BY <1>5, <1>6 DEF GradedInv

LEMMA GradedKeep ==
  ASSUME GradedInv, RecordsInv', KeepResult, UNCHANGED inventory
  PROVE  GradedInv'
  <1> DEFINE name == Cluster.cluster_id
  <1>1. /\ Cluster \in Record /\ Cluster = inventory[record] /\ record \in Nat \ {0}
        /\ record' = record + 1 /\ today' = today /\ found' = <<>>
        /\ \A i \in DOMAIN found : GradedAs(found[i], Cluster)
    BY ClusterType DEF KeepResult, Evaluating, GradedInv, RecordsInv, CheckTypeOK, Cluster
  <1>2. /\ DOMAIN results' = DOMAIN results \cup {name} /\ results'[name].findings = found
        /\ \A id \in DOMAIN results : id # name => results'[id] = results[id]
    BY DEF KeepResult
  <1>3. ASSUME NEW id \in DOMAIN results', NEW i \in DOMAIN results'[id].findings
        PROVE  \E r \in 1..(record' - 1) :
                 /\ inventory'[r] \in Record /\ inventory'[r].cluster_id = id
                 /\ GradedAs(results[id].findings[i], inventory[r])'
    <2>1. CASE id = name
      <3>1. PICK r : r = record
        OBVIOUS
      <3>2. r \in 1..(record' - 1) /\ inventory'[r] \in Record /\ inventory'[r].cluster_id = id
        BY <1>1, <2>1, <3>1
      <3>3. GradedAs(results[id].findings[i], inventory[r])'
        BY <1>1, <1>2, <1>3, <2>1, <3>1 DEF GradedAs
      <3> QED
        BY <3>2, <3>3
    <2>2. CASE id # name
      <3>1. PICK r \in 1..(record - 1) :
              /\ inventory[r] \in Record /\ inventory[r].cluster_id = id
              /\ GradedAs(results[id].findings[i], inventory[r])
        BY <1>2, <1>3, <2>2 DEF GradedInv
      <3>2. r \in 1..(record' - 1) /\ GradedAs(results[id].findings[i], inventory[r])'
        BY <1>1, <1>2, <1>3, <2>2, <3>1 DEF GradedAs
      <3> QED
        BY <3>1, <3>2
    <2> QED
      BY <2>1, <2>2
  <1> QED
    BY <1>1, <1>3 DEF GradedInv

LEMMA GradedStep ==
  ASSUME GradedInv, [CheckNext /\ UNCHANGED inventory]_<<inventory, checkVars>>
  PROVE  GradedInv'
  <1>1. RecordsInv'
    BY RecordsStep DEF GradedInv
  <1>2. ASSUME UNCHANGED <<inventory, today, record, found, results>>
        PROVE  GradedInv'
    BY <1>1, <1>2, GradedSame
  <1>3. ASSUME RejectInput \/ WriteFindings \/ WriteFindingsFails, UNCHANGED inventory
        PROVE  GradedInv'
    BY <1>2, <1>3 DEF RejectInput, WriteFindings, WriteFindingsFails
  <1>4. ASSUME SkipUnnamed, UNCHANGED inventory
        PROVE  GradedInv'
    <2>1. Evaluating /\ Cluster.cluster_id = Absent /\ check = 1 /\ CheckedSoFar(Cluster)
      BY <1>4 DEF SkipUnnamed, GradedInv, RecordsInv, UnderCheck, Evaluating
    <2>2. Len(found) = 0 /\ found \in Seq(Finding) /\ record \in Nat
      BY <2>1, BeforeFirst, FS_EmptySet DEF CheckedSoFar, GradedInv, RecordsInv, CheckTypeOK
    <2>3. found = <<>>
      BY <2>2
    <2> QED
      BY <1>1, <1>4, <2>2, <2>3, GradedSame DEF SkipUnnamed
  <1>5. ASSUME NEW k \in 1..16, ListSkipped(k) \/ CheckPasses(k), UNCHANGED inventory
        PROVE  GradedInv'
    BY <1>2, <1>5 DEF ListSkipped, CheckPasses
  <1>6. CASE UNCHANGED <<inventory, checkVars>>
    BY <1>2, <1>6 DEF checkVars
  <1>7. CASE CheckNext /\ UNCHANGED inventory
    BY <1>1, <1>3, <1>4, <1>5, <1>7, GradedFails, GradedKeep, StepCases, Zenon
  <1> QED
    BY <1>6, <1>7

\* references/engine-support-lifecycle.md, for every date: no later review of the
\* same records lowers the severity or the premium of an end-of-support finding.
THEOREM SupportOnlyGetsWorse == CheckSpec => []SupportUrgency
  <1>1. inventory \in Inventories /\ CheckInit => GradedInv
    BY RecordsInit DEF CheckInit, GradedInv
  <1>2. GradedInv /\ [CheckNext /\ UNCHANGED inventory]_<<inventory, checkVars>> => GradedInv'
    BY GradedStep
  <1>3. GradedInv => SupportUrgency
    <2>1. SUFFICES ASSUME GradedInv, NEW id \in DOMAIN results,
                          NEW i \in DOMAIN results[id].findings,
                          results[id].findings[i].check = "SEC_06"
                   PROVE  \E r \in 1..(record - 1) :
                            /\ inventory[r].cluster_id = id /\ Scheduled(inventory[r])
                            /\ \A later \in Dates : later >= today =>
                                 NoLessUrgent(inventory[r], results[id].findings[i], later)
      BY DEF SupportUrgency
    <2>2. PICK r \in 1..(record - 1) :
            /\ inventory[r] \in Record /\ inventory[r].cluster_id = id
            /\ GradedAs(results[id].findings[i], inventory[r])
      BY <2>1 DEF GradedInv
    <2>3. today \in Int /\ \A later \in Dates : later \in Int
      BY <2>1, DatesAssumption DEF GradedInv, RecordsInv, CheckTypeOK
    <2>4. ASSUME NEW later \in Dates, later >= today
          PROVE  NoLessUrgent(inventory[r], results[id].findings[i], later)
      <3>1. /\ Sec06Severity(inventory[r], today) \in Severities
            /\ Sec06Severity(inventory[r], later) \in Severities
            /\ Premium(inventory[r], today) \in Nat /\ Premium(inventory[r], later) \in Nat
        BY <2>1, <2>2, <2>3, GradeType DEF GradedAs
      <3>2. /\ Urgency[Sec06Severity(inventory[r], today)] <= Urgency[Sec06Severity(inventory[r], later)]
            /\ Premium(inventory[r], today) <= Premium(inventory[r], later)
        BY <2>1, <2>2, <2>3, <2>4, UrgencyGrows DEF GradedAs
      <3>3. \A s \in Severities : Urgency[s] \in Nat
        BY DEF Urgency, Severities
      <3> QED
        BY <2>1, <2>2, <3>1, <3>2, <3>3 DEF NoLessUrgent, GradedAs
    <2> QED
      BY <2>1, <2>2, <2>4 DEF GradedAs
  <1> QED
    BY <1>1, <1>2, <1>3, PTL DEF CheckSpec

-----------------------------------------------------------------------------
(* Finding ids                                                             *)

\* Findings counted before those of the record under evaluation.
Base == counter - Len(found)
NumberOf(id, i) == results[id].findings[i].number
NumberInv ==
  /\ RecordsInv
  /\ Base \in Nat /\ \A i \in DOMAIN found : found[i].number = Base + i
  /\ \A id \in DOMAIN results : \A i \in DOMAIN results[id].findings : NumberOf(id, i) \in 1..Base
  /\ \A a, b \in DOMAIN results :
       \A i \in DOMAIN results[a].findings, j \in DOMAIN results[b].findings :
         NumberOf(a, i) = NumberOf(b, j) => a = b /\ i = j
  /\ \A id \in DOMAIN results : \E r \in 1..(record - 1) : inventory[r].cluster_id = id
  /\ inventory \notin BadFiles /\ DistinctIds(inventory) =>
       \A n \in 1..Base : \E id \in DOMAIN results :
         \E i \in DOMAIN results[id].findings : NumberOf(id, i) = n

LEMMA NumberSame ==
  ASSUME NumberInv, UNCHANGED <<inventory, counter, found, results>>, RecordsInv',
         record' = record \/ record' = record + 1
  PROVE  NumberInv'
  <1>1. Base' = Base /\ record \in Nat \ {0}
    BY DEF Base, NumberInv, RecordsInv, CheckTypeOK
  <1>2. \A r \in 1..(record - 1) : r \in 1..(record' - 1)
    BY <1>1
  <1> QED
    BY <1>1, <1>2 DEF NumberInv, NumberOf, DistinctIds, BadFiles

LEMMA NumberFails ==
  ASSUME NumberInv, RecordsInv', NEW k, CheckFails(k), UNCHANGED inventory
  PROVE  NumberInv'
  <1> DEFINE new == FindingOf(Cluster, k)
  <1>1. new.number = counter + 1
    BY DEF FindingOf
  <1> HIDE DEF new
  <1>2. /\ found' = Append(found, new) /\ found \in Seq(Finding) /\ counter \in Nat
        /\ counter' = counter + 1 /\ UNCHANGED <<record, results>>
    BY DEF CheckFails, new, NumberInv, RecordsInv, CheckTypeOK
  <1>3. Base' = Base
    BY <1>2 DEF Base
  <1>4. ASSUME NEW i \in DOMAIN found'
        PROVE  found'[i].number = Base + i
    <2>1. CASE i = Len(found) + 1
      BY <1>1, <1>2, <2>1 DEF Base
    <2>2. CASE i \in DOMAIN found
      BY <1>2, <2>2 DEF NumberInv
    <2> QED
      BY <1>2, <1>4, <2>1, <2>2
  <1> QED
    BY <1>2, <1>3, <1>4 DEF NumberInv, NumberOf, DistinctIds, BadFiles

\* While no two records share a name, a result never replaces one.
LEMMA FreshName ==
  ASSUME NumberInv, KeepResult, DistinctIds(inventory)
  PROVE  Cluster.cluster_id \notin DOMAIN results
  <1>1. /\ record \in 1..Len(inventory) /\ inventory \in Seq(Record)
        /\ Cluster = inventory[record] /\ Cluster.cluster_id # Absent
    BY ClusterType DEF KeepResult, NumberInv, RecordsInv, Cluster
  <1>2. \A r \in 1..(record - 1) : inventory[r].cluster_id # Cluster.cluster_id
    BY <1>1 DEF DistinctIds
  <1> QED
    BY <1>2 DEF NumberInv

LEMMA NumberKeep ==
  ASSUME NumberInv, RecordsInv', KeepResult, UNCHANGED inventory
  PROVE  NumberInv'
  <1> DEFINE name == Cluster.cluster_id
             num(id, i) == results'[id].findings[i].number
  <1>1. /\ record \in 1..Len(inventory) /\ record' = record + 1 /\ name = inventory[record].cluster_id
        /\ found \in Seq(Finding) /\ counter \in Nat /\ counter' = counter /\ found' = <<>>
        /\ name # Absent /\ inventory \notin BadFiles
    BY ClusterType DEF KeepResult, Evaluating, NumberInv, RecordsInv, CheckTypeOK, Cluster
  <1>2. /\ DOMAIN results' = DOMAIN results \cup {name} /\ results'[name].findings = found
        /\ \A id \in DOMAIN results : id # name => results'[id] = results[id]
    BY DEF KeepResult
  <1> HIDE DEF name
  <1>3. Base' = Base + Len(found) /\ Base \in Nat /\ Len(found) \in Nat
    BY <1>1 DEF Base, NumberInv
  <1>4. \A i \in DOMAIN found : num(name, i) = Base + i /\ i \in 1..Len(found)
    BY <1>1, <1>2 DEF NumberInv, NumberOf
  <1>5. \A id \in DOMAIN results : id # name =>
          \A i \in DOMAIN results'[id].findings :
            num(id, i) = NumberOf(id, i) /\ NumberOf(id, i) \in 1..Base
    BY <1>2 DEF NumberInv, NumberOf
  <1>6. \A id \in DOMAIN results' : \A i \in DOMAIN results'[id].findings :
          num(id, i) \in 1..Base'
    BY <1>2, <1>3, <1>4, <1>5
  <1>7. \A a, b \in DOMAIN results' :
          \A i \in DOMAIN results'[a].findings, j \in DOMAIN results'[b].findings :
            num(a, i) = num(b, j) => a = b /\ i = j
    <2>1. ASSUME NEW a \in DOMAIN results', NEW b \in DOMAIN results',
                 NEW i \in DOMAIN results'[a].findings, NEW j \in DOMAIN results'[b].findings,
                 num(a, i) = num(b, j)
          PROVE  a = b /\ i = j
      <3>1. CASE a = name /\ b = name
        BY <1>1, <1>2, <1>3, <1>4, <2>1, <3>1
      <3>2. CASE a = name /\ b # name
        BY <1>2, <1>3, <1>4, <1>5, <2>1, <3>2
      <3>3. CASE a # name /\ b = name
        BY <1>2, <1>3, <1>4, <1>5, <2>1, <3>3
      <3>4. CASE a # name /\ b # name
        BY <1>2, <1>5, <2>1, <3>4 DEF NumberInv
      <3> QED
        BY <3>1, <3>2, <3>3, <3>4
    <2> QED
      BY <2>1
  <1>8. \A id \in DOMAIN results' : \E r \in 1..(record' - 1) : inventory'[r].cluster_id = id
    <2>1. \A r \in 1..(record - 1) : r \in 1..(record' - 1)
      BY <1>1
    <2>2. record \in 1..(record' - 1)
      BY <1>1
    <2> QED
      BY <1>1, <1>2, <2>1, <2>2 DEF NumberInv
  <1>9. ASSUME DistinctIds(inventory), NEW n \in 1..Base'
        PROVE  \E id \in DOMAIN results' : \E i \in DOMAIN results'[id].findings :
                 num(id, i) = n
    <2>1. name \notin DOMAIN results
      BY <1>9, FreshName DEF name
    <2>2. CASE n \in 1..Base
      <3>1. PICK id \in DOMAIN results : \E i \in DOMAIN results[id].findings : NumberOf(id, i) = n
        BY <1>1, <1>9, <2>2 DEF NumberInv
      <3> QED
        BY <1>2, <1>5, <2>1, <3>1
    <2>3. CASE n \in (Base + 1)..(Base + Len(found))
      <3>1. n - Base \in DOMAIN found
        BY <1>1, <1>3, <2>3
      <3> QED
        BY <1>2, <1>3, <1>4, <2>3, <3>1
    <2> QED
      BY <1>3, <2>2, <2>3
  <1>10. DistinctIds(inventory)' <=> DistinctIds(inventory)
    BY DEF DistinctIds
  <1> QED
    BY <1>1, <1>3, <1>6, <1>7, <1>8, <1>9, <1>10 DEF NumberInv, NumberOf

LEMMA NumberStep ==
  ASSUME NumberInv, [CheckNext /\ UNCHANGED inventory]_<<inventory, checkVars>>
  PROVE  NumberInv'
  <1>1. RecordsInv'
    BY RecordsStep DEF NumberInv
  <1>2. ASSUME UNCHANGED <<inventory, record, counter, found, results>>
        PROVE  NumberInv'
    BY <1>1, <1>2, NumberSame
  <1>3. ASSUME RejectInput \/ SkipUnnamed \/ WriteFindings \/ WriteFindingsFails, UNCHANGED inventory
        PROVE  NumberInv'
    BY <1>1, <1>3, NumberSame DEF RejectInput, SkipUnnamed, WriteFindings, WriteFindingsFails
  <1>4. ASSUME NEW k \in 1..16, ListSkipped(k) \/ CheckPasses(k), UNCHANGED inventory
        PROVE  NumberInv'
    BY <1>2, <1>4 DEF ListSkipped, CheckPasses
  <1>5. CASE UNCHANGED <<inventory, checkVars>>
    BY <1>2, <1>5 DEF checkVars
  <1>6. CASE CheckNext /\ UNCHANGED inventory
    BY <1>1, <1>3, <1>4, <1>6, NumberFails, NumberKeep, StepCases, Zenon
  <1> QED
    BY <1>5, <1>6

\* Finding ids are unique in a review and, while no two records share a name,
\* without gaps: for every inventory and however many checks are skipped.
THEOREM FindingIdsAreUnique == CheckSpec => []FindingsNumbered
  <1>1. inventory \in Inventories /\ CheckInit => NumberInv
    BY RecordsInit DEF CheckInit, NumberInv, Base
  <1>2. NumberInv /\ [CheckNext /\ UNCHANGED inventory]_<<inventory, checkVars>> => NumberInv'
    BY NumberStep
  <1>3. NumberInv => FindingsNumbered
    <2>1. \A p \in KeptFindings :
            /\ p = <<p[1], p[2]>> /\ p[1] \in DOMAIN results /\ p[2] \in DOMAIN results[p[1]].findings
            /\ KeptFinding(p).number = NumberOf(p[1], p[2])
      BY DEF KeptFindings, KeptFinding, NumberOf
    <2>2. \A id \in DOMAIN results : \A i \in DOMAIN results[id].findings :
            <<id, i>> \in KeptFindings /\ KeptFinding(<<id, i>>).number = NumberOf(id, i)
      BY DEF KeptFindings, KeptFinding, NumberOf
    <2>3. ASSUME NumberInv, NEW p \in KeptFindings, NEW q \in KeptFindings,
                 KeptFinding(p).number = KeptFinding(q).number
          PROVE  p = q
      <3>1. NumberOf(p[1], p[2]) = NumberOf(q[1], q[2])
        BY <2>1, <2>3
      <3>2. p[1] = q[1] /\ p[2] = q[2]
        BY <2>1, <2>3, <3>1 DEF NumberInv
      <3> QED
        BY <2>1, <3>2
    <2>4. ASSUME NumberInv, NEW p \in KeptFindings
          PROVE  KeptFinding(p).number \in 1..Base
      BY <2>1, <2>4 DEF NumberInv
    <2>5. ASSUME NumberInv, inventory \notin BadFiles, DistinctIds(inventory), NEW n \in 1..Base
          PROVE  \E p \in KeptFindings : KeptFinding(p).number = n
      <3>1. PICK id \in DOMAIN results : \E i \in DOMAIN results[id].findings : NumberOf(id, i) = n
        BY <2>5 DEF NumberInv
      <3> QED
        BY <2>2, <3>1
    <2>6. NumberInv => \A i \in DOMAIN found : found[i].number = Base + i
      BY DEF NumberInv
    <2> QED
      BY <2>3, <2>4, <2>5, <2>6, Zenon DEF FindingsNumbered, Base
  <1> QED
    BY <1>1, <1>2, <1>3, PTL DEF CheckSpec

-----------------------------------------------------------------------------
(* Totals                                                                  *)

LEMMA PairsCounted ==
  ASSUME NEW a, NEW S, IsFiniteSet(S)
  PROVE  IsFiniteSet({a} \X S) /\ Cardinality({a} \X S) = Cardinality(S)
  <1> DEFINE f == [i \in S |-> <<a, i>>]
  <1>1. f \in Bijection(S, {a} \X S)
    <2>1. f \in [S -> {a} \X S]
      OBVIOUS
    <2>2. \A i, j \in S : f[i] = f[j] => i = j
      OBVIOUS
    <2>3. \A t \in {a} \X S : \E i \in S : f[i] = t
      <3>1. ASSUME NEW t \in {a} \X S
            PROVE  t[2] \in S /\ f[t[2]] = t
        OBVIOUS
      <3> QED
        BY <3>1
    <2> HIDE DEF f
    <2> QED
      BY <2>1, <2>2, <2>3 DEF Bijection, Injection, Surjection, IsInjective
  <1>2. ExistsBijection(S, {a} \X S)
    BY <1>1 DEF ExistsBijection
  <1> QED
    BY <1>2, FS_Bijection

KeptWith(s) == {p \in KeptFindings : KeptFinding(p).severity = s}
TotalsInv ==
  /\ NumberInv
  /\ inventory \notin BadFiles /\ DistinctIds(inventory) =>
       /\ IsFiniteSet(KeptFindings) /\ total = Cardinality(KeptFindings)
       /\ \A s \in Severities : bySeverity[s] = Cardinality(KeptWith(s))

LEMMA TotalsKeep ==
  ASSUME TotalsInv, NumberInv', KeepResult, UNCHANGED inventory
  PROVE  TotalsInv'
  <1> DEFINE name == Cluster.cluster_id
             added == {name} \X DOMAIN found
             addedWith(s) == {name} \X {i \in DOMAIN found : found[i].severity = s}
  <1>1. SUFFICES ASSUME inventory \notin BadFiles, DistinctIds(inventory)
                 PROVE  /\ IsFiniteSet(KeptFindings') /\ total' = Cardinality(KeptFindings')
                        /\ \A s \in Severities : bySeverity'[s] = Cardinality(KeptWith(s)')
    BY DEF TotalsInv, DistinctIds, BadFiles
  <1>2. /\ DOMAIN results' = DOMAIN results \cup {name} /\ results'[name].findings = found
        /\ \A id \in DOMAIN results : id # name => results'[id] = results[id]
    BY DEF KeepResult
  <1>3. name \notin DOMAIN results
    BY <1>1, FreshName DEF TotalsInv
  <1>4. /\ found \in Seq(Finding) /\ IsFiniteSet(DOMAIN found)
        /\ Cardinality(DOMAIN found) = Len(found) /\ Len(found) \in Nat
    <2>1. found \in Seq(Finding) /\ Len(found) \in Nat /\ DOMAIN found = 1..Len(found)
      BY DEF TotalsInv, NumberInv, RecordsInv, CheckTypeOK
    <2>2. /\ IsFiniteSet(1..Len(found))
          /\ Cardinality(1..Len(found)) = IF 1 > Len(found) THEN 0 ELSE Len(found) - 1 + 1
      BY 1 \in Int, Len(found) \in Int, <2>1, FS_Interval, Zenon
    <2> QED
      BY <2>1, <2>2
  <1> HIDE DEF name
  <1>5. KeptFindings' = KeptFindings \cup added /\ KeptFindings \cap added = {}
    BY <1>2, <1>3 DEF KeptFindings
  <1>6. \A p \in KeptFindings : KeptFinding(p)' = KeptFinding(p)
    BY <1>2, <1>3 DEF KeptFindings, KeptFinding
  <1>7. \A p \in added : KeptFinding(p)' = found[p[2]]
    BY <1>2 DEF KeptFinding
  <1>8. IsFiniteSet(added) /\ Cardinality(added) = Len(found)
    BY <1>4, PairsCounted
  <1>9. IsFiniteSet(KeptFindings) /\ total = Cardinality(KeptFindings)
    BY <1>1 DEF TotalsInv
  <1>10. IsFiniteSet(KeptFindings') /\ total' = Cardinality(KeptFindings')
    <2>1. /\ IsFiniteSet(KeptFindings \cup added)
          /\ Cardinality(KeptFindings \cup added)
               = Cardinality(KeptFindings) + Cardinality(added) - Cardinality(KeptFindings \cap added)
      BY <1>8, <1>9, FS_Union, Zenon
    <2>2. Cardinality(KeptFindings \cap added) = 0 /\ Cardinality(KeptFindings) \in Nat
      BY <1>5, <1>9, FS_EmptySet, FS_CardinalityType
    <2>3. total' = total + Len(found)
      BY DEF KeepResult
    <2> QED
      BY <1>4, <1>5, <1>8, <1>9, <2>1, <2>2, <2>3
  <1>11. ASSUME NEW s \in Severities
         PROVE  bySeverity'[s] = Cardinality(KeptWith(s)')
    <2>1. KeptWith(s)' = KeptWith(s) \cup addedWith(s) /\ KeptWith(s) \cap addedWith(s) = {}
      <3>1. addedWith(s) = {p \in added : found[p[2]].severity = s}
        OBVIOUS
      <3>2. KeptWith(s)' = {p \in KeptFindings \cup added : KeptFinding(p)'.severity = s}
        BY <1>5 DEF KeptWith
      <3> QED
        BY <1>5, <1>6, <1>7, <3>1, <3>2 DEF KeptWith
    <2>2. IsFiniteSet(KeptWith(s)) /\ bySeverity[s] = Cardinality(KeptWith(s))
      <3>1. KeptWith(s) \in SUBSET KeptFindings
        BY DEF KeptWith
      <3> QED
        BY <1>1, <1>9, <3>1, FS_Subset DEF TotalsInv
    <2>3. IsFiniteSet(addedWith(s)) /\ Cardinality(addedWith(s)) = WithSeverity(found, s)
      <3>1. IsFiniteSet({i \in DOMAIN found : found[i].severity = s})
        BY <1>4, FS_Subset
      <3> QED
        BY <3>1, PairsCounted DEF WithSeverity
    <2>4. Cardinality(KeptWith(s) \cup addedWith(s))
            = Cardinality(KeptWith(s)) + Cardinality(addedWith(s))
               - Cardinality(KeptWith(s) \cap addedWith(s))
      BY <2>2, <2>3, FS_Union, Zenon
    <2>5. /\ Cardinality(KeptWith(s) \cap addedWith(s)) = 0
          /\ Cardinality(KeptWith(s)) \in Nat /\ Cardinality(addedWith(s)) \in Nat
      BY <2>1, <2>2, <2>3, FS_EmptySet, FS_CardinalityType
    <2>6. bySeverity'[s] = bySeverity[s] + WithSeverity(found, s)
      BY DEF KeepResult
    <2> QED
      BY <2>1, <2>2, <2>3, <2>4, <2>5, <2>6
  <1> QED
    BY <1>10, <1>11

LEMMA TotalsStep ==
  ASSUME TotalsInv, [CheckNext /\ UNCHANGED inventory]_<<inventory, checkVars>>
  PROVE  TotalsInv'
  <1>1. NumberInv'
    BY NumberStep DEF TotalsInv
  <1>2. ASSUME UNCHANGED <<inventory, results, total, bySeverity>>
        PROVE  TotalsInv'
    <2>1. KeptFindings' = KeptFindings /\ \A s : KeptWith(s)' = KeptWith(s)
      BY <1>2 DEF KeptFindings, KeptWith, KeptFinding
    <2> QED
      BY <1>1, <1>2, <2>1 DEF TotalsInv, DistinctIds, BadFiles
  <1>3. ASSUME RejectInput \/ SkipUnnamed \/ WriteFindings \/ WriteFindingsFails, UNCHANGED inventory
        PROVE  TotalsInv'
    BY <1>2, <1>3 DEF RejectInput, SkipUnnamed, WriteFindings, WriteFindingsFails
  <1>4. ASSUME NEW k \in 1..16, ListSkipped(k) \/ CheckPasses(k) \/ CheckFails(k),
               UNCHANGED inventory
        PROVE  TotalsInv'
    BY <1>2, <1>4 DEF ListSkipped, CheckPasses, CheckFails
  <1>5. CASE UNCHANGED <<inventory, checkVars>>
    BY <1>2, <1>5 DEF checkVars
  <1>6. CASE CheckNext /\ UNCHANGED inventory
    BY <1>1, <1>3, <1>4, <1>6, TotalsKeep, StepCases, Zenon
  <1> QED
    BY <1>5, <1>6

\* The totals of the metadata are those of the findings in the file, for every
\* inventory without duplicate names.
THEOREM TotalsAreTrue == CheckSpec => []TotalsMatchFindings
  <1>1. ASSUME inventory \in Inventories, CheckInit
        PROVE  TotalsInv
    <2>1. NumberInv
      BY <1>1, RecordsInit DEF CheckInit, NumberInv, Base
    <2>2. KeptFindings = {} /\ \A s : KeptWith(s) = {}
      BY <1>1 DEF CheckInit, KeptFindings, KeptWith
    <2> QED
      BY <1>1, <2>1, <2>2, FS_EmptySet DEF TotalsInv, CheckInit
  <1>2. TotalsInv /\ [CheckNext /\ UNCHANGED inventory]_<<inventory, checkVars>> => TotalsInv'
    BY TotalsStep
  <1>3. TotalsInv => TotalsMatchFindings
    BY DEF TotalsInv, TotalsMatchFindings, KeptWith
  <1> QED
    BY <1>1, <1>2, <1>3, PTL DEF CheckSpec

=============================================================================
