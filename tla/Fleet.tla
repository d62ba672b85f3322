-------------------------------- MODULE Fleet --------------------------------
(***************************************************************************)
(* inventory.json as the stages after discovery read it: the records of    *)
(* the clusters, in the order Stage 1 wrote them.  Two records may carry   *)
(* one cluster_id (the same name in two regions), and a field of a record  *)
(* may have a shape its reader does not expect.                            *)
(***************************************************************************)
EXTENDS Integers, Sequences

CONSTANTS
  Ids,         \* the names of clusters
  Nodes,       \* the names of cache nodes
  Absent,      \* a field that is missing or null
  NoFile, NotJson, NoList,  \* what is found instead of a file with a list of clusters
  Inventories  \* what inventory.json can hold: a sequence of records or one of BadFiles

ASSUME AbsentAssumption == Absent \notin Ids \cup Int \cup (Nat \X Nat) \cup STRING

VARIABLES
  inventory    \* the content of inventory.json, as every stage opens it

ClusterTypes == {"node-based", "serverless", "unknown"}
LogTypes == {"slow-log", "engine-log"}
Limits == {"data_storage", "ecpu_per_second"}
Tags == {"Environment", "Owner", "Application", "CostCenter"}
AuthModes == {"none", "AUTH-token", "RBAC"}

\* The fields of a record that the stages read.  "malformed" names those whose
\* shape makes the reader of the field raise.
Record ==
  [cluster_id : Ids \cup {Absent}, cluster_type : ClusterTypes,
   engine : {"redis", "valkey", "memcached"}, version : (Nat \X Nat) \cup {Absent},
   tls : BOOLEAN, at_rest : BOOLEAN, auth_mode : AuthModes \cup {Absent},
   permissive_rules : Nat, multi_az : BOOLEAN, failover : BOOLEAN,
   replicas : Nat \cup {Absent}, retention : Nat \cup {Absent}, tags : SUBSET Tags,
   active_logs : SUBSET LogTypes, limits : [Limits -> Nat \cup {Absent}],
   cluster_mode : BOOLEAN, shards : Nat, maxclients : Nat \cup {Absent},
   malformed : SUBSET {"security_groups", "replicas", "retention", "tags",
                       "log_delivery", "limits", "engine"}]

BadFiles == {NoFile, NotJson, NoList}

ASSUME InventoriesAssumption == Inventories \subseteq BadFiles \cup Seq(Record)

\* The records of a file that could be parsed: none where it has no list.
Records == IF inventory \in BadFiles THEN <<>> ELSE inventory

\* The record a dict keyed by cluster_id ends up with: the last of that name.
LastRecordOf(records, id) ==
  records[CHOOSE i \in DOMAIN records :
            /\ records[i].cluster_id = id
            /\ \A j \in DOMAIN records : records[j].cluster_id = id => j <= i]

Named(records) == {records[i].cluster_id : i \in DOMAIN records} \ {Absent}
DistinctIds(records) ==
  \A i, j \in DOMAIN records :
    records[i].cluster_id = records[j].cluster_id /\ i # j => records[i].cluster_id = Absent
=============================================================================
