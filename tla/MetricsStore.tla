----------------------------- MODULE MetricsStore -----------------------------
(***************************************************************************)
(* What Stage 2 promises to the readers of its output directory (Stage 3   *)
(* and the report, through scripts/_metrics_store.py): files are replaced, *)
(* never removed; an index names only items of its own era; and within an  *)
(* era the index comes after the last item.  Nothing is said of how, or in *)
(* which order, the items of an era are produced.                          *)
(***************************************************************************)
EXTENDS Integers

CONSTANT Id

VARIABLES
  era,    \* number of times the producer was started
  shard,  \* [Id -> era in which the item was last written, 0 if never]
  index   \* the published index: its era and the items it names

TypeOK ==
  /\ era \in Nat
  /\ shard \in [Id -> Nat]
  /\ index \in [era : Nat, ids : SUBSET Id]

Init ==
  /\ era = 0
  /\ shard = [i \in Id |-> 0]
  /\ index = [era |-> 0, ids |-> {}]

NewEra ==
  /\ era' = era + 1
  /\ UNCHANGED <<shard, index>>

WriteItem(i) ==
  /\ index.era < era
  /\ shard' = [shard EXCEPT ![i] = era]
  /\ UNCHANGED <<era, index>>

Publish(S) ==
  /\ index.era < era
  /\ \A i \in S : shard[i] = era
  /\ index' = [era |-> era, ids |-> S]
  /\ UNCHANGED <<era, shard>>

Next ==
  \/ NewEra
  \/ \E i \in Id : WriteItem(i)
  \/ \E S \in SUBSET Id : Publish(S)

Spec == Init /\ [][Next]_<<era, shard, index>>
===============================================================================
