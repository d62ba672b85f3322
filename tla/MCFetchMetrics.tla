---------------------------- MODULE MCFetchMetrics ----------------------------
(* Instances of FetchMetrics for TLC. *)
EXTENDS FetchMetricsProofs, TLC

CONSTANTS a1, a2, a3, b1, r1, r2, i1, i2, i3, i4

\* Four clusters: three in the first region, more than its pool has threads,
\* and one in the second.
FourRegionOf == a1 :> r1 @@ a2 :> r1 @@ a3 :> r1 @@ b1 :> r2
FourIdOf == a1 :> i1 @@ a2 :> i2 @@ a3 :> i3 @@ b1 :> i4

\* Three clusters in two regions.
ThreeRegionOf == a1 :> r1 @@ a2 :> r1 @@ b1 :> r2
ThreeIdOf == a1 :> i1 @@ a2 :> i2 @@ b1 :> i3

\* Two clusters, one region each, whose replication groups have the same name.
TwoRegionOf == a1 :> r1 @@ b1 :> r2
SameIdOf == a1 :> i1 @@ b1 :> i1
===============================================================================
