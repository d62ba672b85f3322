------------------------- MODULE MCDiscoverInventory -------------------------
(* An account of two regions: the clusters a1 and a2 of one share groups,    *)
(* the other has a serverless cache s.                                       *)
EXTENDS DiscoverInventoryProofs

CONSTANTS east, west, a1, a2, s, params, security, subnets, other, p

TwoRegions == {east, west}
Account == {a1, a2, s}
Caches == {s}

\* The groups are listed in pages, the caches are asked for by name.
Listings ==
  [r \in TwoRegions |->
     IF r = east THEN [groups |-> <<a1, a2>>, caches |-> <<Missing>>]
     ELSE [groups |-> <<>>, caches |-> <<s>>]]

Shares ==
  [n \in Account |-> CASE n = a1 -> {params, security, subnets}
                       [] n = a2 -> {params, security}
                       [] OTHER -> {other}]
Contents == [g \in {params, security, subnets, other} |-> {p}]

\* This account lists every name once, as NothingIsListedTwice asks for.
ASSUME ListedOnceHere == ListedOnce
==============================================================================
