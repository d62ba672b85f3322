------------------------------- MODULE Positions -------------------------------
(***************************************************************************)
(* What the stages do with lists by position: Python's sorted(), which     *)
(* keeps equal keys in their order, and list comprehensions with an "if".  *)
(* The community modules have SortSeq and SelectSeq for these; the first   *)
(* has no value where two different entries are equal to its order, and    *)
(* neither has a definition the prover can expand.                         *)
(***************************************************************************)
EXTENDS Integers, Sequences, FiniteSets, SequencesExt, FiniteSetsExt

\* The members of a set in a strict order.
Ordered(S, Before(_, _)) ==
  [i \in 1..Cardinality(S) |-> CHOOSE x \in S : Cardinality({y \in S : Before(y, x)}) = i - 1]

\* The entries of a sequence at some of its positions.
Picked(s, positions) ==
  LET order == Ordered(positions, <) IN [i \in DOMAIN order |-> s[order[i]]]

\* Rounded up, as lists are cut into parts.
CeilDiv(a, b) == (a + b - 1) \div b
=============================================================================
