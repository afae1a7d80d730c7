------------------------------- MODULE Ordered --------------------------------
(* Numbers in their order, and what a sequence has at some of its places:   *)
(* Array.prototype.filter() and new Set() keep the order of what they keep. *)
EXTENDS Naturals, FiniteSets

Sorted(S) ==
  CHOOSE q \in [1..Cardinality(S) -> S] : \A i, j \in DOMAIN q : i < j => q[i] < q[j]

\* The elements of q at these places.
AtPlaces(q, places) ==
  LET order == Sorted(places) IN [k \in 1..Cardinality(places) |-> q[order[k]]]
===============================================================================
