------------------------------- MODULE Ordered -------------------------------
(***************************************************************************)
(* Parts of a sequence, in its own order or in another one: what a loop    *)
(* that keeps some entries, and a stable sort, return.  By places and      *)
(* cardinalities and not by SelectSeq and SortSeq, of which the provers    *)
(* know nothing; that they agree is checked where these are instantiated.  *)
(***************************************************************************)
EXTENDS Naturals, Sequences, FiniteSets

(* The places, each after those that are before it; before is the set of   *)
(* the pairs of an earlier and a later place.                              *)
Order(places, before) ==
  [n \in 1..Cardinality(places) |->
     CHOOSE i \in places : Cardinality({j \in places : <<j, i>> \in before}) = n - 1]
Upwards(places) == {p \in places \X places : p[1] < p[2]}

(* The entries at these places: so ordered, as they stand, and those that  *)
(* pass a test.                                                            *)
InOrder(entries, places, before) ==
  LET order == Order(places, before) IN [n \in DOMAIN order |-> entries[order[n]]]
At(entries, places) == InOrder(entries, places, Upwards(places))
Only(entries, Test(_)) == At(entries, {i \in DOMAIN entries : Test(entries[i])})
=============================================================================
