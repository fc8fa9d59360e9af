------------------------------- MODULE Orders -------------------------------
(* Lists made from an order: what list.sort and the filters of a list do.     *)
EXTENDS Integers, FiniteSets

\* set in the order R, a set of pairs: those before it say which place each has.
Ranked(set, R) ==
  [n \in 1..Cardinality(set) |->
     CHOOSE x \in set : Cardinality({y \in set : <<y, x>> \in R}) = n - 1]

\* What a list has at some places, in its order.
Picked(list, places) ==
  LET order == Ranked(places, {p \in places \X places : p[1] < p[2]})
  IN  [k \in DOMAIN order |-> list[order[k]]]
=============================================================================
