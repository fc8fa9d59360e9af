----------------------------- MODULE MCRanking -----------------------------
(* Four concepts: one of an excluded branch that is only met as an ancestor,  *)
(* one without a branch, and two the hint can tell apart.                     *)
EXTENDS ConceptRanking

MCBranchOf == [court |-> "venues", forum |-> "venues", costs |-> "none", country |-> "places"]
MCMet == [court |-> 1, forum |-> 2, costs |-> 3, country |-> 4]
MCParentOf == [court |-> "forum", forum |-> "country", costs |-> "country", country |-> "no"]

Searchable == {"court", "forum", "costs"}

MCAskings ==
  LET Raw == UNION {[found -> {40, 90}] : found \in SUBSET Searchable}
      Lists == {s \in UNION {[1..n -> Searchable] : n \in 0..2} :
                  \A i, j \in DOMAIN s : s[i] = s[j] => i = j}
      Library == {[i \in DOMAIN s |-> [iri |-> s[i], score |-> 95 - 5 * i]] : s \in Lists}
  IN  [raw : Raw, library : Library, hint : {"none", "venues"}, iri : {"no", "costs"},
       given : {70}, skip : BOOLEAN, filter : BOOLEAN]
=============================================================================
