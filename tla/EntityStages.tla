---------------------------- MODULE EntityStages ----------------------------
(* What the stages for individuals, properties and triples compute: the       *)
(* individuals found by citation parsers, patterns, spaCy and the LLM are     *)
(* merged when they overlap or share a name; overlapping properties yield to  *)
(* the longer one; a triple is linked to what touches or names its parts.     *)
(*                                                                            *)
(* Simplifications: an individual is an id, a source, a span and a name; the  *)
(* mention counts as another name of it, so what _names_match says of two     *)
(* names is the relation SameName; ties of a sort are broken by id.           *)
(* A definition marked "broken" is a defect that no specification uses.       *)
EXTENDS Integers, FiniteSets, SequencesExt, Orders

CONSTANT SameName   \* pairs of names of which one is equal to or part of the other

ASSUME NamesAssumption == \A p \in SameName : <<p[2], p[1]>> \in SameName

\* A merged individual is "hybrid", and that has no priority of its own.
Priority(source) == CASE source = "eyecite"   -> 100
                      [] source = "citeurl"   -> 95
                      [] source = "regex"     -> 80
                      [] source = "spacy_ner" -> 70
                      [] source = "llm"       -> 50
                      [] OTHER                -> 0

Overlaps(i, j)  == i.start < j.end /\ j.start < i.end
SameEntity(i, j) == Overlaps(i, j) \/ i.name = j.name \/ <<i.name, j.name>> \in SameName

ByPriority(i, j) ==
  \/ Priority(i.source) > Priority(j.source)
  \/ /\ Priority(i.source) = Priority(j.source)
     /\ i.start < j.start \/ (i.start = j.start /\ i.id < j.id)

MergeSource(i, j) == IF i.source # j.source THEN "hybrid" ELSE i.source

\* i takes the class links of j and stays what and where it is.
Absorb(i, j) == [i EXCEPT !.links = @ \cup j.links, !.source = MergeSource(i, j)]

KeepOrMerge(kept, i) ==
  LET same == {k \in DOMAIN kept : SameEntity(i, kept[k])}
  IN IF same = {} THEN Append(kept, i)
     ELSE LET k == CHOOSE k \in same : \A l \in same : k <= l
          IN [kept EXCEPT ![k] = Absorb(@, i)]

Deduplicate(individuals) ==
  LET order == {p \in individuals \X individuals : ByPriority(p[1], p[2])}
  IN  ToSet(FoldLeft(KeepOrMerge, <<>>, Ranked(individuals, order)))

-----------------------------------------------------------------------------
(* Properties: sorted by start, the longer first, then the more confident.    *)
Size(p) == p.end - p.start

ByPlace(p, q) ==
  \/ p.start < q.start
  \/ p.start = q.start /\ Size(p) > Size(q)
  \/ p.start = q.start /\ Size(p) = Size(q) /\ p.confidence > q.confidence
  \/ p.start = q.start /\ Size(p) = Size(q) /\ p.confidence = q.confidence /\ p.id < q.id

SamePlace(p, q) == p.start = q.start /\ p.end = q.end
Holds(p, q)     == p.start <= q.start /\ q.end <= p.end
Clash(p, q)     == Overlaps(p, q) /\ (SamePlace(p, q) \/ ~(Holds(p, q) \/ Holds(q, p)))

Supersedes(p, q) == IF SamePlace(p, q) THEN p.confidence > q.confidence
                    ELSE Size(p) > Size(q)

PlaceProperty(kept, p) ==
  LET clashes == {k \in DOMAIN kept : Clash(p, kept[k])}
  IN IF clashes = {} THEN Append(kept, p)
     ELSE LET k == CHOOSE k \in clashes : \A l \in clashes : k <= l
          IN IF Supersedes(p, kept[k]) THEN [kept EXCEPT ![k] = p] ELSE kept

DeduplicateProperties(properties) ==
  LET order == {p \in properties \X properties : ByPlace(p[1], p[2])}
  IN  ToSet(FoldLeft(PlaceProperty, <<>>, Ranked(properties, order)))

-----------------------------------------------------------------------------
(* Triples.  Spans that only touch count as overlapping.                      *)
Touches(s, a) == s.start <= a.end /\ a.start <= s.end

\* Rejected annotations are left out.
ConceptLinks(s, anns) == {a.id : a \in {b \in anns : b.state # "rejected" /\ Touches(s, b.span)}}

\* By name, wherever in the document the mention is.
IndividualLinks(s, individuals) ==
  {i.id : i \in {j \in individuals : <<j.name, s.name>> \in SameName \/ j.name = s.name}}
=============================================================================
