---------------------------- MODULE ConceptStages ----------------------------
(* What the concept stages of a pipeline compute, one operator per step: the  *)
(* entity ruler, the LLM's concepts, reconciliation, resolution, the branch   *)
(* judge and string matching.  Enrichment runs them.                          *)
(*                                                                            *)
(* An occurrence is a stretch of the document that reads as a text which a    *)
(* label or the LLM may name.  Occurrences are nested or apart: what happens  *)
(* to crossing ones is SpanOverlap's subject.                                 *)
(*                                                                            *)
(* Simplifications: a text is compared without case, so it is a value; of a   *)
(* confidence, only what decides is kept (strong or not; below a threshold or *)
(* not); labels, definitions, colours and lineage are left out, and so are    *)
(* backup concepts, which exact matches do not get by default.                *)
(* A definition marked "broken" is a defect that no specification uses.       *)
EXTENDS Integers, FiniteSets, SequencesExt, Orders

CONSTANTS Texts,       \* what is read in the document, in lower case
          Iris, NoIri, \* concepts, and the concept of what has none yet
          Meanings,    \* Meanings[t]: the concepts with the label t, in order
          Winner,      \* Winner[t]: the one of them in the index of single labels
          AltLabels,   \* AltLabels[c]: alternative and hidden labels of c
          Safe,        \* texts that an alternative label may be expanded to
          Preferred,   \* texts that are the primary label of their winner
          Hint,        \* Hint[t]: the branch the LLM guesses for t, or NoBranch
          Branch,      \* Branch[c]: the branch of a concept, or NoBranch
          NoBranch,
          Excluded     \* branches that are never tagged

ASSUME StagesAssumption ==
  /\ NoIri \notin Iris /\ Safe \subseteq Texts
  /\ Preferred \subseteq {t \in Texts : Meanings[t] # <<>>}
  /\ Meanings \in [Texts -> Seq(Iris)]
  /\ Winner \in [Texts -> Iris \cup {NoIri}]
  /\ \A t \in Texts : /\ IsInjective(Meanings[t])
                      /\ IF Meanings[t] = <<>> THEN Winner[t] = NoIri
                         ELSE Winner[t] \in ToSet(Meanings[t])
  /\ AltLabels \in [Iris -> SUBSET Texts]
  /\ DOMAIN Branch = Iris /\ DOMAIN Hint = Texts /\ NoBranch \notin Excluded

-----------------------------------------------------------------------------
(* Occurrences and annotations.                                               *)
Within(s, w) == w.start <= s.start /\ s.end <= w.end
Meet(s, w)   == s.start < w.end /\ w.start < s.end

Laminar(doc) ==
  \A s, w \in doc : /\ Meet(s, w) => Within(s, w) \/ Within(w, s)
                    /\ s.start = w.start /\ s.end = w.end => s = w

\* An annotation has the text and the concept of its primary ConceptMatch.
Tagged(maker, s, iri, state) ==
  [id |-> <<maker, s, iri>>, span |-> s, text |-> s.text, iri |-> iri, state |-> state]

Concept(t, iri) == [text |-> t, iri |-> iri, branch |-> Branch[iri], strong |-> FALSE]
Unresolved(t)   == [text |-> t, iri |-> NoIri, branch |-> Hint[t], strong |-> FALSE]

-----------------------------------------------------------------------------
(* The entity ruler: longest match first, nothing inside a match.             *)
InTextOrder(spans) == Ranked(spans, {p \in spans \X spans : p[1].start < p[2].start})

RulerMatches(doc) ==
  LET labelled == {s \in doc : Winner[s.text] # NoIri}
  IN {s \in labelled : \A w \in labelled : Within(s, w) => s = w}

RulerAnnotations(doc) ==
  {Tagged("ruler", s, Winner[s.text], "preliminary") : s \in RulerMatches(doc)}

\* All concepts with the label, for every match; the annotation has one of them.
RulerConcepts(doc) ==
  FoldLeft(LAMBDA list, s : list \o [i \in DOMAIN Meanings[s.text] |->
                                        Concept(s.text, Meanings[s.text][i])],
           <<>>, InTextOrder(RulerMatches(doc)))

\* Near matches of texts that are no label, by embedding, off the known spans.
SemanticSpans(doc) ==
  {s \in doc : Winner[s.text] = NoIri /\ \A m \in RulerMatches(doc) : ~Meet(s, m)}

SemanticOnly(anns, near) ==              \* broken: what was committed is replaced
  {Tagged("semantic", s, near[s], "preliminary") : s \in DOMAIN near}

\* The later matches do not overlap the committed ones: both stay.
SemanticAnnotations(anns, near) ==
  anns \cup {Tagged("semantic", s, near[s], "preliminary") : s \in DOMAIN near}

SemanticConcepts(concepts, near) ==
  concepts \o SetToSeq({Concept(s.text, near[s]) : s \in DOMAIN near})

\* The LLM names texts, never an IRI; each is looked up in the document.
LlmAnnotations(doc, said) ==
  {Tagged("llm", s, NoIri, "preliminary") : s \in {o \in doc : o.text \in said}}

\* What both have found is the ruler's.
MergePreliminary(anns, found) ==
  anns \cup {f \in found : \A a \in anns : ~(a.span = f.span /\ a.text = f.text)}

-----------------------------------------------------------------------------
(* Reconciliation.  category is what folio_resolve answers for a concept of   *)
(* the ruler: "agree", "ruler" or "dropped"; what only the LLM has said is    *)
(* "llm".  strong are the texts whose confidence comes out higher.            *)
Categories(said, c) == IF c.text \in said THEN {"agree", "ruler", "dropped"}
                       ELSE {"ruler", "dropped"}

LlmOnly(category, said) ==
  {t \in said : \A c \in DOMAIN category : c.text = t => category[c] # "agree"}

Reconciled(ruler, category, said, strong) ==
  LET kept   == FoldLeft(LAMBDA list, c : IF category[c] = "dropped" THEN list
                                          ELSE Append(list, c), <<>>, ruler)
      others == SetToSeq({Unresolved(t) : t \in LlmOnly(category, said)})
      all    == kept \o others
  IN [i \in DOMAIN all |-> [all[i] EXCEPT !.strong = @ \/ all[i].text \in strong]]

\* By text and concept; by text alone for an annotation without a concept.
Verdicts(category, said, a) ==
  IF a.iri # NoIri
  THEN {category[c] : c \in {d \in DOMAIN category : d.text = a.text /\ d.iri = a.iri}}
  ELSE {category[c] : c \in {d \in DOMAIN category : d.text = a.text}}
         \cup (IF a.text \in LlmOnly(category, said) THEN {"llm"} ELSE {})

StateAfter(verdicts) == IF "agree" \in verdicts THEN "confirmed"
                        ELSE IF verdicts \subseteq {"dropped"} THEN "rejected"
                        ELSE "preliminary"

TriagedAway(anns, category, said) ==     \* broken: what is not reconciled is removed
  {a \in anns : StateAfter(Verdicts(category, said, a)) # "rejected"}

Triaged(anns, category, said) ==
  {IF a.state # "preliminary" THEN a
   ELSE [a EXCEPT !.state = StateAfter(Verdicts(category, said, a))] : a \in anns}

\* A verb where the label is a noun: a low confidence becomes a rejection.
Mistagged(anns, verbs) ==
  {IF a.span \in verbs THEN [a EXCEPT !.state = "rejected"] ELSE a : a \in anns}

-----------------------------------------------------------------------------
(* Resolution.  The cache is asked before the IRI the ruler knows.            *)
CacheKey(c) == <<c.text, c.branch>>

LookedUp(c, search) ==
  LET iri == IF c.iri # NoIri THEN c.iri ELSE search[c.text]
  IN IF iri = NoIri \/ Branch[iri] \in Excluded THEN NoIri ELSE iri

\* cache: what each key was resolved to; list: the resolved concepts.
ResolveNext(acc, c, search) ==
  LET key   == CacheKey(c)
      known == {e \in acc.cache : e.key = key}
      iri   == IF known # {} THEN (CHOOSE e \in known : TRUE).iri ELSE LookedUp(c, search)
      found == [text |-> c.text, iri |-> iri, strong |-> c.strong,
                branch |-> IF iri = NoIri THEN NoBranch
                           ELSE IF Branch[iri] # NoBranch THEN Branch[iri] ELSE c.branch]
  IN [cache |-> acc.cache \cup {[key |-> key, iri |-> iri]},
      list  |-> IF iri = NoIri THEN acc.list ELSE Append(acc.list, found)]

Resolve(acc, list, search) ==
  FoldLeft(LAMBDA r, c : ResolveNext(r, c, search), acc, list)

NothingResolved == [cache |-> {}, list |-> <<>>]

\* Without reconciled concepts: the ruler's, then the LLM's of texts not resolved yet.
ResolvedConcepts(reconciled, ruler, said, search) ==
  IF reconciled # <<>> THEN Resolve(NothingResolved, reconciled, search).list
  ELSE LET first == Resolve(NothingResolved, ruler, search)
           done  == {first.list[i].text : i \in DOMAIN first.list}
       IN Resolve(first, SetToSeq({Unresolved(t) : t \in said \ done}), search).list

\* The judge gives the concepts without a branch one, or none.
Judged(list, judgement) ==
  [i \in DOMAIN list |-> IF list[i].branch = NoBranch
                         THEN [list[i] EXCEPT !.branch = judgement[i]] ELSE list[i]]

-----------------------------------------------------------------------------
(* String matching.                                                           *)
OwnedByOther(t, iri) == t \in Preferred /\ Winner[t] # iri

ExpandsAnywhere(c, t) == t \in AltLabels[c.iri] /\ t \in Safe  \* broken: whoever owns t

Expands(c, t) == t \in AltLabels[c.iri] /\ t \in Safe /\ ~OwnedByOther(t, c.iri)

\* c is matched by its own text (the stronger of two) and by its other labels.
AddTo(list, c, t) ==
  LET at == {i \in DOMAIN list : list[i].iri = c.iri}
  IN IF c.text = t
     THEN IF at = {} THEN Append(list, c)
          ELSE [i \in DOMAIN list |->
                  IF i \in at /\ c.strong /\ ~list[i].strong THEN c ELSE list[i]]
     ELSE IF at = {} /\ Expands(c, t) THEN Append(list, c) ELSE list

ConceptsFor(t, resolved) == FoldLeft(LAMBDA list, c : AddTo(list, c, t), <<>>, resolved)

Confirmed(a, c) == [a EXCEPT !.text = c.text, !.iri = c.iri, !.state = "confirmed"]

\* The annotation that was there takes every concept of its own, first, IRI or text:
\* the last one stays.  The other concepts get annotations of their own.
Confirm(acc, c, s, iri) ==
  IF \E a \in acc.old : iri = c.iri \/ a.text = c.text
  THEN [acc EXCEPT !.old = {Confirmed(a, c) : a \in acc.old}, !.hit = TRUE]
  ELSE [acc EXCEPT !.new = @ \cup {[Tagged("match", s, c.iri, "confirmed")
                                       EXCEPT !.text = c.text]}]

MatchedAt(anns, s, resolved) ==
  LET old == {a \in anns : a.span = s}
      iri == IF old = {} THEN NoIri ELSE (CHOOSE a \in old : TRUE).iri
      end == FoldLeft(LAMBDA acc, c : Confirm(acc, c, s, iri),
                      [old |-> old, new |-> {}, hit |-> FALSE],
                      ConceptsFor(s.text, resolved))
  IN IF end.hit THEN end.old \cup end.new ELSE end.new

DedupAnyIri(anns) ==                     \* broken: the longest stays, whatever it says
  {a \in anns : ~\E b \in anns : Within(a.span, b.span) /\ a.span # b.span}

\* One concept at overlapping spans: the longest stays.  Rejected ones are left alone.
DedupSameIri(anns) ==
  {a \in anns : a.state = "rejected" \/
     ~\E b \in anns : /\ b.state # "rejected" /\ b.iri = a.iri
                      /\ Within(a.span, b.span) /\ a.span # b.span}

\* Of the annotations at spans that match nothing resolved, only the rejected ones stay.
StringMatched(anns, doc, resolved) ==
  LET hit == {s \in doc : ConceptsFor(s.text, resolved) # <<>>}
  IN DedupSameIri((UNION {MatchedAt(anns, s, resolved) : s \in hit})
                    \cup {a \in anns : a.span \notin hit /\ a.state = "rejected"})

=============================================================================
