----------------------------- MODULE Enrichment -----------------------------
(* The enrichment of one document: the stages that run side by side after it  *)
(* was read, the merge of what they have found, and the stages that follow    *)
(* one by one.  ConceptStages and EntityStages say what a stage computes;     *)
(* this module, in which order, on what, and what is left when stages fail.   *)
(*                                                                            *)
(* The branches share one job in memory and suspend only where they wait for  *)
(* a worker thread or an LLM, so what a branch commits at once is one step.   *)
(* A branch or stage that raises is logged and skipped.                       *)
(*                                                                            *)
(* Simplifications: a stage raises before it has changed anything, or is      *)
(* done; the LLM's answers are any, those of the embedding index and of the   *)
(* label search belong to the document; the reranker, which is off by default,    *)
(* the document's type and the other metadata change nothing of this; saves   *)
(* and statuses are PostJobFlow's, edits by users AnnotationReview's.         *)
(* A definition marked "broken" is a defect that no specification uses.       *)
EXTENDS ConceptStages, EntityStages

CONSTANTS Docs,      \* documents, with what there is to be found in them
          MaxFails,  \* bound on the stages that raise
          Doubtful   \* texts whose concepts may come out with more confidence

\* Parsers and extractors give each individual an id of its own, and no links yet.
Sources   == {"eyecite", "citeurl", "regex", "spacy_ner", "llm"}
Mentioned == [id : Nat, source : Sources, start : Nat, end : Nat, name : STRING, links : {{}}]
Part      == [start : Nat, end : Nat, name : STRING, concepts : {{}}, individuals : {{}}]

ASSUME DocsAssumption == \A d \in Docs :
  /\ IsFiniteSet(d.text) /\ Laminar(d.text)
  /\ \A s \in d.text : s \in [start : Nat, end : Nat, text : Texts] /\ s.start < s.end
  /\ {d.near, d.search} \subseteq [Texts -> Iris \cup {NoIri}]
  /\ IsFiniteSet(d.mentions \cup d.reported) /\ d.mentions \cap d.reported = {}
  /\ \A i, j \in d.mentions \cup d.reported : i \in Mentioned /\ (i.id = j.id => i = j)
  /\ d.parts \subseteq Part

VARIABLES doc,       \* the document
          todo,      \* branches still to run
          pc,        \* "extract", then the stage that is next
          skipped,   \* stages that have raised
          anns,      \* the job's annotations
          ruler,     \* metadata ruler_concepts
          said,      \* metadata llm_concepts: the texts the LLM has named
          found,     \* metadata llm_preliminary_annotations
          tagged,    \* metadata sentence_pos is there
          reconciled, resolved, \* metadata of the same names
          individuals, properties, triples,
          cited      \* individuals that citation edges of propositions refer to

concepts == <<anns, ruler, said, found, reconciled, resolved>>
entities == <<individuals, properties, triples, cited, tagged>>
vars == <<doc, todo, pc, skipped, concepts, entities>>

-----------------------------------------------------------------------------
LinkFirst ==                             \* broken: individuals before the matching
  [reconcile |-> "resolve", resolve |-> "judge", judge |-> "link", link |-> "match",
   match |-> "relate", relate |-> "connect", connect |-> "complete"]

\* The stage after each, in build_pipeline_config's order.
After ==
  [reconcile |-> "resolve", resolve |-> "judge", judge |-> "match", match |-> "link",
   link |-> "relate", relate |-> "connect", connect |-> "complete"]

Stages == DOMAIN After

Ids(set) == {x.id : x \in set}

Init ==
  /\ doc \in Docs
  /\ todo = {"ruler", "llm", "individuals", "properties", "triples"}
  /\ pc = "extract" /\ skipped = {}
  /\ anns = {} /\ ruler = <<>> /\ said = {} /\ found = {} /\ tagged = FALSE
  /\ reconciled = <<>> /\ resolved = <<>>
  /\ individuals = {} /\ properties = {} /\ triples = {} /\ cited = {}

-----------------------------------------------------------------------------
(* The branches.                                                              *)
Ends(b, next) == /\ b \in todo /\ todo' = (todo \ {b}) \cup next
                 /\ UNCHANGED <<doc, pc, skipped>>

\* What the exact matching has found is committed and saved at once.
Ruler ==
  /\ Ends("ruler", {"semantic"})
  /\ anns' = RulerAnnotations(doc.text) /\ ruler' = RulerConcepts(doc.text)
  /\ UNCHANGED <<said, found, reconciled, resolved, entities>>

Near == [s \in {o \in SemanticSpans(doc.text) : doc.near[o.text] # NoIri} |-> doc.near[s.text]]

\* What the embedding index has near the other texts; nothing, when it fails.
Semantic ==
  /\ Ends("semantic", {})
  /\ anns' = SemanticAnnotations(anns, Near) /\ ruler' = SemanticConcepts(ruler, Near)
  /\ UNCHANGED <<said, found, reconciled, resolved, entities>>

\* Chunks that fail contribute nothing; its annotations wait for the merge.
Llm ==
  \E texts \in SUBSET {s.text : s \in doc.text} :
    /\ Ends("llm", {})
    /\ said' = texts /\ found' = LlmAnnotations(doc.text, texts)
    /\ UNCHANGED <<anns, ruler, reconciled, resolved, entities>>

\* Citation parsers and the other extractors fail apart from each other.
Individuals ==
  \E failed \in SUBSET {{"eyecite", "citeurl"}, {"regex", "spacy_ner"}} :
    /\ Ends("individuals", {"propositions"})
    /\ individuals' = Deduplicate({i \in doc.mentions : i.source \notin UNION failed})
    /\ UNCHANGED <<properties, triples, cited, tagged, concepts>>

\* A proposition cites the individuals whose mention is in its sentence.
Propositions ==
  /\ Ends("propositions", {})
  /\ cited' = {i.id : i \in {j \in individuals : j.name \in doc.claims}}
  /\ UNCHANGED <<individuals, properties, triples, tagged, concepts>>

Properties ==
  /\ Ends("properties", {})
  /\ properties' = DeduplicateProperties(doc.relations)
  /\ UNCHANGED <<individuals, triples, cited, tagged, concepts>>

Triples ==
  /\ Ends("triples", {})
  /\ triples' = doc.parts /\ tagged' = TRUE
  /\ UNCHANGED <<individuals, properties, cited, concepts>>

\* The propositions are extracted even when the individuals were not.
BranchFails ==
  \E b \in todo : /\ Ends(b, IF b = "individuals" THEN {"propositions"} ELSE {})
                  /\ UNCHANGED <<concepts, entities>>

Merge ==
  /\ pc = "extract" /\ todo = {}
  /\ pc' = "reconcile"
  /\ anns' = MergePreliminary(anns, found) /\ found' = {}
  /\ UNCHANGED <<doc, todo, skipped, ruler, said, reconciled, resolved, entities>>

-----------------------------------------------------------------------------
(* The stages.                                                                *)
Stage(p) == pc = p /\ pc' = After[p] /\ UNCHANGED <<doc, todo, skipped>>

Reconcile ==
  \E strong \in SUBSET Doubtful : \E verbs \in SUBSET (IF tagged THEN doc.verbs ELSE {}) :
    \E category \in [ToSet(ruler) -> {"agree", "ruler", "dropped"}] :
      /\ Stage("reconcile")
      /\ \A c \in DOMAIN category : category[c] \in Categories(said, c)
      /\ reconciled' = Reconciled(ruler, category, said, strong)
      /\ anns' = Mistagged(Triaged(anns, category, said), verbs)
      /\ UNCHANGED <<ruler, said, found, resolved, entities>>

ResolveConcepts ==
  /\ Stage("resolve")
  /\ resolved' = ResolvedConcepts(reconciled, ruler, said, doc.search)
  /\ UNCHANGED <<anns, ruler, said, found, reconciled, entities>>

Judge ==
  \E branch \in {Hint[t] : t \in Texts} \cup {NoBranch} :
    /\ Stage("judge")
    /\ resolved' = Judged(resolved, [i \in DOMAIN resolved |-> branch])
    /\ UNCHANGED <<anns, ruler, said, found, reconciled, entities>>

MatchStrings ==
  /\ Stage("match")
  /\ anns' = IF resolved = <<>> THEN anns ELSE StringMatched(anns, doc.text, resolved)
  /\ UNCHANGED <<ruler, said, found, reconciled, resolved, entities>>

\* The LLM adds individuals and links of any to annotations, rejected ones too.
LinkIndividuals ==
  \E new \in SUBSET doc.reported :
    \E link \in [new \cup individuals -> {{}} \cup {{id} : id \in Ids(anns)}] :
      /\ Stage("link")
      /\ individuals' = Deduplicate({[i EXCEPT !.links = @ \cup link[i]] : i \in DOMAIN link})
      /\ UNCHANGED <<properties, triples, cited, tagged, concepts>>

LinkProperties ==
  \E new \in SUBSET doc.suggested :
    /\ Stage("relate")
    /\ properties' = DeduplicateProperties(properties \cup new)
    /\ UNCHANGED <<individuals, triples, cited, tagged, concepts>>

EnrichTriples ==
  /\ Stage("connect")
  /\ triples' = {[p EXCEPT !.concepts = ConceptLinks(p, anns),
                            !.individuals = IndividualLinks(p, individuals)] : p \in triples}
  /\ UNCHANGED <<individuals, properties, cited, tagged, concepts>>

StageFails ==
  /\ pc \in Stages /\ Cardinality(skipped) < MaxFails
  /\ pc' = After[pc] /\ skipped' = skipped \cup {pc}
  /\ UNCHANGED <<doc, todo, concepts, entities>>

Extract == Ruler \/ Semantic \/ Llm \/ Individuals \/ Propositions \/ Properties
           \/ Triples \/ BranchFails \/ Merge

Next == \/ Extract
        \/ Reconcile \/ ResolveConcepts \/ Judge \/ MatchStrings
        \/ LinkIndividuals \/ LinkProperties \/ EnrichTriples \/ StageFails

Spec == Init /\ [][Next]_vars
-----------------------------------------------------------------------------
Annotations == [id : {"ruler", "semantic", "llm", "match"} \X doc.text \X (Iris \cup {NoIri}),
                span : doc.text, text : Texts, iri : Iris \cup {NoIri},
                state : {"preliminary", "confirmed", "rejected"}]

Unmatched == pc \in {"extract", "reconcile", "resolve", "judge", "match"}

(* Types; ids are given once, and until the string matching adds meanings     *)
(* there is at most one annotation at a place.                                *)
EnrichTypeOK ==
  /\ doc \in Docs /\ pc \in {"extract", "complete"} \cup Stages /\ skipped \subseteq Stages
  /\ anns \subseteq Annotations /\ found \subseteq Annotations /\ said \subseteq Texts
  /\ \A a, b \in anns : (IF Unmatched THEN a.span = b.span ELSE a.id = b.id) => a = b
  /\ \A x, y \in individuals : x.id = y.id => x = y
  /\ cited \subseteq Ids(doc.mentions)

(* Whatever the other branches do, and whichever of them fail, the exact      *)
(* matches that were committed and shown are there when the string matching   *)
(* starts: rejected perhaps, never dropped.                                   *)
ExactMatchesKept ==
  Unmatched /\ ruler # <<>> => Ids(RulerAnnotations(doc.text)) \subseteq Ids(anns)

Matched == ~Unmatched /\ "match" \notin skipped /\ resolved # <<>>

(* After the string matching, every occurrence of a text that something was   *)
(* resolved for lies under a confirmed annotation with one of its concepts:   *)
(* removing what overlaps never uncovers it.                                  *)
NothingResolvedVanishes ==
  Matched =>
    \A s \in doc.text :
      LET list == ConceptsFor(s.text, resolved)
      IN list # <<>> => \E a \in anns : /\ a.state = "confirmed" /\ Within(s, a.span)
                                        /\ \E i \in DOMAIN list : a.iri = list[i].iri

(* A text that is the primary label of a concept is tagged with another one   *)
(* only when that was resolved from this very text, never because it is an    *)
(* alternative label of it.                                                   *)
OwnersKept ==
  \A a \in anns :
    a.state = "confirmed" /\ a.iri # NoIri /\ OwnedByOther(a.span.text, a.iri) =>
      \E i \in DOMAIN resolved : resolved[i].iri = a.iri /\ resolved[i].text = a.span.text

(* The links of individuals and triples lead to annotations and individuals   *)
(* of the job, although most annotations of the first stages are replaced.    *)
LinksResolve ==
  /\ EnrichTypeOK
  /\ \A i \in individuals : i.links \subseteq Ids(anns)
  /\ \A p \in triples : /\ p.concepts \subseteq Ids(anns)
                          /\ p.individuals \subseteq Ids(individuals)

(* Every meaning of a label that was resolved is tagged wherever the label    *)
(* is.  It fails: the annotation that was there takes each meaning of its     *)
(* text in turn, and ends up with the last.                                   *)
EveryMeaningTagged ==
  Matched =>
    \A s \in doc.text : \A i \in DOMAIN resolved :
      resolved[i].text = s.text =>
        \E a \in anns : /\ a.state = "confirmed" /\ Within(s, a.span)
                        /\ a.iri = resolved[i].iri
=============================================================================
