------------------------------- MODULE MCText -------------------------------
(* What is done with one text and one job from end to end by pure code: the   *)
(* matches of a text are resolved, a text is cut into chunks, a finished job  *)
(* is exported.  Each behaviour is of one of the three.                       *)
EXTENDS MCSpans, MCChunks, Exports

all == <<span_vars, chunk_vars, export_vars>>

-----------------------------------------------------------------------------
Judge == [iri |-> "Judge", text |-> "judge"]
Court == [iri |-> "Court", text |-> "court"]
Motto == [iri |-> NoIri, text |-> "motto"]

ToJudge == [type |-> "concept", id |-> 0, iri |-> "Judge"]
ToMotto == [type |-> "concept", id |-> 0, iri |-> NoIri]
ToFirst == [type |-> "individual", id |-> 1, iri |-> NoIri]

MCAnnotations ==
  {[start |-> s[1], end |-> s[2], state |-> "confirmed", concepts |-> c] :
     s \in {<<0, 3>>, <<1, 3>>}, c \in {<<>>, <<Judge>>, <<Motto, Court>>}}

\* They reach over the text, as one placed by a later chunk may.
MCIndividuals ==
  {<<>>} \cup {<<[start |-> s[1], end |-> s[2], classes |-> <<"Judge", NoIri>>,
                   renamed |-> s[1] < 0]>> :
                 s \in {<<-1, 2>>, <<2, 5>>}}

MCProperties ==
  {<<>>, <<[start |-> 1, end |-> 3, iri |-> "heard", around |-> {"Judge", "Party"}]>>,
         <<[start |-> 2, end |-> 3, iri |-> NoIri, around |-> {"Court"}]>>}

MCTriples ==
  {<<[subject |-> <<ToMotto, ToJudge>>, object |-> <<ToFirst>>, predicate |-> <<ToMotto>>,
      placed |-> TRUE]>>,
   <<[subject |-> <<ToJudge>>, object |-> <<>>, predicate |-> <<ToJudge>>, placed |-> FALSE]>>}

MCJobs ==
  {j \in [annotations : {<<>>} \cup {<<a>> : a \in MCAnnotations}
                          \cup {<<x, y>> \in MCAnnotations \X MCAnnotations : x.start <= y.start},
          individuals : MCIndividuals, properties : MCProperties, triples : {<<>>} \cup MCTriples,
          propositions : {<<>>, <<[placed |-> TRUE, roles |-> 1], [placed |-> FALSE, roles |-> 0]>>},
          chunks : {<<[start |-> 0, end |-> 2], [start |-> 1, end |-> 4]>>},
          length : {0, 4}, both : BOOLEAN] :
     /\ j.both <=> j.propositions = <<>>
     /\ j.both => j.properties # <<>>
     /\ j.triples = <<>> <=> j.individuals = <<>>
     /\ j.length = 0 => Len(j.annotations) = 1 /\ j.both}

-----------------------------------------------------------------------------
NoText  == [sentences |-> <<>>, gaps |-> <<>>]
NoJob   == [annotations |-> <<>>]

ChunksIdle  == /\ text = NoText /\ first = 1 /\ taken = 0 /\ chunk_start = 0
               /\ chunks = <<>> /\ calls = {} /\ mentions = {}
ExportsIdle == job = NoJob /\ answer = NoAnswer

MCInit == \/ SpanInit /\ input # <<>> /\ ChunksIdle /\ ExportsIdle
          \/ SpanInit /\ input = <<>> /\ ChunkInit /\ ExportsIdle
          \/ SpanInit /\ input = <<>> /\ ChunksIdle /\ ExportInit

Matching  == input # <<>> /\ PlaceNext /\ UNCHANGED <<chunk_vars, export_vars>>
Chunking  == text # NoText /\ ChunkNext /\ UNCHANGED <<span_vars, export_vars>>
Exporting == job # NoJob /\ ExportNext /\ UNCHANGED <<span_vars, chunk_vars>>

MCSpec == MCInit /\ [][Matching \/ Chunking \/ Exporting]_all
=============================================================================
