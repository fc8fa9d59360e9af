------------------------------- MODULE MCGold -------------------------------
(* One enriched job with two propositions that overlap by a character, and    *)
(* one committed record, with an annotation and a candidate that was deleted. *)
(* The lexicon alone finds nothing.  A request can move a proposition, change *)
(* its id and leave its disposition open, or give one without a place.        *)
EXTENDS GoldSession

P(id, from, to, cls, open) == [id |-> id, at |-> <<from, to>>, cls |-> cls, open |-> open]

First  == P("p1", 0, 2, "holding", FALSE)
Second == P("p2", 1, 3, "holding", FALSE)

MCExtracted == [j \in Jobs |-> IF j = "job" THEN <<First, Second>> ELSE <<>>]
MCLexicon   == [j \in Jobs |-> <<>>]
MCCommittedJob  == [g \in {"gold"} |-> "goldjob"]
MCCommittedRows == [g \in {"gold"} |->
  <<CandidateRow([Candidate(First, FALSE) EXCEPT !.outcome = "accepted"]),
    CandidateRow([Candidate(Second, FALSE) EXCEPT !.outcome = "deleted"])>>]
MCValidatedSlug == [g \in {"gold", "gold-validated"} |-> "gold-validated"]
MCSegments == {<<0, 1>>, <<2, 3>>}
MCPayloads == {P("p2", 2, 3, "holding", TRUE),
               [id |-> "p3", at |-> NoPlace, cls |-> "holding", open |-> FALSE]}
=============================================================================
