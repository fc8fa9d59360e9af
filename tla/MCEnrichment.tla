---------------------------- MODULE MCEnrichment ----------------------------
(* Four concepts, of which one is excluded, and three kinds of documents.     *)
(* "agreement" is the primary label of one concept and an alternative label   *)
(* of another, in another branch; "license agreement" holds it; "covenant" is *)
(* an alternative label only, and a verb; "pact" is no label at all.  One     *)
(* document has the entities: a citation two parsers find, a name, and what   *)
(* the LLM reports of both.                                                   *)
EXTENDS EnrichedJob

MCTexts == {"license agreement", "agreement", "covenant", "pact"}
MCIris  == {"Agreement", "License", "Promise", "Place"}

MCMeanings == [t \in MCTexts |-> CASE t = "license agreement" -> <<"License">>
                                   [] t = "agreement" -> <<"Agreement", "License">>
                                   [] t = "covenant"  -> <<"Promise">>
                                   [] OTHER           -> <<>>]
MCWinner == [t \in MCTexts |-> IF MCMeanings[t] = <<>> THEN "none" ELSE MCMeanings[t][1]]
MCPreferred == {"license agreement", "agreement"}
MCAltLabels == [c \in MCIris |-> CASE c = "License" -> {"agreement"}
                                   [] c = "Promise" -> {"covenant"}
                                   [] OTHER         -> {}]
MCBranch == [c \in MCIris |-> CASE c = "Agreement" -> "documents"
                                [] c = "License"   -> "permits"
                                [] c = "Place"     -> "places"
                                [] OTHER           -> "none"]
MCHint == [t \in MCTexts |-> IF t = "pact" THEN "documents" ELSE "none"]

At(from, to, t) == [start |-> from, end |-> to, text |-> t]

Nothing == [t \in MCTexts |-> "none"]

Empty == [text |-> {}, near |-> Nothing, search |-> Nothing, verbs |-> {},
          mentions |-> {}, reported |-> {}, claims |-> {}, relations |-> {},
          suggested |-> {}, parts |-> {}]

Nested == [Empty EXCEPT !.text = {At(0, 2, "license agreement"), At(1, 2, "agreement"),
                                  At(3, 4, "agreement")}]

Unlabelled(near, answer) ==
  [Empty EXCEPT !.text  = {At(0, 1, "agreement"), At(2, 3, "covenant"), At(4, 5, "pact")},
                !.verbs = {At(2, 3, "covenant")},
                !.near["pact"] = near, !.search["pact"] = answer]

Individual(n, source, from, to, name) ==
  [id |-> n, source |-> source, start |-> from, end |-> to, name |-> name, links |-> {}]
Property(n, from, to, confidence) ==
  [id |-> n, start |-> from, end |-> to, confidence |-> confidence]

Citing == [Empty EXCEPT
  !.text      = {At(0, 1, "covenant"), At(6, 7, "pact")},
  !.mentions  = {Individual(1, "eyecite", 2, 4, "5 F.3d"), Individual(2, "regex", 3, 4, "F.3d"),
                 Individual(3, "regex", 5, 6, "smith")},
  !.reported  = {Individual(4, "llm", 2, 5, "doe"), Individual(5, "llm", 8, 9, "john smith")},
  !.claims    = {"5 F.3d", "smith"},
  !.relations = {Property(1, 1, 2, 7), Property(2, 1, 3, 5)},
  !.suggested = {Property(3, 2, 5, 9)},
  !.parts     = {[start |-> 0, end |-> 2, name |-> "smith", concepts |-> {}, individuals |-> {}]}]

MCDocs == {Nested, Citing} \cup
          {Unlabelled(p[1], p[2]) : p \in {<<"none", "none">>, <<"none", "License">>,
                                          <<"none", "Place">>, <<"Place", "none">>,
                                          <<"Agreement", "Promise">>}}
MCSameName == {<<"F.3d", "5 F.3d">>, <<"5 F.3d", "F.3d">>,
               <<"smith", "john smith">>, <<"john smith", "smith">>}
=============================================================================
