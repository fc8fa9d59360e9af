------------------------------ MODULE MCChunks ------------------------------
(* TextChunks on every text of at most four sentences, some of them said twice. *)
EXTENDS TextChunks

\* Sentences that are told apart by their letters, some of them twice
MCTexts ==
  LET sentences == {<<1>>, <<2, 2>>, <<3, 3, 3>>, <<4, 4, 4, 4, 4>>}
  IN UNION {[sentences : [1..k -> sentences], gaps : [1..(k - 1) -> {<<>>, <<Space>>}]] : k \in 1..4}

\* The plainest ones: all sentences separated by one space
SpacedTexts == {t \in MCTexts : \A i \in DOMAIN t.gaps : t.gaps[i] = <<Space>>}
=============================================================================
