-------------------------- MODULE EnrichmentProofs --------------------------
(* The enrichment of a document whose occurrences are nested or apart, for    *)
(* any vocabulary and any answers: the exact matches stay, the stages change  *)
(* annotations only as a review may, owned labels stay, what was resolved is  *)
(* covered, and links lead to what is there.  And the ranking of candidates:  *)
(* who is chosen heads the list, and runners-up stand behind.                 *)
(*                                                                            *)
(* First what each list and set that a stage computes holds, then the         *)
(* inductive invariant, one lemma per part, and the theorems; the ranking     *)
(* last.                                                                      *)
EXTENDS EnrichedJob, ConceptRanking, ListProofs

-----------------------------------------------------------------------------
(* The concepts a text is matched with: of those that were given, each       *)
(* once, for its own text or for one that nobody else owns.                   *)
Branches == {Branch[c] : c \in Iris} \cup {Hint[t] : t \in Texts} \cup {NoBranch}

ConceptsOf(iris) == [text : Texts, iri : iris, branch : Branches, strong : BOOLEAN]

IsOf(t, given, l) ==
  /\ \A i \in DOMAIN l : \E k \in DOMAIN given :
       /\ given[k].iri = l[i].iri
       /\ given[k].text = t \/ Expands(given[k], t)
  /\ \A i, j \in DOMAIN l : l[i].iri = l[j].iri => i = j

LEMMA AddToTyped ==
  ASSUME NEW C, NEW l \in Seq(C), NEW c \in C, NEW t
  PROVE  AddTo(l, c, t) \in Seq(C)
<1> DEFINE at == {i \in DOMAIN l : l[i].iri = c.iri}
           m  == [i \in DOMAIN l |-> IF i \in at /\ c.strong /\ ~l[i].strong THEN c ELSE l[i]]
<1>1. Append(l, c) \in Seq(C)  OBVIOUS
<1>2. m \in [1..Len(l) -> C]  OBVIOUS
<1>3. m \in Seq(C)  BY <1>2, SeqDef
<1>4. AddTo(l, c, t) \in {Append(l, c), m, l}  BY DEF AddTo
<1>5. QED  BY <1>1, <1>3, <1>4

LEMMA AddToKeeps ==
  ASSUME NEW C, NEW l \in Seq(C), NEW given \in Seq(C), NEW k \in DOMAIN given, NEW t,
         IsOf(t, given, l)
  PROVE  IsOf(t, given, AddTo(l, given[k], t))
<1>1. PICK c \in C : c = given[k]  OBVIOUS
<1> DEFINE at == {i \in DOMAIN l : l[i].iri = c.iri}
<1>2. CASE c.text = t /\ at # {}
  <2>1. PICK m : m = [i \in DOMAIN l |-> IF i \in at /\ c.strong /\ ~l[i].strong THEN c ELSE l[i]]
    OBVIOUS
  <2>2. AddTo(l, c, t) = m  BY <1>2, <2>1 DEF AddTo
  <2>3. DOMAIN m = DOMAIN l /\ \A i \in DOMAIN l : m[i].iri = l[i].iri  BY <2>1
  <2>4. IsOf(t, given, m)  BY <2>3 DEF IsOf
  <2>5. QED  BY <1>1, <2>2, <2>4
<1>3. CASE at = {} /\ (c.text = t \/ Expands(c, t))
  <2>1. AddTo(l, c, t) = Append(l, c)  BY <1>3 DEF AddTo
  <2>2. Append(l, c) \in Seq(C)  OBVIOUS
  <2>3. PICK m \in Seq(C) : m = Append(l, c)  BY <2>2
  <2>4. /\ DOMAIN m = 1..(Len(l) + 1) /\ DOMAIN l = 1..Len(l) /\ Len(l) \in Nat
        /\ m[Len(l) + 1] = c /\ \A i \in 1..Len(l) : m[i] = l[i]
    BY <2>3
  <2>5. PICK n \in Nat : n = Len(l)  BY <2>4
  <2>6. \A i \in DOMAIN m : i \in 1..n \/ i = n + 1  BY <2>4, <2>5
  <2>7. \A i \in 1..n : l[i].iri # c.iri  BY <1>3, <2>4, <2>5
  <2>8. \A i \in DOMAIN m : \E j \in DOMAIN given :
          given[j].iri = m[i].iri /\ (given[j].text = t \/ Expands(given[j], t))
    <3> TAKE i \in DOMAIN m
    <3>1. CASE i \in 1..n  BY <2>4, <2>5, <3>1 DEF IsOf
    <3>2. CASE i = n + 1   BY <1>1, <1>3, <2>4, <2>5, <3>2
    <3>3. QED  BY <2>6, <3>1, <3>2
  <2>9. ASSUME NEW i \in DOMAIN m, NEW j \in DOMAIN m, m[i].iri = m[j].iri  PROVE i = j
    <3>1. CASE i \in 1..n /\ j \in 1..n  BY <2>4, <2>5, <2>9, <3>1 DEF IsOf
    <3>2. CASE i = n + 1 /\ j \in 1..n   BY <2>4, <2>5, <2>7, <2>9, <3>2
    <3>3. CASE j = n + 1 /\ i \in 1..n   BY <2>4, <2>5, <2>7, <2>9, <3>3
    <3>4. QED  BY <2>6, <3>1, <3>2, <3>3
  <2>10. QED  BY <1>1, <2>1, <2>3, <2>8, <2>9 DEF IsOf
<1>4. CASE ~(c.text = t /\ at # {}) /\ ~(at = {} /\ (c.text = t \/ Expands(c, t)))
  <2>1. AddTo(l, c, t) = l  BY <1>4 DEF AddTo
  <2>2. QED  BY <1>1, <2>1
<1> HIDE DEF at
<1>5. QED  BY <1>2, <1>3, <1>4, Zenon

LEMMA ConceptsForIs ==
  ASSUME NEW C, NEW given \in Seq(C), NEW t
  PROVE  ConceptsFor(t, given) \in Seq(C) /\ IsOf(t, given, ConceptsFor(t, given))
<1>1. PICK n \in Nat : n = Len(given)  OBVIOUS
<1>2. DOMAIN given = 1..n  BY <1>1
<1> DEFINE Eq(f) == f = [s \in SUBSET (DOMAIN given) |->
                           IF s = {} THEN <<>> ELSE AddTo(f[s \ {Max(s)}], given[Max(s)], t)]
           f0 == CHOOSE f : Eq(f)
           step == [k \in 1..n |-> [l \in Seq(C) |-> AddTo(l, given[k], t)]]
<1>3. ConceptsFor(t, given) = f0[DOMAIN given]  BY DEF ConceptsFor, FoldLeft, MapThenFoldSet
<1>4. step \in [1..n -> [Seq(C) -> Seq(C)]]
  <2>1. \A k \in 1..n : given[k] \in C  BY <1>2
  <2>2. QED  BY <2>1, AddToTyped
<1>5. <<>> \in Seq(C)  OBVIOUS
<1>6. \A s \in SUBSET (1..n) : s # {} => Max(s) \in 1..n /\ s \ {Max(s)} \in SUBSET (1..n)
  <2> SUFFICES ASSUME NEW s \in SUBSET (1..n), s # {}  PROVE Max(s) \in s  OBVIOUS
  <2>1. s \in SUBSET (0..n)  OBVIOUS
  <2>2. QED  BY <2>1, MaxIs
<1>7. \E f : Eq(f)
  <2> HIDE DEF step
  <2>1. PICK g : Folds(n, Seq(C), <<>>, step, g)  BY <1>4, <1>5, FoldExists
  <2> USE DEF step
  <2>2. g = [s \in SUBSET (1..n) |-> g[s]]  BY <2>1 DEF Folds
  <2>3. \A s \in SUBSET (1..n) : g[s] = IF s = {} THEN <<>>
                                        ELSE AddTo(g[s \ {Max(s)}], given[Max(s)], t)
    BY <1>6, <2>1 DEF Folds
  <2>4. QED  BY <1>2, <2>2, <2>3
<1>8. Eq(f0)  BY <1>7
<1>9. PICK F : Values(n, Seq(C), <<>>, step, F, f0[1..n])
  <2>1. f0[{}] = <<>>  BY <1>2, <1>8
  <2>2. ASSUME NEW s \in SUBSET (1..n), s # {}, f0[s \ {Max(s)}] \in Seq(C)
        PROVE  f0[s] = step[Max(s)][f0[s \ {Max(s)}]]
    <3>1. f0[s] = AddTo(f0[s \ {Max(s)}], given[Max(s)], t)  BY <1>2, <1>8, <2>2
    <3>2. Max(s) \in 1..n  BY <1>6, <2>2
    <3> HIDE DEF f0
    <3>3. QED  BY <2>2, <3>1, <3>2
  <2> HIDE DEF step, f0
  <2>3. QED  BY <1>4, <1>5, <2>1, <2>2, FoldValues
<1> DEFINE S == {k \in 0..n : IsOf(t, given, F[k])}
<1>10. 0 \in S  BY <1>9 DEF IsOf, Values
<1>11. ASSUME NEW k \in 0..(n - 1), k \in S  PROVE k + 1 \in S
  <2>1. k + 1 \in 1..n /\ (k + 1) - 1 = k /\ F[k] \in Seq(C)  BY <1>9 DEF Values
  <2>2. F[k + 1] = AddTo(F[k], given[k + 1], t)  BY <1>9, <2>1 DEF Values
  <2>3. IsOf(t, given, AddTo(F[k], given[k + 1], t))
    BY <1>2, <1>11, <2>1, AddToKeeps
  <2>4. QED  BY <2>1, <2>2, <2>3
<1>12. n \in S
  <2> HIDE DEF S
  <2>1. 0..n \subseteq S  BY <1>10, <1>11, UpTo
  <2>2. QED  BY <2>1
<1>13. QED  BY <1>2, <1>3, <1>9, <1>12 DEF Values

-----------------------------------------------------------------------------
(* What the string matching leaves at a span: annotations that are confirmed  *)
(* and have one of the concepts of its text each, under ids that differ.      *)
AnnotationsOf(spans) ==
  [id : {"ruler", "semantic", "llm", "match"} \X spans \X (Iris \cup {NoIri}),
   span : spans, text : Texts, iri : Iris \cup {NoIri},
   state : {"preliminary", "confirmed", "rejected"}]

Makers == {"ruler", "semantic", "llm"}

Matches(s, c) == [Tagged("match", s, c.iri, "confirmed") EXCEPT !.text = c.text]

(* After the concepts up to k: the old annotation has one of them if one was  *)
(* its own, the others got new ones.                                          *)
ConfirmedUpTo(k, old, s, list, acc) ==
  /\ \A a \in acc.old : \E b \in old : a.id = b.id /\ a.span = b.span
  /\ \A a, b \in acc.old : a = b
  /\ \A a \in acc.new : \E j \in 1..k : a = Matches(s, list[j])
  /\ IF acc.hit THEN /\ acc.old # {}
                     /\ \A a \in acc.old : /\ a.state = "confirmed"
                                          /\ \E j \in 1..k : a.iri = list[j].iri
     ELSE \A j \in 1..k : Matches(s, list[j]) \in acc.new

LEMMA MatchesTyped ==
  ASSUME NEW spans, NEW s \in spans, s.text \in Texts, NEW c \in ConceptsOf(Iris)
  PROVE  /\ Matches(s, c) \in AnnotationsOf(spans)
         /\ Matches(s, c).id = <<"match", s, c.iri>> /\ Matches(s, c).iri = c.iri
         /\ Matches(s, c).span = s /\ Matches(s, c).state = "confirmed"
<1>1. c.iri \in Iris /\ c.text \in Texts  BY DEF ConceptsOf
<1>2. Matches(s, c) = [id |-> <<"match", s, c.iri>>, span |-> s, text |-> c.text,
                       iri |-> c.iri, state |-> "confirmed"]
  BY DEF Matches, Tagged
<1>3. <<"match", s, c.iri>> \in
        {"ruler", "semantic", "llm", "match"} \X spans \X (Iris \cup {NoIri})
  BY <1>1
<1>4. QED  BY <1>1, <1>2, <1>3 DEF AnnotationsOf

LEMMA ConfirmTyped ==
  ASSUME NEW spans, NEW s \in spans, s.text \in Texts, NEW c \in ConceptsOf(Iris), NEW iri,
         NEW acc \in [old : SUBSET AnnotationsOf(spans), new : SUBSET AnnotationsOf(spans),
                      hit : BOOLEAN]
  PROVE  Confirm(acc, c, s, iri) \in
           [old : SUBSET AnnotationsOf(spans), new : SUBSET AnnotationsOf(spans), hit : BOOLEAN]
<1>1. c.iri \in Iris /\ c.text \in Texts  BY DEF ConceptsOf
<1>2. ASSUME NEW a \in AnnotationsOf(spans)  PROVE Confirmed(a, c) \in AnnotationsOf(spans)
  BY <1>1 DEF Confirmed, AnnotationsOf
<1>3. Matches(s, c) \in AnnotationsOf(spans)  BY MatchesTyped
<1>4. acc.old \in SUBSET AnnotationsOf(spans) /\ acc.new \in SUBSET AnnotationsOf(spans)
  OBVIOUS
<1>5. PICK o : o = {Confirmed(a, c) : a \in acc.old}  OBVIOUS
<1>6. o \in SUBSET AnnotationsOf(spans)  BY <1>2, <1>4, <1>5
<1>7. PICK w : w = acc.new \cup {Matches(s, c)}  OBVIOUS
<1>8. w \in SUBSET AnnotationsOf(spans)  BY <1>3, <1>4, <1>7
<1>9. Confirm(acc, c, s, iri) \in {[acc EXCEPT !.old = o, !.hit = TRUE], [acc EXCEPT !.new = w]}
  BY <1>5, <1>7 DEF Confirm, Matches
<1>10. QED  BY <1>6, <1>8, <1>9

LEMMA ConfirmKeeps ==
  ASSUME NEW spans, NEW s \in spans, NEW list, NEW k \in Nat, NEW iri, NEW old,
         NEW acc \in [old : SUBSET AnnotationsOf(spans), new : SUBSET AnnotationsOf(spans),
                      hit : BOOLEAN],
         ConfirmedUpTo(k, old, s, list, acc)
  PROVE  ConfirmedUpTo(k + 1, old, s, list, Confirm(acc, list[k + 1], s, iri))
<1>1. PICK c : c = list[k + 1]  OBVIOUS
<1>2. \A j \in 1..(k + 1) : j \in 1..k \/ j = k + 1  OBVIOUS
<1>3. k + 1 \in 1..(k + 1) /\ 1..k \subseteq 1..(k + 1)  OBVIOUS
<1> DEFINE own == \E a \in acc.old : iri = c.iri \/ a.text = c.text
           r   == Confirm(acc, c, s, iri)
<1>4. CASE own
  <2>1. PICK o : o = {Confirmed(a, c) : a \in acc.old}  OBVIOUS
  <2>2. r = [acc EXCEPT !.old = o, !.hit = TRUE]  BY <1>4, <2>1 DEF Confirm
  <2>3. r.old = o /\ r.new = acc.new /\ r.hit = TRUE  BY <2>2
  <2>4. \A a \in acc.old : /\ Confirmed(a, c).id = a.id /\ Confirmed(a, c).span = a.span
                           /\ Confirmed(a, c).state = "confirmed" /\ Confirmed(a, c).iri = c.iri
    BY DEF Confirmed, AnnotationsOf
  <2>5. o # {}  BY <1>4, <2>1
  <2>6. \A a \in o : /\ \E b \in old : a.id = b.id /\ a.span = b.span
                     /\ a.state = "confirmed" /\ a.iri = c.iri
    BY <2>1, <2>4 DEF ConfirmedUpTo
  <2>7. \A a, b \in o : a = b  BY <2>1 DEF ConfirmedUpTo
  <2>8. \A a \in acc.new : \E j \in 1..(k + 1) : a = Matches(s, list[j])
    BY <1>3 DEF ConfirmedUpTo
  <2> HIDE DEF r
  <2>9. ConfirmedUpTo(k + 1, old, s, list, r)
    BY <1>1, <1>3, <2>3, <2>5, <2>6, <2>7, <2>8 DEF ConfirmedUpTo
  <2>10. QED  BY <1>1, <2>9 DEF r
<1>5. CASE ~own
  <2>1. PICK w : w = acc.new \cup {Matches(s, c)}  OBVIOUS
  <2>2. r = [acc EXCEPT !.new = w]  BY <1>5, <2>1 DEF Confirm, Matches
  <2>3. r.old = acc.old /\ r.new = w /\ r.hit = acc.hit  BY <2>2
  <2>4. \A a \in w : \E j \in 1..(k + 1) : a = Matches(s, list[j])
    BY <1>1, <1>3, <2>1 DEF ConfirmedUpTo
  <2>5. ~acc.hit => \A j \in 1..(k + 1) : Matches(s, list[j]) \in w
    BY <1>1, <1>2, <2>1 DEF ConfirmedUpTo
  <2>6. acc.hit => acc.old # {} /\ \A a \in acc.old :
          a.state = "confirmed" /\ \E j \in 1..(k + 1) : a.iri = list[j].iri
    BY <1>3 DEF ConfirmedUpTo
  <2> HIDE DEF r
  <2>7. ConfirmedUpTo(k + 1, old, s, list, r)
    BY <2>3, <2>4, <2>5, <2>6 DEF ConfirmedUpTo
  <2>8. QED  BY <1>1, <2>7 DEF r
<1> HIDE DEF own
<1>6. QED  BY <1>4, <1>5

EndsWith(acc, spans, s, old, list, result) ==
  /\ acc \in [old : SUBSET AnnotationsOf(spans), new : SUBSET AnnotationsOf(spans),
              hit : BOOLEAN]
  /\ ConfirmedUpTo(Len(list), old, s, list, acc)
  /\ acc.hit  => result = acc.old \cup acc.new
  /\ ~acc.hit => result = acc.new

LEMMA MatchedAtIs ==
  ASSUME NEW spans, NEW s \in spans, s.text \in Texts, NEW given \in Seq(ConceptsOf(Iris)),
         NEW set \in SUBSET AnnotationsOf(spans),
         \A a, b \in set : a.span = b.span => a = b
  PROVE  \E acc : EndsWith(acc, spans, s, {a \in set : a.span = s},
                           ConceptsFor(s.text, given), MatchedAt(set, s, given))
<1>1. PICK list \in Seq(ConceptsOf(Iris)) : list = ConceptsFor(s.text, given)
  BY ConceptsForIs
<1>2. PICK n \in Nat : n = Len(list)  BY <1>1
<1>3. DOMAIN list = 1..n /\ \A k \in 1..n : list[k] \in ConceptsOf(Iris)  BY <1>1, <1>2
<1>4. PICK old : old = {a \in set : a.span = s}  OBVIOUS
<1>5. PICK iri : iri = IF old = {} THEN NoIri ELSE (CHOOSE a \in old : TRUE).iri  OBVIOUS
<1>6. PICK D : D = [old : SUBSET AnnotationsOf(spans), new : SUBSET AnnotationsOf(spans),
                    hit : BOOLEAN]
  OBVIOUS
<1>7. PICK base \in D : base = [old |-> old, new |-> {}, hit |-> FALSE]
  <2>1. old \in SUBSET AnnotationsOf(spans)  BY <1>4
  <2>2. QED  BY <1>6, <2>1
<1> DEFINE Eq(f) == f = [q \in SUBSET (DOMAIN list) |->
                           IF q = {} THEN base ELSE Confirm(f[q \ {Max(q)}], list[Max(q)], s, iri)]
           f0 == CHOOSE f : Eq(f)
           step == [k \in 1..n |-> [acc \in D |-> Confirm(acc, list[k], s, iri)]]
<1>8. MatchedAt(set, s, given) =
        IF f0[DOMAIN list].hit THEN f0[DOMAIN list].old \cup f0[DOMAIN list].new
        ELSE f0[DOMAIN list].new
  BY <1>1, <1>4, <1>5, <1>7 DEF MatchedAt, FoldLeft, MapThenFoldSet
<1>9. step \in [1..n -> [D -> D]]
  BY <1>3, <1>6, ConfirmTyped
<1>10. \A q \in SUBSET (1..n) : q # {} => Max(q) \in 1..n /\ q \ {Max(q)} \in SUBSET (1..n)
  <2> SUFFICES ASSUME NEW q \in SUBSET (1..n), q # {}  PROVE Max(q) \in q  OBVIOUS
  <2>1. q \in SUBSET (0..n)  OBVIOUS
  <2>2. QED  BY <2>1, MaxIs
<1>11. \E f : Eq(f)
  <2> HIDE DEF step
  <2>1. PICK g : Folds(n, D, base, step, g)  BY <1>9, FoldExists
  <2> USE DEF step
  <2>2. g = [q \in SUBSET (1..n) |-> g[q]]  BY <2>1 DEF Folds
  <2>3. \A q \in SUBSET (1..n) : g[q] = IF q = {} THEN base
                                        ELSE Confirm(g[q \ {Max(q)}], list[Max(q)], s, iri)
    BY <1>10, <2>1 DEF Folds
  <2> HIDE DEF step
  <2>4. g = [q \in SUBSET (1..n) |-> IF q = {} THEN base
                                     ELSE Confirm(g[q \ {Max(q)}], list[Max(q)], s, iri)]
    BY <2>2, <2>3, Zenon
  <2>5. Eq(g)  BY <1>3, <2>4
  <2> HIDE DEF Eq
  <2>6. QED  BY <2>5
<1>12. Eq(f0)  BY <1>11
<1>13. PICK F : Values(n, D, base, step, F, f0[1..n])
  <2>1. f0[{}] = base  BY <1>3, <1>12
  <2>2. ASSUME NEW q \in SUBSET (1..n), q # {}, f0[q \ {Max(q)}] \in D
        PROVE  f0[q] = step[Max(q)][f0[q \ {Max(q)}]]
    <3>1. f0[q] = Confirm(f0[q \ {Max(q)}], list[Max(q)], s, iri)  BY <1>3, <1>12, <2>2
    <3>2. Max(q) \in 1..n  BY <1>10, <2>2
    <3> HIDE DEF f0
    <3>3. QED  BY <2>2, <3>1, <3>2
  <2> HIDE DEF step, f0
  <2>3. QED  BY <1>9, <2>1, <2>2, FoldValues
<1> DEFINE S == {k \in 0..n : ConfirmedUpTo(k, old, s, list, F[k])}
<1>14. 0 \in S
  <2>1. F[0].old = old /\ F[0].new = {} /\ F[0].hit = FALSE  BY <1>7, <1>13 DEF Values
  <2>2. \A a, b \in old : a = b  BY <1>4
  <2>3. ConfirmedUpTo(0, old, s, list, F[0])  BY <2>1, <2>2 DEF ConfirmedUpTo
  <2>4. QED  BY <2>3
<1>15. ASSUME NEW k \in 0..(n - 1), k \in S  PROVE k + 1 \in S
  <2>1. k \in Nat /\ k + 1 \in 1..n /\ (k + 1) - 1 = k /\ F[k] \in D  BY <1>13 DEF Values
  <2>2. F[k + 1] = Confirm(F[k], list[k + 1], s, iri)  BY <1>13, <2>1 DEF Values
  <2>3. ConfirmedUpTo(k + 1, old, s, list, Confirm(F[k], list[k + 1], s, iri))
    BY <1>6, <1>15, <2>1, ConfirmKeeps
  <2>4. QED  BY <2>1, <2>2, <2>3
<1>16. n \in S
  <2> HIDE DEF S
  <2>1. 0..n \subseteq S  BY <1>14, <1>15, UpTo
  <2>2. QED  BY <2>1
<1>17. PICK acc \in D : acc = f0[1..n] /\ ConfirmedUpTo(n, old, s, list, acc)
  BY <1>13, <1>16 DEF Values
<1> HIDE DEF f0
<1>18. /\ acc.hit  => MatchedAt(set, s, given) = acc.old \cup acc.new
       /\ ~acc.hit => MatchedAt(set, s, given) = acc.new
  <2>1. MatchedAt(set, s, given) = IF acc.hit THEN acc.old \cup acc.new ELSE acc.new
    BY <1>3, <1>8, <1>17
  <2>2. QED  BY <2>1, Zenon
<1>19. EndsWith(acc, spans, s, old, list, MatchedAt(set, s, given))
  BY <1>2, <1>6, <1>17, <1>18 DEF EndsWith
<1>20. QED  BY <1>1, <1>4, <1>19

(* Annotations as they are before the string matching: one at a span.         *)
Plain(set, spans) ==
  /\ set \subseteq AnnotationsOf(spans)
  /\ \A a, b \in set : a.span = b.span => a = b
  /\ \A a \in set : a.id[1] \in Makers /\ a.id[2] = a.span

HasConcept(a, list) == /\ a.state = "confirmed" /\ a.iri \in Iris
                       /\ \E j \in DOMAIN list : a.iri = list[j].iri

LEMMA MatchedAtFacts ==
  ASSUME NEW spans, NEW s \in spans, s.text \in Texts, NEW given \in Seq(ConceptsOf(Iris)),
         NEW set, Plain(set, spans)
  PROVE  LET list == ConceptsFor(s.text, given)
             m    == MatchedAt(set, s, given)
         IN /\ \A a \in m : /\ a \in AnnotationsOf(spans) /\ a.span = s /\ a.id[2] = s
                            /\ HasConcept(a, list)
                            /\ a.id \in Ids(set) \/ a.id[1] = "match"
            /\ \A a, b \in m : a.id = b.id => a = b
            /\ list # <<>> => m # {}
<1>1. PICK list \in Seq(ConceptsOf(Iris)) : /\ list = ConceptsFor(s.text, given)
                                            /\ IsOf(s.text, given, list)
  BY ConceptsForIs
<1>2. PICK n \in Nat : n = Len(list)  BY <1>1
<1>3. /\ DOMAIN list = 1..n /\ \A k \in 1..n : list[k] \in ConceptsOf(Iris) /\ list[k].iri \in Iris
      /\ list # <<>> => 1 \in 1..n
  <2>1. DOMAIN list = 1..n /\ \A k \in 1..n : list[k] \in ConceptsOf(Iris)  BY <1>1, <1>2
  <2>2. list # <<>> => n # 0  BY <1>1, <1>2
  <2>3. QED  BY <1>2, <2>1, <2>2 DEF ConceptsOf
<1>4. PICK old : old = {a \in set : a.span = s}  OBVIOUS
<1>5. PICK acc : EndsWith(acc, spans, s, old, list, MatchedAt(set, s, given))
  <2>1. set \in SUBSET AnnotationsOf(spans) /\ \A a, b \in set : a.span = b.span => a = b
    BY DEF Plain
  <2>2. QED  BY <1>1, <1>4, <2>1, MatchedAtIs
<1>6. /\ acc \in [old : SUBSET AnnotationsOf(spans), new : SUBSET AnnotationsOf(spans),
                  hit : BOOLEAN]
      /\ ConfirmedUpTo(n, old, s, list, acc)
      /\ acc.hit  => MatchedAt(set, s, given) = acc.old \cup acc.new
      /\ ~acc.hit => MatchedAt(set, s, given) = acc.new
  BY <1>2, <1>5 DEF EndsWith
<1>7. PICK m : m = MatchedAt(set, s, given)  OBVIOUS
<1>8. ASSUME NEW a \in acc.new
      PROVE  \E j \in 1..n : /\ a.iri = list[j].iri /\ a.id = <<"match", s, list[j].iri>>
                             /\ a = Matches(s, list[j]) /\ a.span = s /\ a.state = "confirmed"
  <2>1. PICK j \in 1..n : a = Matches(s, list[j])  BY <1>6 DEF ConfirmedUpTo
  <2>2. QED  BY <1>3, <2>1, MatchesTyped
<1>9. ASSUME NEW a \in acc.old
      PROVE  /\ a.span = s /\ a.id[1] \in Makers /\ a.id[2] = s /\ a.id \in Ids(set)
             /\ acc.hit => a.state = "confirmed" /\ \E j \in 1..n : a.iri = list[j].iri
  <2>1. PICK b \in old : a.id = b.id /\ a.span = b.span  BY <1>6 DEF ConfirmedUpTo
  <2>2. b.span = s /\ b.id[1] \in Makers /\ b.id[2] = s  BY <1>4 DEF Plain
  <2>3. acc.hit => a.state = "confirmed" /\ \E j \in 1..n : a.iri = list[j].iri
    BY <1>6 DEF ConfirmedUpTo
  <2>4. a.id \in Ids(set)  BY <1>4, <2>1 DEF Ids
  <2>5. QED  BY <2>1, <2>2, <2>3, <2>4
<1>10. \A a \in m : a \in acc.new \/ (acc.hit /\ a \in acc.old)
  <2>1. CASE acc.hit   BY <1>6, <1>7, <2>1
  <2>2. CASE ~acc.hit  BY <1>6, <1>7, <2>2
  <2>3. QED  BY <2>1, <2>2
<1>11. ASSUME NEW a \in m
       PROVE  /\ a \in AnnotationsOf(spans) /\ a.span = s /\ a.id[2] = s /\ HasConcept(a, list)
              /\ a.id \in Ids(set) \/ a.id[1] = "match"
  <2>1. a \in AnnotationsOf(spans)  BY <1>6, <1>10
  <2>2. CASE a \in acc.new
    <3>1. PICK j \in 1..n : /\ a.iri = list[j].iri /\ a.id = <<"match", s, list[j].iri>>
                            /\ a.span = s /\ a.state = "confirmed"
      BY <1>8, <2>2
    <3>2. QED  BY <1>3, <2>1, <3>1 DEF HasConcept
  <2>3. CASE acc.hit /\ a \in acc.old  BY <1>3, <1>9, <2>1, <2>3 DEF HasConcept
  <2>4. QED  BY <1>10, <2>2, <2>3
<1>12. ASSUME NEW a \in m, NEW b \in m, a.id = b.id  PROVE a = b
  <2>1. CASE a \in acc.new /\ b \in acc.new
    <3>1. PICK i \in 1..n : a.id = <<"match", s, list[i].iri>> /\ a = Matches(s, list[i])
      BY <1>8, <2>1
    <3>2. PICK j \in 1..n : b.id = <<"match", s, list[j].iri>> /\ b = Matches(s, list[j])
      BY <1>8, <2>1
    <3>3. <<"match", s, list[i].iri>> = <<"match", s, list[j].iri>>  BY <1>12, <3>1, <3>2
    <3>4. list[i].iri = list[j].iri  BY <3>3
    <3>5. i = j  BY <1>1, <1>3, <3>4 DEF IsOf
    <3>6. QED  BY <3>1, <3>2, <3>5
  <2>2. CASE a \in acc.old /\ b \in acc.old  BY <1>6, <2>2 DEF ConfirmedUpTo
  <2>3. \A x \in acc.old, y \in acc.new : x.id # y.id
    <3> SUFFICES ASSUME NEW x \in acc.old, NEW y \in acc.new  PROVE x.id[1] # y.id[1]
      OBVIOUS
    <3>1. y.id[1] = "match"  BY <1>8
    <3>2. x.id[1] \in Makers  BY <1>9
    <3>3. QED  BY <3>1, <3>2 DEF Makers
  <2>4. QED  BY <1>10, <1>12, <2>1, <2>2, <2>3
<1>13. list # <<>> => m # {}
  <2>1. CASE acc.hit  BY <1>6, <1>7, <2>1 DEF ConfirmedUpTo
  <2>2. CASE ~acc.hit
    <3>1. list # <<>> => Matches(s, list[1]) \in acc.new  BY <1>3, <1>6, <2>2 DEF ConfirmedUpTo
    <3>2. QED  BY <1>6, <1>7, <2>2, <3>1
  <2>3. QED  BY <2>1, <2>2
<1>14. QED  BY <1>1, <1>7, <1>11, <1>12, <1>13

(* Of spans, the longest.                                                     *)
Spans(spans) == /\ IsFiniteSet(spans) /\ Laminar(spans)
                /\ \A s \in spans : /\ s.start \in Nat /\ s.end \in Nat /\ s.start < s.end
                                    /\ s.text \in Texts

LEMMA Longest ==
  ASSUME NEW spans, Spans(spans), NEW set \in SUBSET spans, set # {}
  PROVE  \E x \in set : \A y \in set : Within(x, y) => x = y
<1> DEFINE Length(s) == s.end - s.start
           length == [s \in set |-> Length(s)]
<1>1. \A s \in set : Length(s) \in Nat  BY DEF Spans
<1>2. IsFiniteSet(set)  BY FS_Subset DEF Spans
<1>3. PICK lengths : lengths = {length[s] : s \in set}  OBVIOUS
<1>4. IsFiniteSet(lengths)
  <2>1. DOMAIN length = set /\ length = [s \in set |-> length[s]]  OBVIOUS
  <2> HIDE DEF length
  <2>2. QED  BY <1>2, <1>3, <2>1, ImageFinite
<1>5. lengths \in SUBSET Nat /\ lengths # {}  BY <1>1, <1>3
<1>6. Max(lengths) \in lengths /\ \A l \in lengths : l <= Max(lengths)
  BY <1>4, <1>5, GreatestIs
<1>7. PICK x \in set : \A y \in set : Length(y) <= Length(x)  BY <1>3, <1>6
<1>8. ASSUME NEW y \in set, Within(x, y)  PROVE x = y
  <2>1. /\ x \in spans /\ y \in spans /\ Length(y) <= Length(x)
        /\ y.start <= x.start /\ x.end <= y.end
    BY <1>7, <1>8 DEF Within
  <2>2. x.start = y.start /\ x.end = y.end  BY <2>1 DEF Spans
  <2>3. QED  BY <2>1, <2>2 DEF Spans, Laminar
<1>9. QED  BY <1>8

(* The string matching as a whole.                                            *)
LEMMA StringMatchedFacts ==
  ASSUME NEW spans, Spans(spans), NEW given \in Seq(ConceptsOf(Iris)), NEW set, Plain(set, spans)
  PROVE  LET m == StringMatched(set, spans, given)
         IN /\ \A a \in m : /\ a \in AnnotationsOf(spans)
                            /\ \/ HasConcept(a, ConceptsFor(a.span.text, given))
                               \/ a.state = "rejected" /\ a \in set
                            /\ a.id \in Ids(set) \/ a.id[1] = "match"
            /\ \A a, b \in m : a.id = b.id => a = b
            /\ \A s \in spans : ConceptsFor(s.text, given) # <<>> =>
                 \E a \in m : Within(s, a.span) /\ HasConcept(a, ConceptsFor(s.text, given))
<1> DEFINE hit == {s \in spans : ConceptsFor(s.text, given) # <<>>}
           M(s) == MatchedAt(set, s, given)
           others == {a \in set : a.span \notin hit /\ a.state = "rejected"}
           all == (UNION {M(s) : s \in hit}) \cup others
<1>1. StringMatched(set, spans, given) = DedupSameIri(all)  BY DEF StringMatched
<1>2. ASSUME NEW s \in hit
      PROVE  /\ \A a \in M(s) : /\ a \in AnnotationsOf(spans) /\ a.span = s /\ a.id[2] = s
                                /\ HasConcept(a, ConceptsFor(s.text, given))
                                /\ a.id \in Ids(set) \/ a.id[1] = "match"
             /\ \A a, b \in M(s) : a.id = b.id => a = b
             /\ M(s) # {}
  <2>1. s \in spans /\ s.text \in Texts /\ ConceptsFor(s.text, given) # <<>>  BY DEF Spans
  <2> HIDE DEF hit
  <2>2. QED  BY <2>1, MatchedAtFacts
<1>3. \A a \in all : \/ a.span \in hit /\ a \in M(a.span)
                     \/ a \in set /\ a.span \notin hit /\ a.state = "rejected"
  <2> SUFFICES ASSUME NEW a \in all
               PROVE  \/ a.span \in hit /\ a \in M(a.span)
                      \/ a \in set /\ a.span \notin hit /\ a.state = "rejected"
    OBVIOUS
  <2> HIDE DEF hit, M
  <2>1. CASE a \in UNION {M(s) : s \in hit}
    <3>1. PICK s \in hit : a \in M(s)  BY <2>1
    <3>2. a.span = s  BY <1>2, <3>1
    <3>3. QED  BY <3>1, <3>2
  <2>2. CASE a \in others  BY <2>2
  <2> HIDE DEF others
  <2>3. QED  BY <2>1, <2>2
<1> HIDE DEF M, hit, all
<1>4. ASSUME NEW a \in all
      PROVE  /\ a \in AnnotationsOf(spans) /\ a.id[2] = a.span
             /\ \/ HasConcept(a, ConceptsFor(a.span.text, given))
                \/ a.state = "rejected" /\ a \in set
             /\ a.id \in Ids(set) \/ a.id[1] = "match"
  BY <1>2, <1>3 DEF Plain, Ids
<1>5. ASSUME NEW a \in all, NEW b \in all, a.id = b.id  PROVE a = b
  <2>1. a.span = b.span  BY <1>4, <1>5
  <2>2. CASE a.span \in hit  BY <1>2, <1>3, <1>5, <2>1, <2>2
  <2>3. CASE a.span \notin hit  BY <1>3, <2>1, <2>3 DEF Plain
  <2>4. QED  BY <2>2, <2>3
<1>6. ASSUME NEW s \in spans, ConceptsFor(s.text, given) # <<>>
      PROVE  \E a \in DedupSameIri(all) :
               Within(s, a.span) /\ HasConcept(a, ConceptsFor(s.text, given))
  <2>1. s \in hit  BY <1>6 DEF hit
  <2>2. PICK a \in M(s) : a.span = s /\ HasConcept(a, ConceptsFor(s.text, given))
    BY <1>2, <2>1
  <2>3. a \in all  BY <2>1, <2>2 DEF all
  <2> DEFINE over == {b \in all : b.state # "rejected" /\ b.iri = a.iri /\ Within(s, b.span)}
             theirs == {b.span : b \in over}
  <2>4. a.state = "confirmed" /\ s.start \in Nat /\ s.end \in Nat
    BY <2>2 DEF HasConcept, Spans
  <2>5. a \in over  BY <2>2, <2>3, <2>4 DEF Within
  <2>6. theirs \in SUBSET spans /\ theirs # {}
    <3>1. \A b \in over : b.span \in spans  BY <1>4 DEF AnnotationsOf
    <3> HIDE DEF over
    <3>2. QED  BY <2>5, <3>1
  <2>7. PICK x \in theirs : \A y \in theirs : Within(x, y) => x = y
    <3> HIDE DEF theirs
    <3>1. QED  BY <2>6, Longest
  <2>8. PICK b \in over : b.span = x  BY <2>7
  <2>9. ASSUME NEW c \in all, c.state # "rejected", c.iri = b.iri, Within(b.span, c.span)
        PROVE  b.span = c.span
    <3>1. b.span \in spans /\ c.span \in spans  BY <1>4, <2>8 DEF AnnotationsOf
    <3>2. Within(s, c.span)
      <4>1. Within(s, b.span)  BY <2>8
      <4>2. QED  BY <2>4, <2>9, <3>1, <4>1 DEF Within, Spans
    <3>3. c \in over  BY <2>8, <2>9, <3>2
    <3>4. QED  BY <2>7, <2>8, <2>9, <3>3
  <2>10. b \in DedupSameIri(all)  BY <2>8, <2>9 DEF DedupSameIri
  <2>11. HasConcept(b, ConceptsFor(s.text, given))
    <3>1. b.state = "confirmed"  BY <1>4, <2>8 DEF HasConcept
    <3>2. b.iri = a.iri  BY <2>8
    <3>3. QED  BY <2>2, <3>1, <3>2 DEF HasConcept
  <2>12. QED  BY <2>8, <2>10, <2>11
<1>7. DedupSameIri(all) \subseteq all  BY DEF DedupSameIri
<1>8. QED  BY <1>1, <1>4, <1>5, <1>6, <1>7

LEMMA InTextOrderIn ==
  ASSUME NEW set, IsFiniteSet(set), \A s \in set : s.start \in Nat,
         \A s, w \in set : s.start = w.start => s = w
  PROVE  InTextOrder(set) \in Seq(set)
<1> DEFINE R == {p \in set \X set : p[1].start < p[2].start}
<1>1. \A y, x \in set : <<y, x>> \in R <=> y.start < x.start  OBVIOUS
<1>2. InTextOrder(set) = Ranked(set, R)  BY DEF InTextOrder
<1> HIDE DEF R
<1>3. \A x \in set : <<x, x>> \notin R  BY <1>1
<1>4. \A x, y \in set : x # y => <<x, y>> \in R \/ <<y, x>> \in R
  <2> TAKE x, y \in set
  <2>1. x.start \in Nat /\ y.start \in Nat  OBVIOUS
  <2>2. QED  BY <1>1, <2>1
<1>5. \A x, y, z \in set : <<x, y>> \in R /\ <<y, z>> \in R => <<x, z>> \in R
  <2> TAKE x, y, z \in set
  <2>1. x.start \in Nat /\ y.start \in Nat /\ z.start \in Nat  OBVIOUS
  <2>2. QED  BY <1>1, <2>1
<1>6. Orders(R, set)  BY <1>3, <1>4, <1>5 DEF Orders
<1>7. QED  BY <1>2, <1>6, RankedIs

-----------------------------------------------------------------------------
(* What the lists of concepts hold.                                           *)
LEMMA WinnerIs ==
  ASSUME NEW t \in Texts
  PROVE  /\ Winner[t] \in Iris \cup {NoIri}
         /\ t \in Preferred => Winner[t] # NoIri
         /\ Winner[t] # NoIri => Winner[t] \in Iris
<1>1. Winner[t] \in Iris \cup {NoIri} /\ Meanings[t] \in Seq(Iris) /\ NoIri \notin Iris
  BY StagesAssumption
<1>2. Meanings[t] # <<>> => Winner[t] \in ToSet(Meanings[t])
  BY StagesAssumption
<1>3. ToSet(Meanings[t]) \subseteq Iris  BY <1>1 DEF ToSet
<1>4. t \in Preferred => Meanings[t] # <<>>  BY StagesAssumption
<1>5. QED  BY <1>1, <1>2, <1>3, <1>4

LEMMA ConceptIn ==
  ASSUME NEW t \in Texts
  PROVE  /\ \A iri \in Iris : Concept(t, iri) \in ConceptsOf(Iris)
         /\ Unresolved(t) \in ConceptsOf(Iris \cup {NoIri})
<1>1. \A iri \in Iris : Branch[iri] \in Branches  BY DEF Branches
<1>2. Hint[t] \in Branches  BY DEF Branches
<1>3. QED  BY <1>1, <1>2 DEF Concept, Unresolved, ConceptsOf

LEMMA RulerMatchesIn ==
  ASSUME NEW spans, Spans(spans)
  PROVE  LET m == RulerMatches(spans)
         IN /\ m \subseteq spans /\ IsFiniteSet(m)
            /\ \A s \in m : s.start \in Nat /\ s.text \in Texts /\ Winner[s.text] \in Iris
            /\ \A s, w \in m : s.start = w.start => s = w
<1>1. PICK m : m = RulerMatches(spans)  OBVIOUS
<1>2. m \subseteq spans /\ \A s \in m : Winner[s.text] # NoIri  BY <1>1 DEF RulerMatches
<1>3. IsFiniteSet(m)  BY <1>2, FS_Subset DEF Spans
<1>4. \A s \in m : s.start \in Nat /\ s.text \in Texts /\ Winner[s.text] \in Iris
  BY <1>2, WinnerIs DEF Spans
<1>5. ASSUME NEW s \in m, NEW w \in m, s.start = w.start  PROVE s = w
  <2>1. Meet(s, w)  BY <1>2, <1>5 DEF Meet, Spans
  <2>2. Within(s, w) \/ Within(w, s)  BY <1>2, <2>1 DEF Spans, Laminar
  <2>3. \A x, y \in m : Within(x, y) => x = y  BY <1>1 DEF RulerMatches
  <2>4. QED  BY <2>2, <2>3
<1>6. QED  BY <1>1, <1>2, <1>3, <1>4, <1>5

LEMMA RulerConceptsIn ==
  ASSUME NEW spans, Spans(spans)
  PROVE  RulerConcepts(spans) \in Seq(ConceptsOf(Iris))
<1>1. PICK C : C = ConceptsOf(Iris)  OBVIOUS
<1> DEFINE Meant(s) == [i \in DOMAIN Meanings[s.text] |-> Concept(s.text, Meanings[s.text][i])]
<1>2. PICK list \in Seq(RulerMatches(spans)) : list = InTextOrder(RulerMatches(spans))
  BY RulerMatchesIn, InTextOrderIn
<1>3. PICK n \in Nat : n = Len(list)  BY <1>2
<1>4. DOMAIN list = 1..n  BY <1>2, <1>3
<1>5. ASSUME NEW k \in 1..n  PROVE Meant(list[k]) \in Seq(C)
  <2>1. PICK t \in Texts : t = list[k].text  BY <1>2, <1>3, RulerMatchesIn
  <2>2. Meanings[t] \in Seq(Iris)  BY StagesAssumption
  <2>3. PICK m \in Nat : m = Len(Meanings[t])  BY <2>2
  <2>4. DOMAIN Meanings[t] = 1..m /\ \A i \in 1..m : Meanings[t][i] \in Iris  BY <2>2, <2>3
  <2>5. \A i \in 1..m : Concept(t, Meanings[t][i]) \in C  BY <1>1, <2>1, <2>4, ConceptIn
  <2>6. Meant(list[k]) \in [1..m -> C]  BY <2>1, <2>4, <2>5
  <2> HIDE DEF Meant
  <2>7. QED  BY <2>3, <2>6, SeqDef
<1> DEFINE Eq(f) == f = [s \in SUBSET (DOMAIN list) |->
                           IF s = {} THEN <<>> ELSE f[s \ {Max(s)}] \o Meant(list[Max(s)])]
           f0 == CHOOSE f : Eq(f)
           step == [k \in 1..n |-> [l \in Seq(C) |-> l \o Meant(list[k])]]
<1>6. RulerConcepts(spans) = f0[DOMAIN list]
  BY <1>2 DEF RulerConcepts, FoldLeft, MapThenFoldSet
<1> HIDE DEF Meant
<1>7. step \in [1..n -> [Seq(C) -> Seq(C)]]  BY <1>5
<1>8. <<>> \in Seq(C)  OBVIOUS
<1>9. \A s \in SUBSET (1..n) : s # {} => Max(s) \in 1..n /\ s \ {Max(s)} \in SUBSET (1..n)
  <2> SUFFICES ASSUME NEW s \in SUBSET (1..n), s # {}  PROVE Max(s) \in s  OBVIOUS
  <2>1. s \in SUBSET (0..n)  OBVIOUS
  <2>2. QED  BY <2>1, MaxIs
<1>10. \E f : Eq(f)
  <2> HIDE DEF step
  <2>1. PICK g : Folds(n, Seq(C), <<>>, step, g)  BY <1>7, <1>8, FoldExists
  <2> USE DEF step
  <2>2. g = [s \in SUBSET (1..n) |-> g[s]]  BY <2>1 DEF Folds
  <2>3. \A s \in SUBSET (1..n) : g[s] = IF s = {} THEN <<>>
                                        ELSE g[s \ {Max(s)}] \o Meant(list[Max(s)])
    BY <1>9, <2>1 DEF Folds
  <2>4. QED  BY <1>4, <2>2, <2>3
<1>11. Eq(f0)  BY <1>10
<1>12. PICK F : Values(n, Seq(C), <<>>, step, F, f0[1..n])
  <2>1. f0[{}] = <<>>  BY <1>4, <1>11
  <2>2. ASSUME NEW s \in SUBSET (1..n), s # {}, f0[s \ {Max(s)}] \in Seq(C)
        PROVE  f0[s] = step[Max(s)][f0[s \ {Max(s)}]]
    <3>1. f0[s] = f0[s \ {Max(s)}] \o Meant(list[Max(s)])  BY <1>4, <1>11, <2>2
    <3>2. Max(s) \in 1..n  BY <1>9, <2>2
    <3> HIDE DEF f0
    <3>3. QED  BY <2>2, <3>1, <3>2
  <2> HIDE DEF step, f0
  <2>3. QED  BY <1>7, <1>8, <2>1, <2>2, FoldValues
<1> HIDE DEF step, f0
<1>13. f0[1..n] \in Seq(C)
  <2>1. F \in [0..n -> Seq(C)] /\ F[n] = f0[1..n]  BY <1>12 DEF Values
  <2>2. n \in 0..n  BY <1>3
  <2>3. QED  BY <2>1, <2>2
<1>14. QED  BY <1>1, <1>4, <1>6, <1>13

LEMMA SemanticConceptsIn ==
  ASSUME NEW spans, Spans(spans), NEW near, DOMAIN near \subseteq spans,
         \A s \in DOMAIN near : near[s] \in Iris, NEW list \in Seq(ConceptsOf(Iris))
  PROVE  SemanticConcepts(list, near) \in Seq(ConceptsOf(Iris))
<1>1. PICK S : S = DOMAIN near  OBVIOUS
<1>2. IsFiniteSet(S)  BY <1>1, FS_Subset DEF Spans
<1>3. PICK f : f = [s \in S |-> Concept(s.text, near[s])]  OBVIOUS
<1>4. IsFiniteSet({f[s] : s \in S})  BY <1>2, <1>3, ImageFinite
<1>5. PICK set : set = {Concept(s.text, near[s]) : s \in S}  OBVIOUS
<1>6. IsFiniteSet(set)
  <2>1. set = {f[s] : s \in S}  BY <1>3, <1>5
  <2>2. QED  BY <1>4, <2>1
<1>7. set \subseteq ConceptsOf(Iris)
  <2>1. \A s \in S : s.text \in Texts /\ near[s] \in Iris  BY <1>1 DEF Spans
  <2>2. QED  BY <1>5, <2>1, ConceptIn
<1>8. SetToSeq(set) \in Seq(ConceptsOf(Iris))
  <2>1. SetToSeq(set) \in Seq(set)  BY <1>6, SetToSeqIn
  <2>2. QED  BY <1>7, <2>1
<1>9. QED  BY <1>1, <1>5, <1>8 DEF SemanticConcepts

LEMMA ReconciledIn ==
  ASSUME NEW list \in Seq(ConceptsOf(Iris)), NEW texts \in SUBSET Texts, IsFiniteSet(texts),
         NEW category, NEW strong
  PROVE  Reconciled(list, category, texts, strong) \in Seq(ConceptsOf(Iris \cup {NoIri}))
<1>1. PICK C : C = ConceptsOf(Iris \cup {NoIri})  OBVIOUS
<1>2. PICK n \in Nat : n = Len(list)  OBVIOUS
<1>3. DOMAIN list = 1..n /\ \A k \in 1..n : list[k] \in C
  <2>1. ConceptsOf(Iris) \subseteq C  BY <1>1 DEF ConceptsOf
  <2>2. list \in Seq(C)  BY <2>1, SeqWider
  <2>3. QED  BY <1>2, <2>2
<1> DEFINE Keep(l, c) == IF category[c] = "dropped" THEN l ELSE Append(l, c)
           Eq(f) == f = [s \in SUBSET (DOMAIN list) |->
                           IF s = {} THEN <<>> ELSE Keep(f[s \ {Max(s)}], list[Max(s)])]
           f0 == CHOOSE f : Eq(f)
           step == [k \in 1..n |-> [l \in Seq(C) |-> Keep(l, list[k])]]
<1>4. PICK kept : kept = f0[DOMAIN list]  OBVIOUS
<1>5. PICK others : others = SetToSeq({Unresolved(t) : t \in LlmOnly(category, texts)})  OBVIOUS
<1>6. Reconciled(list, category, texts, strong) =
        [i \in DOMAIN (kept \o others) |->
           [(kept \o others)[i] EXCEPT !.strong = @ \/ (kept \o others)[i].text \in strong]]
  BY <1>4, <1>5 DEF Reconciled, FoldLeft, MapThenFoldSet
<1>7. \A k \in 1..n : \A l \in Seq(C) : Keep(l, list[k]) \in Seq(C)
  <2> TAKE k \in 1..n
  <2> TAKE l \in Seq(C)
  <2>1. Append(l, list[k]) \in Seq(C)  BY <1>3
  <2>2. QED  BY <2>1
<1> HIDE DEF Keep
<1>8. step \in [1..n -> [Seq(C) -> Seq(C)]]  BY <1>7
<1>9. <<>> \in Seq(C)  OBVIOUS
<1>10. \A s \in SUBSET (1..n) : s # {} => Max(s) \in 1..n /\ s \ {Max(s)} \in SUBSET (1..n)
  <2> SUFFICES ASSUME NEW s \in SUBSET (1..n), s # {}  PROVE Max(s) \in s  OBVIOUS
  <2>1. s \in SUBSET (0..n)  OBVIOUS
  <2>2. QED  BY <2>1, MaxIs
<1>11. \E f : Eq(f)
  <2> HIDE DEF step
  <2>1. PICK g : Folds(n, Seq(C), <<>>, step, g)  BY <1>8, <1>9, FoldExists
  <2> USE DEF step
  <2>2. g = [s \in SUBSET (1..n) |-> g[s]]  BY <2>1 DEF Folds
  <2>3. \A s \in SUBSET (1..n) : g[s] = IF s = {} THEN <<>>
                                        ELSE Keep(g[s \ {Max(s)}], list[Max(s)])
    BY <1>10, <2>1 DEF Folds
  <2>4. QED  BY <1>3, <2>2, <2>3
<1>12. Eq(f0)  BY <1>11
<1>13. PICK F : Values(n, Seq(C), <<>>, step, F, f0[1..n])
  <2>1. f0[{}] = <<>>  BY <1>3, <1>12
  <2>2. ASSUME NEW s \in SUBSET (1..n), s # {}, f0[s \ {Max(s)}] \in Seq(C)
        PROVE  f0[s] = step[Max(s)][f0[s \ {Max(s)}]]
    <3>1. f0[s] = Keep(f0[s \ {Max(s)}], list[Max(s)])  BY <1>3, <1>12, <2>2
    <3>2. Max(s) \in 1..n  BY <1>10, <2>2
    <3> HIDE DEF f0
    <3>3. QED  BY <2>2, <3>1, <3>2
  <2> HIDE DEF step, f0
  <2>3. QED  BY <1>8, <1>9, <2>1, <2>2, FoldValues
<1>14. kept \in Seq(C)  BY <1>2, <1>3, <1>4, <1>13 DEF Values
<1>15. others \in Seq(C)
  <2>1. PICK S : S = LlmOnly(category, texts)  OBVIOUS
  <2>2. S \in SUBSET texts /\ S \subseteq Texts  BY <2>1 DEF LlmOnly
  <2>3. IsFiniteSet(S)  BY <2>2, FS_Subset
  <2>4. PICK f : f = [t \in S |-> Unresolved(t)]  OBVIOUS
  <2>5. PICK set : set = {Unresolved(t) : t \in S}  OBVIOUS
  <2>6. IsFiniteSet(set)
    <3>1. IsFiniteSet({f[t] : t \in S})  BY <2>3, <2>4, ImageFinite
    <3>2. set = {f[t] : t \in S}  BY <2>4, <2>5
    <3>3. QED  BY <3>1, <3>2
  <2>7. set \subseteq C  BY <1>1, <2>2, <2>5, ConceptIn
  <2>8. SetToSeq(set) \in Seq(set)  BY <2>6, SetToSeqIn
  <2>9. SetToSeq(set) \in Seq(C)  BY <2>7, <2>8, SeqWider
  <2>10. QED  BY <1>5, <2>1, <2>5, <2>9
<1> HIDE DEF f0
<1>16. PICK all \in Seq(C) : all = kept \o others
  <2> HIDE DEF step
  <2>1. kept \o others \in Seq(C)  BY <1>14, <1>15, ConcatProperties
  <2>2. QED  BY <2>1
<1>17. PICK m \in Nat : m = Len(all)  BY <1>16
<1>18. DOMAIN all = 1..m /\ \A i \in 1..m : all[i] \in C  BY <1>16, <1>17
<1>19. \A i \in 1..m : [all[i] EXCEPT !.strong = @ \/ all[i].text \in strong] \in C
  <2> TAKE i \in 1..m
  <2>1. (all[i].strong \/ all[i].text \in strong) \in BOOLEAN  OBVIOUS
  <2>2. all[i] \in C  BY <1>18
  <2>3. QED  BY <1>1, <2>1, <2>2 DEF ConceptsOf
<1>20. Reconciled(list, category, texts, strong) =
         [i \in 1..m |-> [all[i] EXCEPT !.strong = @ \/ all[i].text \in strong]]
  BY <1>6, <1>16, <1>18
<1>21. Reconciled(list, category, texts, strong) \in [1..m -> C]  BY <1>19, <1>20
<1>22. QED  BY <1>1, <1>17, <1>21, SeqDef

(* What resolving goes through: a cache that answers with concepts, and the   *)
(* resolved ones.                                                             *)
Resolutions == [cache : SUBSET [key : Texts \X Branches, iri : Iris \cup {NoIri}],
                list  : Seq(ConceptsOf(Iris))]

LEMMA ResolveNextIn ==
  ASSUME NEW acc \in Resolutions, NEW c \in ConceptsOf(Iris \cup {NoIri}),
         NEW search \in [Texts -> Iris \cup {NoIri}]
  PROVE  ResolveNext(acc, c, search) \in Resolutions
<1>1. /\ acc.cache \in SUBSET [key : Texts \X Branches, iri : Iris \cup {NoIri}]
      /\ acc.list \in Seq(ConceptsOf(Iris))
  BY DEF Resolutions
<1>2. c.text \in Texts /\ c.branch \in Branches /\ c.strong \in BOOLEAN
      /\ c.iri \in Iris \cup {NoIri}
  BY DEF ConceptsOf
<1> DEFINE key   == CacheKey(c)
           known == {e \in acc.cache : e.key = key}
           iri   == IF known # {} THEN (CHOOSE e \in known : TRUE).iri ELSE LookedUp(c, search)
<1>3. key \in Texts \X Branches  BY <1>2 DEF CacheKey
<1>4. iri \in Iris \cup {NoIri}
  <2>1. CASE known # {}
    <3>1. (CHOOSE e \in known : TRUE) \in known  BY <2>1
    <3>2. (CHOOSE e \in known : TRUE) \in acc.cache  BY <3>1
    <3>3. QED  BY <1>1, <2>1, <3>2
  <2>2. CASE known = {}
    <3>1. LookedUp(c, search) \in Iris \cup {NoIri}
      <4>1. search[c.text] \in Iris \cup {NoIri}  BY <1>2
      <4>2. QED  BY <1>2, <4>1 DEF LookedUp
    <3>2. QED  BY <2>2, <3>1
  <2>3. QED  BY <2>1, <2>2
<1>5. PICK i : i = iri  OBVIOUS
<1> DEFINE entry == [text |-> c.text, iri |-> i, strong |-> c.strong,
                     branch |-> IF i = NoIri THEN NoBranch
                                ELSE IF Branch[i] # NoBranch THEN Branch[i] ELSE c.branch]
<1>6. ResolveNext(acc, c, search) =
        [cache |-> acc.cache \cup {[key |-> key, iri |-> i]},
         list  |-> IF i = NoIri THEN acc.list ELSE Append(acc.list, entry)]
  BY <1>5 DEF ResolveNext
<1>7. i # NoIri => entry \in ConceptsOf(Iris)
  <2> SUFFICES ASSUME i # NoIri  PROVE entry \in ConceptsOf(Iris)  OBVIOUS
  <2>1. i \in Iris  BY <1>4, <1>5
  <2>2. Branch[i] \in Branches  BY <2>1 DEF Branches
  <2>3. QED  BY <1>2, <2>1, <2>2 DEF ConceptsOf
<1> HIDE DEF entry
<1>8. i # NoIri => Append(acc.list, entry) \in Seq(ConceptsOf(Iris))  BY <1>1, <1>7
<1>9. PICK e : e = [key |-> key, iri |-> i]  OBVIOUS
<1>10. e \in [key : Texts \X Branches, iri : Iris \cup {NoIri}]  BY <1>3, <1>4, <1>5, <1>9
<1> HIDE DEF key, known
<1>11. acc.cache \cup {e} \in SUBSET [key : Texts \X Branches, iri : Iris \cup {NoIri}]
  BY <1>1, <1>10
<1>12. QED  BY <1>1, <1>6, <1>8, <1>9, <1>11 DEF Resolutions

LEMMA ResolveIn ==
  ASSUME NEW base \in Resolutions, NEW list \in Seq(ConceptsOf(Iris \cup {NoIri})),
         NEW search \in [Texts -> Iris \cup {NoIri}]
  PROVE  Resolve(base, list, search) \in Resolutions
<1>1. PICK D : D = Resolutions  OBVIOUS
<1>2. PICK n \in Nat : n = Len(list)  OBVIOUS
<1>3. DOMAIN list = 1..n /\ \A k \in 1..n : list[k] \in ConceptsOf(Iris \cup {NoIri})  BY <1>2
<1> DEFINE Eq(f) == f = [s \in SUBSET (DOMAIN list) |->
                           IF s = {} THEN base
                           ELSE ResolveNext(f[s \ {Max(s)}], list[Max(s)], search)]
           f0 == CHOOSE f : Eq(f)
           step == [k \in 1..n |-> [r \in D |-> ResolveNext(r, list[k], search)]]
<1>4. Resolve(base, list, search) = f0[DOMAIN list]  BY DEF Resolve, FoldLeft, MapThenFoldSet
<1>5. step \in [1..n -> [D -> D]]  BY <1>1, <1>3, ResolveNextIn
<1>6. base \in D  BY <1>1
<1>7. \A s \in SUBSET (1..n) : s # {} => Max(s) \in 1..n /\ s \ {Max(s)} \in SUBSET (1..n)
  <2> SUFFICES ASSUME NEW s \in SUBSET (1..n), s # {}  PROVE Max(s) \in s  OBVIOUS
  <2>1. s \in SUBSET (0..n)  OBVIOUS
  <2>2. QED  BY <2>1, MaxIs
<1>8. \E f : Eq(f)
  <2> HIDE DEF step
  <2>1. PICK g : Folds(n, D, base, step, g)  BY <1>5, <1>6, FoldExists
  <2> USE DEF step
  <2>2. g = [s \in SUBSET (1..n) |-> g[s]]  BY <2>1 DEF Folds
  <2>3. \A s \in SUBSET (1..n) : g[s] = IF s = {} THEN base
                                        ELSE ResolveNext(g[s \ {Max(s)}], list[Max(s)], search)
    BY <1>7, <2>1 DEF Folds
  <2>4. QED  BY <1>3, <2>2, <2>3
<1>9. Eq(f0)  BY <1>8
<1>10. PICK F : Values(n, D, base, step, F, f0[1..n])
  <2>1. f0[{}] = base  BY <1>3, <1>9
  <2>2. ASSUME NEW s \in SUBSET (1..n), s # {}, f0[s \ {Max(s)}] \in D
        PROVE  f0[s] = step[Max(s)][f0[s \ {Max(s)}]]
    <3>1. f0[s] = ResolveNext(f0[s \ {Max(s)}], list[Max(s)], search)  BY <1>3, <1>9, <2>2
    <3>2. Max(s) \in 1..n  BY <1>7, <2>2
    <3> HIDE DEF f0
    <3>3. QED  BY <2>2, <3>1, <3>2
  <2> HIDE DEF step, f0
  <2>3. QED  BY <1>5, <1>6, <2>1, <2>2, FoldValues
<1>11. QED  BY <1>1, <1>2, <1>3, <1>4, <1>10 DEF Values

LEMMA ResolvedConceptsIn ==
  ASSUME NEW given \in Seq(ConceptsOf(Iris \cup {NoIri})), NEW list \in Seq(ConceptsOf(Iris)),
         NEW texts \in SUBSET Texts, IsFiniteSet(texts), NEW search \in [Texts -> Iris \cup {NoIri}]
  PROVE  ResolvedConcepts(given, list, texts, search) \in Seq(ConceptsOf(Iris))
<1>1. NothingResolved \in Resolutions  BY DEF NothingResolved, Resolutions
<1>2. \A r \in Resolutions : r.list \in Seq(ConceptsOf(Iris))  BY DEF Resolutions
<1>3. CASE given # <<>>
  <2>1. Resolve(NothingResolved, given, search) \in Resolutions  BY <1>1, ResolveIn
  <2>2. QED  BY <1>2, <1>3, <2>1 DEF ResolvedConcepts
<1>4. CASE given = <<>>
  <2>1. ConceptsOf(Iris) \subseteq ConceptsOf(Iris \cup {NoIri})  BY DEF ConceptsOf
  <2>2. list \in Seq(ConceptsOf(Iris \cup {NoIri}))  BY <2>1, SeqWider
  <2>3. PICK first \in Resolutions : first = Resolve(NothingResolved, list, search)
    BY <1>1, <2>2, ResolveIn
  <2>4. PICK S : S = texts \ {first.list[i].text : i \in DOMAIN first.list}  OBVIOUS
  <2>5. S \in SUBSET texts /\ S \subseteq Texts  BY <2>4
  <2>6. IsFiniteSet(S)  BY <2>5, FS_Subset
  <2>7. PICK f : f = [t \in S |-> Unresolved(t)]  OBVIOUS
  <2>8. PICK set : set = {Unresolved(t) : t \in S}  OBVIOUS
  <2>9. IsFiniteSet(set)
    <3>1. IsFiniteSet({f[t] : t \in S})  BY <2>6, <2>7, ImageFinite
    <3>2. set = {f[t] : t \in S}  BY <2>7, <2>8
    <3>3. QED  BY <3>1, <3>2
  <2>10. set \subseteq ConceptsOf(Iris \cup {NoIri})  BY <2>5, <2>8, ConceptIn
  <2>11. SetToSeq(set) \in Seq(set)  BY <2>9, SetToSeqIn
  <2>12. SetToSeq(set) \in Seq(ConceptsOf(Iris \cup {NoIri}))  BY <2>10, <2>11, SeqWider
  <2>13. Resolve(first, SetToSeq(set), search) \in Resolutions  BY <2>12, ResolveIn
  <2>14. ResolvedConcepts(given, list, texts, search) = Resolve(first, SetToSeq(set), search).list
    BY <1>4, <2>3, <2>4, <2>8 DEF ResolvedConcepts
  <2>15. QED  BY <1>2, <2>13, <2>14
<1>5. QED  BY <1>3, <1>4

LEMMA JudgedIn ==
  ASSUME NEW list \in Seq(ConceptsOf(Iris)), NEW branch \in Branches
  PROVE  Judged(list, [i \in DOMAIN list |-> branch]) \in Seq(ConceptsOf(Iris))
<1>1. PICK n \in Nat : n = Len(list)  OBVIOUS
<1>2. DOMAIN list = 1..n /\ \A i \in 1..n : list[i] \in ConceptsOf(Iris)  BY <1>1
<1>3. \A i \in 1..n : [list[i] EXCEPT !.branch = branch] \in ConceptsOf(Iris)
  BY <1>2 DEF ConceptsOf
<1>4. Judged(list, [i \in DOMAIN list |-> branch]) \in [1..n -> ConceptsOf(Iris)]
  BY <1>2, <1>3 DEF Judged
<1>5. QED  BY <1>1, <1>4, SeqDef

-----------------------------------------------------------------------------
(* Individuals: who is merged keeps an id of its own.                         *)
Entities(ids, links) == [id : ids, source : Sources \cup {"hybrid"}, start : Nat, end : Nat,
                         name : STRING, links : SUBSET links]

DistinctIds(set) == \A x, y \in set : x.id = y.id => x = y

LEMMA ByPriorityOrders ==
  ASSUME NEW ids \in SUBSET Nat, NEW links, NEW set \in SUBSET Entities(ids, links),
         DistinctIds(set)
  PROVE  /\ \A x \in set : ~ByPriority(x, x)
         /\ \A x, y \in set : x # y => ByPriority(x, y) \/ ByPriority(y, x)
         /\ \A x, y, z \in set : ByPriority(x, y) /\ ByPriority(y, z) => ByPriority(x, z)
<1>1. \A s : Priority(s) \in Int
  <2> TAKE s
  <2>1. CASE s \in {"eyecite", "citeurl", "regex", "spacy_ner", "llm"}  BY <2>1 DEF Priority
  <2>2. CASE s \notin {"eyecite", "citeurl", "regex", "spacy_ner", "llm"}  BY <2>2 DEF Priority
  <2>3. QED  BY <2>1, <2>2
<1>2. \A x \in set : x.id \in Nat /\ x.start \in Nat  BY DEF Entities
<1>3. \A x \in set : ~ByPriority(x, x)
  <2> TAKE x \in set
  <2>1. Priority(x.source) \in Int /\ x.id \in Nat /\ x.start \in Nat  BY <1>1, <1>2
  <2>2. QED  BY <2>1 DEF ByPriority
<1>4. ASSUME NEW x \in set, NEW y \in set, x # y  PROVE ByPriority(x, y) \/ ByPriority(y, x)
  <2>1. /\ Priority(x.source) \in Int /\ x.id \in Nat /\ x.start \in Nat
        /\ Priority(y.source) \in Int /\ y.id \in Nat /\ y.start \in Nat
    BY <1>1, <1>2
  <2>2. x.id # y.id  BY <1>4 DEF DistinctIds
  <2>3. QED  BY <2>1, <2>2 DEF ByPriority
<1>5. ASSUME NEW x \in set, NEW y \in set, NEW z \in set, ByPriority(x, y), ByPriority(y, z)
      PROVE  ByPriority(x, z)
  <2>1. /\ Priority(x.source) \in Int /\ x.id \in Nat /\ x.start \in Nat
        /\ Priority(y.source) \in Int /\ y.id \in Nat /\ y.start \in Nat
        /\ Priority(z.source) \in Int /\ z.id \in Nat /\ z.start \in Nat
    BY <1>1, <1>2
  <2>2. QED  BY <1>5, <2>1 DEF ByPriority
<1>6. QED  BY <1>3, <1>4, <1>5

Priorities(set) == {p \in set \X set : ByPriority(p[1], p[2])}

LEMMA SortedIn ==
  ASSUME NEW ids \in SUBSET Nat, NEW links, NEW set \in SUBSET Entities(ids, links),
         DistinctIds(set), IsFiniteSet(set)
  PROVE  LET list == Ranked(set, Priorities(set))
         IN list \in Seq(set) /\ \A i, j \in DOMAIN list : list[i] = list[j] => i = j
<1> DEFINE R == Priorities(set)
<1>1. \A y, x \in set : <<y, x>> \in R <=> ByPriority(y, x)  BY DEF Priorities
<1> HIDE DEF R
<1>2. Orders(R, set)  BY <1>1, ByPriorityOrders DEF Orders
<1>3. Ranked(set, R) \in Seq(set) /\ \A i, j \in DOMAIN Ranked(set, R) :
        Ranked(set, R)[i] = Ranked(set, R)[j] => i = j
  BY <1>2, RankedIs
<1>4. QED  BY <1>3 DEF R

(* After the individuals up to k: those kept have ids of theirs, each one id. *)
KeptUpTo(k, list, kept) ==
  /\ \A i \in DOMAIN kept : \E j \in 1..k : kept[i].id = list[j].id
  /\ \A i, j \in DOMAIN kept : kept[i].id = kept[j].id => i = j

LEMMA AbsorbIn ==
  ASSUME NEW ids, NEW links, NEW i \in Entities(ids, links), NEW j \in Entities(ids, links)
  PROVE  Absorb(i, j) \in Entities(ids, links) /\ Absorb(i, j).id = i.id
<1>1. MergeSource(i, j) \in Sources \cup {"hybrid"}  BY DEF MergeSource, Entities
<1>2. (i.links \cup j.links) \in SUBSET links  BY DEF Entities
<1>3. QED  BY <1>1, <1>2 DEF Absorb, Entities

LEMMA KeepOrMergeIs ==
  ASSUME NEW ids, NEW links, NEW kept \in Seq(Entities(ids, links)), NEW i \in Entities(ids, links)
  PROVE  \/ KeepOrMerge(kept, i) = Append(kept, i)
         \/ \E k \in DOMAIN kept : KeepOrMerge(kept, i) = [kept EXCEPT ![k] = Absorb(@, i)]
<1> DEFINE same == {k \in DOMAIN kept : SameEntity(i, kept[k])}
<1>1. CASE same = {}  BY <1>1 DEF KeepOrMerge
<1>2. CASE same # {}
  <2>1. PICK k : k = CHOOSE h \in same : \A l \in same : h <= l  OBVIOUS
  <2>2. k \in same
    <3> DEFINE n == Len(kept)
               down == {n - l : l \in same}
    <3>1. n \in Nat /\ same \subseteq 1..n  OBVIOUS
    <3>2. down \in SUBSET (0..n) /\ down # {}  BY <1>2, <3>1
    <3>3. Max(down) \in down /\ \A y \in down : y <= Max(down)
      <4> HIDE DEF down
      <4>1. QED  BY <3>1, <3>2, MaxIs
    <3>4. PICK m \in same : n - m = Max(down)  BY <3>3
    <3>5. \A l \in same : n - l <= n - m  BY <3>3, <3>4
    <3>6. \A l \in same : m <= l
      <4> TAKE l \in same
      <4>1. n - l <= n - m /\ l \in Int /\ m \in Int /\ n \in Int  BY <3>1, <3>5
      <4> HIDE DEF n, same
      <4>2. QED  BY <4>1
    <3> HIDE DEF same
    <3>7. QED  BY <2>1, <3>6
  <2>3. KeepOrMerge(kept, i) = [kept EXCEPT ![k] = Absorb(@, i)]  BY <1>2, <2>1 DEF KeepOrMerge
  <2>4. QED  BY <2>2, <2>3
<1>3. QED  BY <1>1, <1>2

LEMMA KeepOrMergeIn ==
  ASSUME NEW ids, NEW links, NEW kept \in Seq(Entities(ids, links)), NEW i \in Entities(ids, links)
  PROVE  KeepOrMerge(kept, i) \in Seq(Entities(ids, links))
<1>1. Append(kept, i) \in Seq(Entities(ids, links))  OBVIOUS
<1>2. ASSUME NEW k \in DOMAIN kept
      PROVE  [kept EXCEPT ![k] = Absorb(@, i)] \in Seq(Entities(ids, links))
  <2>1. kept[k] \in Entities(ids, links)  OBVIOUS
  <2>2. Absorb(kept[k], i) \in Entities(ids, links)  BY <2>1, AbsorbIn
  <2>3. [kept EXCEPT ![k] = Absorb(@, i)] \in [1..Len(kept) -> Entities(ids, links)]  BY <2>2
  <2>4. Len(kept) \in Nat  OBVIOUS
  <2>5. QED  BY <2>3, <2>4, SeqDef
<1>3. QED  BY <1>1, <1>2, KeepOrMergeIs

LEMMA KeepOrMergeKeeps ==
  ASSUME NEW ids, NEW links, NEW kept \in Seq(Entities(ids, links)),
         NEW list \in Seq(Entities(ids, links)), NEW k \in Nat, k + 1 \in DOMAIN list,
         \A i, j \in DOMAIN list : list[i].id = list[j].id => i = j,
         KeptUpTo(k, list, kept)
  PROVE  KeptUpTo(k + 1, list, KeepOrMerge(kept, list[k + 1]))
<1>1. PICK e \in Entities(ids, links) : e = list[k + 1]  OBVIOUS
<1>2. 1..k \subseteq 1..(k + 1) /\ k + 1 \in 1..(k + 1) /\ 1..(k + 1) \subseteq DOMAIN list
      /\ k + 1 \notin 1..k
  OBVIOUS
<1>3. CASE KeepOrMerge(kept, e) = Append(kept, e)
  <2>1. PICK n \in Nat : n = Len(kept)  OBVIOUS
  <2>2. PICK m : m = Append(kept, e)  OBVIOUS
  <2>3. /\ DOMAIN kept = 1..n /\ DOMAIN m = 1..(n + 1) /\ m[n + 1] = e
        /\ \A i \in 1..n : m[i] = kept[i]
    BY <2>1, <2>2
  <2>4. \A i \in DOMAIN m : i \in 1..n \/ i = n + 1  BY <2>3
  <2>5. \A i \in 1..n : m[i].id # e.id
    <3> TAKE i \in 1..n
    <3>1. PICK j \in 1..k : kept[i].id = list[j].id  BY <2>3 DEF KeptUpTo
    <3>2. j # k + 1  BY <1>2
    <3>3. QED  BY <1>1, <1>2, <2>3, <3>1, <3>2
  <2>6. \A i \in DOMAIN m : \E j \in 1..(k + 1) : m[i].id = list[j].id
    BY <1>1, <1>2, <2>3, <2>4 DEF KeptUpTo
  <2>7. ASSUME NEW i \in DOMAIN m, NEW j \in DOMAIN m, m[i].id = m[j].id  PROVE i = j
    <3>1. CASE i \in 1..n /\ j \in 1..n  BY <2>3, <2>7, <3>1 DEF KeptUpTo
    <3>2. CASE i = n + 1 /\ j \in 1..n   BY <2>3, <2>5, <2>7, <3>2
    <3>3. CASE j = n + 1 /\ i \in 1..n   BY <2>3, <2>5, <2>7, <3>3
    <3>4. QED  BY <2>4, <3>1, <3>2, <3>3
  <2>8. KeptUpTo(k + 1, list, m)  BY <2>6, <2>7 DEF KeptUpTo
  <2>9. QED  BY <1>1, <1>3, <2>2, <2>8
<1>4. ASSUME NEW x \in DOMAIN kept, KeepOrMerge(kept, e) = [kept EXCEPT ![x] = Absorb(@, e)]
      PROVE  KeptUpTo(k + 1, list, KeepOrMerge(kept, e))
  <2>1. PICK m : m = [kept EXCEPT ![x] = Absorb(@, e)]  OBVIOUS
  <2>2. kept[x] \in Entities(ids, links)  OBVIOUS
  <2>3. Absorb(kept[x], e).id = kept[x].id  BY <2>2, AbsorbIn
  <2>4. DOMAIN m = DOMAIN kept /\ \A i \in DOMAIN kept : m[i].id = kept[i].id  BY <2>1, <2>3
  <2>5. KeptUpTo(k + 1, list, m)  BY <1>2, <2>4 DEF KeptUpTo
  <2>6. QED  BY <1>4, <2>1, <2>5
<1>5. QED  BY <1>1, <1>3, <1>4, KeepOrMergeIs

LEMMA DeduplicateIs ==
  ASSUME NEW ids \in SUBSET Nat, NEW links, NEW set \in SUBSET Entities(ids, links),
         DistinctIds(set), IsFiniteSet(set)
  PROVE  LET d == Deduplicate(set)
         IN d \in SUBSET Entities(ids, links) /\ DistinctIds(d) /\ IsFiniteSet(d)
<1>1. PICK D : D = Seq(Entities(ids, links))  OBVIOUS
<1>2. PICK list : /\ list \in Seq(set) /\ list = Ranked(set, Priorities(set))
                  /\ \A i, j \in DOMAIN list : list[i] = list[j] => i = j
  BY SortedIn
<1>3. PICK n \in Nat : n = Len(list)  BY <1>2
<1>4. DOMAIN list = 1..n /\ \A k \in 1..n : list[k] \in set  BY <1>2, <1>3
<1>5. list \in Seq(Entities(ids, links))  BY <1>2, SeqWider
<1>6. \A i, j \in DOMAIN list : list[i].id = list[j].id => i = j
  BY <1>2, <1>4 DEF DistinctIds
<1> DEFINE Eq(f) == f = [s \in SUBSET (DOMAIN list) |->
                           IF s = {} THEN <<>> ELSE KeepOrMerge(f[s \ {Max(s)}], list[Max(s)])]
           f0 == CHOOSE f : Eq(f)
           step == [k \in 1..n |-> [r \in D |-> KeepOrMerge(r, list[k])]]
<1>7. Deduplicate(set) = ToSet(f0[DOMAIN list])
  BY <1>2 DEF Deduplicate, Priorities, FoldLeft, MapThenFoldSet
<1>8. step \in [1..n -> [D -> D]]  BY <1>1, <1>4, KeepOrMergeIn
<1>9. <<>> \in D  BY <1>1
<1>10. \A s \in SUBSET (1..n) : s # {} => Max(s) \in 1..n /\ s \ {Max(s)} \in SUBSET (1..n)
  <2> SUFFICES ASSUME NEW s \in SUBSET (1..n), s # {}  PROVE Max(s) \in s  OBVIOUS
  <2>1. s \in SUBSET (0..n)  OBVIOUS
  <2>2. QED  BY <2>1, MaxIs
<1>11. \E f : Eq(f)
  <2> HIDE DEF step
  <2>1. PICK g : Folds(n, D, <<>>, step, g)  BY <1>8, <1>9, FoldExists
  <2> USE DEF step
  <2>2. g = [s \in SUBSET (1..n) |-> g[s]]  BY <2>1 DEF Folds
  <2>3. \A s \in SUBSET (1..n) : g[s] = IF s = {} THEN <<>>
                                        ELSE KeepOrMerge(g[s \ {Max(s)}], list[Max(s)])
    BY <1>10, <2>1 DEF Folds
  <2>4. QED  BY <1>4, <2>2, <2>3
<1>12. Eq(f0)  BY <1>11
<1>13. PICK F : Values(n, D, <<>>, step, F, f0[1..n])
  <2>1. f0[{}] = <<>>  BY <1>4, <1>12
  <2>2. ASSUME NEW s \in SUBSET (1..n), s # {}, f0[s \ {Max(s)}] \in D
        PROVE  f0[s] = step[Max(s)][f0[s \ {Max(s)}]]
    <3>1. f0[s] = KeepOrMerge(f0[s \ {Max(s)}], list[Max(s)])  BY <1>4, <1>12, <2>2
    <3>2. Max(s) \in 1..n  BY <1>10, <2>2
    <3> HIDE DEF f0
    <3>3. QED  BY <2>2, <3>1, <3>2
  <2> HIDE DEF step, f0
  <2>3. QED  BY <1>8, <1>9, <2>1, <2>2, FoldValues
<1> DEFINE S == {k \in 0..n : KeptUpTo(k, list, F[k])}
<1>14. 0 \in S
  <2>1. F[0] = <<>>  BY <1>13 DEF Values
  <2>2. KeptUpTo(0, list, F[0])  BY <2>1 DEF KeptUpTo
  <2>3. QED  BY <2>2
<1>15. ASSUME NEW k \in 0..(n - 1), k \in S  PROVE k + 1 \in S
  <2>1. k \in Nat /\ k + 1 \in 1..n /\ (k + 1) - 1 = k /\ F[k] \in D  BY <1>13 DEF Values
  <2>2. F[k + 1] = KeepOrMerge(F[k], list[k + 1])  BY <1>13, <2>1 DEF Values
  <2>3. KeptUpTo(k + 1, list, KeepOrMerge(F[k], list[k + 1]))
    BY <1>1, <1>4, <1>5, <1>6, <1>15, <2>1, KeepOrMergeKeeps
  <2>4. QED  BY <2>1, <2>2, <2>3
<1>16. n \in S
  <2> HIDE DEF S
  <2>1. 0..n \subseteq S  BY <1>14, <1>15, UpTo
  <2>2. QED  BY <2>1
<1>17. PICK kept \in Seq(Entities(ids, links)) :
         Deduplicate(set) = ToSet(kept) /\ KeptUpTo(n, list, kept)
  BY <1>1, <1>4, <1>7, <1>13, <1>16 DEF Values
<1>18. PICK m \in Nat : m = Len(kept)  BY <1>17
<1>19. kept = [i \in 1..m |-> kept[i]] /\ DOMAIN kept = 1..m  BY <1>17, <1>18
<1>20. ToSet(kept) = {kept[i] : i \in 1..m}  BY <1>19 DEF ToSet
<1>21. IsFiniteSet({kept[i] : i \in 1..m})
  <2>1. IsFiniteSet(1..m)  BY <1>18, FS_Interval
  <2>2. QED  BY <1>19, <2>1, ImageFinite
<1>22. DistinctIds(ToSet(kept))  BY <1>17, <1>19, <1>20 DEF DistinctIds, KeptUpTo
<1>23. ToSet(kept) \in SUBSET Entities(ids, links)  BY <1>17, <1>19, <1>20
<1>24. QED  BY <1>17, <1>20, <1>21, <1>22, <1>23

-----------------------------------------------------------------------------
(* Annotations before the string matching say their own text, and none gives  *)
(* a text to another concept than the one it is the primary label of.         *)
Fresh(set, spans) ==
  /\ Plain(set, spans)
  /\ \A a \in set : /\ a.text = a.span.text
                    /\ a.iri # NoIri => ~OwnedByOther(a.span.text, a.iri)

LEMMA DocIs ==
  ASSUME NEW d \in Docs
  PROVE  /\ Spans(d.text) /\ {d.near, d.search} \subseteq [Texts -> Iris \cup {NoIri}]
         /\ IsFiniteSet({s.text : s \in d.text}) /\ {s.text : s \in d.text} \subseteq Texts
         /\ d.parts \subseteq Part
<1>1. Spans(d.text)
  <2>1. IsFiniteSet(d.text) /\ Laminar(d.text)  BY DocsAssumption
  <2>2. \A s \in d.text : s \in [start : Nat, end : Nat, text : Texts] /\ s.start < s.end
    BY DocsAssumption
  <2>3. QED  BY <2>1, <2>2 DEF Spans
<1>2. IsFiniteSet({s.text : s \in d.text})
  <2>1. PICK S : S = d.text  OBVIOUS
  <2>2. PICK f : f = [s \in S |-> s.text]  OBVIOUS
  <2>3. IsFiniteSet({f[s] : s \in S})  BY <1>1, <2>1, <2>2, ImageFinite DEF Spans
  <2>4. {f[s] : s \in S} = {s.text : s \in d.text}  BY <2>1, <2>2
  <2>5. QED  BY <2>3, <2>4
<1>3. {s.text : s \in d.text} \subseteq Texts  BY <1>1 DEF Spans
<1>4. {d.near, d.search} \subseteq [Texts -> Iris \cup {NoIri}] /\ d.parts \subseteq Part
  BY DocsAssumption
<1>5. QED  BY <1>1, <1>2, <1>3, <1>4

LEMMA TaggedIs ==
  ASSUME NEW spans, Spans(spans), NEW s \in spans, NEW maker \in Makers,
         NEW iri \in Iris \cup {NoIri},
         NEW state \in {"preliminary", "confirmed", "rejected"}
  PROVE  LET a == Tagged(maker, s, iri, state)
         IN /\ a \in AnnotationsOf(spans) /\ a.id[1] \in Makers /\ a.id[2] = a.span
            /\ a.span = s /\ a.text = s.text /\ a.iri = iri
<1>1. s.text \in Texts  BY DEF Spans
<1>2. maker \in {"ruler", "semantic", "llm", "match"}  BY DEF Makers
<1>3. <<maker, s, iri>> \in {"ruler", "semantic", "llm", "match"} \X spans \X (Iris \cup {NoIri})
  BY <1>2
<1>4. PICK a : a = Tagged(maker, s, iri, state)  OBVIOUS
<1>5. a = [id |-> <<maker, s, iri>>, span |-> s, text |-> s.text, iri |-> iri, state |-> state]
  BY <1>4 DEF Tagged
<1>6. a \in AnnotationsOf(spans)  BY <1>1, <1>3, <1>5 DEF AnnotationsOf
<1>7. QED  BY <1>4, <1>5, <1>6

LEMMA RulerFresh ==
  ASSUME NEW spans, Spans(spans)
  PROVE  Fresh(RulerAnnotations(spans), spans)
<1>1. ASSUME NEW a \in RulerAnnotations(spans)
      PROVE  \E s \in spans : a = Tagged("ruler", s, Winner[s.text], "preliminary")
                              /\ Winner[s.text] \in Iris
  <2>1. PICK s \in RulerMatches(spans) : a = Tagged("ruler", s, Winner[s.text], "preliminary")
    BY DEF RulerAnnotations
  <2>2. s \in spans /\ Winner[s.text] \in Iris  BY RulerMatchesIn
  <2>3. QED  BY <2>1, <2>2
<1>2. ASSUME NEW a \in RulerAnnotations(spans)
      PROVE  /\ a \in AnnotationsOf(spans) /\ a.id[1] \in Makers /\ a.id[2] = a.span
             /\ a.text = a.span.text /\ ~OwnedByOther(a.span.text, a.iri)
             /\ a = Tagged("ruler", a.span, Winner[a.span.text], "preliminary")
  <2>1. PICK s \in spans : a = Tagged("ruler", s, Winner[s.text], "preliminary")
                           /\ Winner[s.text] \in Iris
    BY <1>1
  <2>2. "ruler" \in Makers /\ "preliminary" \in {"preliminary", "confirmed", "rejected"}
    BY DEF Makers
  <2>3. /\ a \in AnnotationsOf(spans) /\ a.id[1] \in Makers /\ a.id[2] = a.span
        /\ a.span = s /\ a.text = s.text /\ a.iri = Winner[s.text]
    BY <2>1, <2>2, TaggedIs
  <2>4. QED  BY <2>1, <2>3 DEF OwnedByOther
<1>3. \A a, b \in RulerAnnotations(spans) : a.span = b.span => a = b
  <2> TAKE a, b \in RulerAnnotations(spans)
  <2>1. /\ a = Tagged("ruler", a.span, Winner[a.span.text], "preliminary")
        /\ b = Tagged("ruler", b.span, Winner[b.span.text], "preliminary")
    BY <1>2
  <2> HAVE a.span = b.span
  <2>2. QED  BY <2>1
<1>4. QED  BY <1>2, <1>3 DEF Fresh, Plain

LEMMA SemanticFresh ==
  ASSUME NEW spans, Spans(spans), NEW near, DOMAIN near \subseteq SemanticSpans(spans),
         \A s \in DOMAIN near : near[s] \in Iris
  PROVE  Fresh(SemanticAnnotations(RulerAnnotations(spans), near), spans)
<1>1. PICK old : old = RulerAnnotations(spans) /\ Fresh(old, spans)  BY RulerFresh
<1>2. PICK new : new = {Tagged("semantic", s, near[s], "preliminary") : s \in DOMAIN near}
  OBVIOUS
<1>3. SemanticAnnotations(RulerAnnotations(spans), near) = old \cup new
  BY <1>1, <1>2 DEF SemanticAnnotations
<1>4. ASSUME NEW a \in new
      PROVE  /\ a \in AnnotationsOf(spans) /\ a.id[1] \in Makers /\ a.id[2] = a.span
             /\ a.text = a.span.text /\ ~OwnedByOther(a.span.text, a.iri)
             /\ Winner[a.span.text] = NoIri
             /\ a = Tagged("semantic", a.span, near[a.span], "preliminary")
  <2>1. PICK s \in DOMAIN near : a = Tagged("semantic", s, near[s], "preliminary")  BY <1>2
  <2>2. s \in spans /\ s.text \in Texts /\ Winner[s.text] = NoIri /\ near[s] \in Iris
    BY DEF SemanticSpans, Spans
  <2>3. "semantic" \in Makers /\ "preliminary" \in {"preliminary", "confirmed", "rejected"}
    BY DEF Makers
  <2>4. /\ a \in AnnotationsOf(spans) /\ a.id[1] \in Makers /\ a.id[2] = a.span
        /\ a.span = s /\ a.text = s.text /\ a.iri = near[s]
    BY <2>1, <2>2, <2>3, TaggedIs
  <2>5. s.text \notin Preferred  BY <2>2, WinnerIs
  <2>6. QED  BY <2>1, <2>2, <2>4, <2>5 DEF OwnedByOther
<1>5. ASSUME NEW a \in old  PROVE Winner[a.span.text] # NoIri
  <2>1. PICK s \in RulerMatches(spans) : a = Tagged("ruler", s, Winner[s.text], "preliminary")
    BY <1>1 DEF RulerAnnotations
  <2>2. QED  BY <2>1 DEF RulerMatches, Tagged
<1>6. \A a, b \in new : a.span = b.span => a = b
  <2> TAKE a, b \in new
  <2>1. /\ a = Tagged("semantic", a.span, near[a.span], "preliminary")
        /\ b = Tagged("semantic", b.span, near[b.span], "preliminary")
    BY <1>4
  <2> HAVE a.span = b.span
  <2>2. QED  BY <2>1
<1>7. ASSUME NEW a \in old \cup new, NEW b \in old \cup new, a.span = b.span  PROVE a = b
  <2>1. CASE a \in old /\ b \in old  BY <1>1, <1>7, <2>1 DEF Fresh, Plain
  <2>2. CASE a \in new /\ b \in new  BY <1>6, <1>7, <2>2
  <2>3. \A x \in old, y \in new : x.span # y.span  BY <1>4, <1>5
  <2>4. QED  BY <1>7, <2>1, <2>2, <2>3
<1>8. QED  BY <1>1, <1>3, <1>4, <1>7 DEF Fresh, Plain

LEMMA LlmFresh ==
  ASSUME NEW spans, Spans(spans), NEW texts
  PROVE  Fresh(LlmAnnotations(spans, texts), spans)
<1>1. PICK new : new = LlmAnnotations(spans, texts)  OBVIOUS
<1>2. ASSUME NEW a \in new
      PROVE  /\ a \in AnnotationsOf(spans) /\ a.id[1] \in Makers /\ a.id[2] = a.span
             /\ a.text = a.span.text /\ a.iri = NoIri
             /\ a = Tagged("llm", a.span, NoIri, "preliminary")
  <2>1. PICK s \in spans : a = Tagged("llm", s, NoIri, "preliminary")
    BY <1>1 DEF LlmAnnotations
  <2>2. "llm" \in Makers /\ "preliminary" \in {"preliminary", "confirmed", "rejected"}
        /\ NoIri \in Iris \cup {NoIri}
    BY DEF Makers
  <2>3. QED  BY <2>1, <2>2, TaggedIs
<1>3. \A a, b \in new : a.span = b.span => a = b
  <2> TAKE a, b \in new
  <2>1. /\ a = Tagged("llm", a.span, NoIri, "preliminary")
        /\ b = Tagged("llm", b.span, NoIri, "preliminary")
    BY <1>2
  <2> HAVE a.span = b.span
  <2>2. QED  BY <2>1
<1>4. QED  BY <1>1, <1>2, <1>3 DEF Fresh, Plain

LEMMA MergeFresh ==
  ASSUME NEW spans, NEW set, NEW more, Fresh(set, spans), Fresh(more, spans)
  PROVE  Fresh(MergePreliminary(set, more), spans) /\ set \subseteq MergePreliminary(set, more)
<1>1. PICK m : m = MergePreliminary(set, more)  OBVIOUS
<1>2. /\ set \subseteq m
      /\ \A x \in m : \/ x \in set
                      \/ x \in more /\ \A a \in set : ~(a.span = x.span /\ a.text = x.text)
  BY <1>1 DEF MergePreliminary
<1>3. \A x \in m : x \in set \/ (x \in more /\ \A a \in set : a.span # x.span)
  BY <1>2 DEF Fresh
<1>4. \A a, b \in m : a.span = b.span => a = b  BY <1>3 DEF Fresh, Plain
<1>5. \A x \in m : x \in set \/ x \in more  BY <1>2
<1>6. QED  BY <1>1, <1>2, <1>4, <1>5 DEF Fresh, Plain

(* A change of states only.                                                   *)
Bare(set) == {[id |-> a.id, span |-> a.span, text |-> a.text, iri |-> a.iri] : a \in set}

Restated(set, st) == {[a EXCEPT !.state = st[a]] : a \in set}

LEMMA RestatedFresh ==
  ASSUME NEW spans, NEW set, Fresh(set, spans),
         NEW st \in [set -> {"preliminary", "confirmed", "rejected"}],
         NEW new, new = Restated(set, st)
  PROVE  Fresh(new, spans) /\ Ids(new) = Ids(set) /\ Bare(new) = Bare(set)
<1> DEFINE With(a) == [a EXCEPT !.state = st[a]]
<1>1. ASSUME NEW a \in set
      PROVE  /\ With(a) \in AnnotationsOf(spans) /\ With(a).id = a.id /\ With(a).span = a.span
             /\ With(a).text = a.text /\ With(a).iri = a.iri
  <2>1. a \in AnnotationsOf(spans)  BY DEF Fresh, Plain
  <2>2. st[a] \in {"preliminary", "confirmed", "rejected"}  OBVIOUS
  <2>3. QED  BY <2>1, <2>2 DEF AnnotationsOf
<1> HIDE DEF With
<1>2. new = {With(a) : a \in set}  BY DEF With, Restated
<1>3. \A a, b \in new : a.span = b.span => a = b
  <2> TAKE a, b \in new
  <2>1. PICK x \in set : a = With(x)  BY <1>2
  <2>2. PICK y \in set : b = With(y)  BY <1>2
  <2>3. a.span = x.span /\ b.span = y.span  BY <1>1, <2>1, <2>2
  <2>4. x.span = y.span => x = y  BY DEF Fresh, Plain
  <2>5. QED  BY <2>1, <2>2, <2>3, <2>4
<1>4. ASSUME NEW a \in new
      PROVE  /\ a \in AnnotationsOf(spans) /\ a.id[1] \in Makers /\ a.id[2] = a.span
             /\ a.text = a.span.text /\ (a.iri # NoIri => ~OwnedByOther(a.span.text, a.iri))
  <2>1. PICK x \in set : a = With(x)  BY <1>2
  <2>2. /\ x.id[1] \in Makers /\ x.id[2] = x.span /\ x.text = x.span.text
        /\ x.iri # NoIri => ~OwnedByOther(x.span.text, x.iri)
    BY DEF Fresh, Plain
  <2>3. QED  BY <1>1, <2>1, <2>2
<1>5. Ids(new) = Ids(set)  BY <1>1, <1>2 DEF Ids
<1>6. Bare(new) = Bare(set)  BY <1>1, <1>2 DEF Bare
<1>7. QED  BY <1>3, <1>4, <1>5, <1>6 DEF Fresh, Plain

LEMMA TriagedFresh ==
  ASSUME NEW spans, NEW set, Fresh(set, spans), NEW category, NEW texts, NEW verbs
  PROVE  LET new == Mistagged(Triaged(set, category, texts), verbs)
         IN Fresh(new, spans) /\ Ids(new) = Ids(set) /\ Bare(new) = Bare(set)
<1> DEFINE states == {"preliminary", "confirmed", "rejected"}
<1>1. \A v : StateAfter(v) \in states  BY DEF StateAfter
<1>2. PICK new : /\ new = Triaged(set, category, texts) /\ Fresh(new, spans)
                 /\ Ids(new) = Ids(set) /\ Bare(new) = Bare(set)
  <2> DEFINE State(a) == IF a.state # "preliminary" THEN a.state
                         ELSE StateAfter(Verdicts(category, texts, a))
             st == [a \in set |-> State(a)]
             With(a) == [a EXCEPT !.state = st[a]]
             One(a) == IF a.state # "preliminary" THEN a
                       ELSE [a EXCEPT !.state = StateAfter(Verdicts(category, texts, a))]
  <2>1. \A a \in set : a.state \in states /\ [a EXCEPT !.state = a.state] = a
    BY DEF Fresh, Plain, AnnotationsOf
  <2>2. \A a \in set : State(a) \in states  BY <1>1, <2>1
  <2>3. \A a \in set : With(a) = One(a)  BY <2>1
  <2>4. Restated(set, st) = {With(a) : a \in set}  BY DEF Restated
  <2>5. Triaged(set, category, texts) = {One(a) : a \in set}  BY DEF Triaged
  <2> HIDE DEF With, One, State
  <2>6. Triaged(set, category, texts) = Restated(set, st)  BY <2>3, <2>4, <2>5
  <2>7. st \in [set -> states]  BY <2>2
  <2> HIDE DEF st
  <2>8. QED  BY <2>6, <2>7, RestatedFresh
<1>3. PICK last : /\ last = Mistagged(new, verbs) /\ Fresh(last, spans)
                  /\ Ids(last) = Ids(new) /\ Bare(last) = Bare(new)
  <2> DEFINE st == [a \in new |-> IF a.span \in verbs THEN "rejected" ELSE a.state]
             With(a) == [a EXCEPT !.state = st[a]]
             One(a) == IF a.span \in verbs THEN [a EXCEPT !.state = "rejected"] ELSE a
  <2>1. \A a \in new : a.state \in states /\ [a EXCEPT !.state = a.state] = a
    BY <1>2 DEF Fresh, Plain, AnnotationsOf
  <2>2. st \in [new -> states]  BY <2>1
  <2>3. \A a \in new : With(a) = One(a)  BY <2>1
  <2>4. Restated(new, st) = {With(a) : a \in new}  BY DEF Restated
  <2>5. Mistagged(new, verbs) = {One(a) : a \in new}  BY DEF Mistagged
  <2> HIDE DEF With, One
  <2>6. Mistagged(new, verbs) = Restated(new, st)  BY <2>3, <2>4, <2>5
  <2> HIDE DEF st
  <2>7. QED  BY <1>2, <2>2, <2>6, RestatedFresh
<1>4. QED  BY <1>2, <1>3

-----------------------------------------------------------------------------
(* The inductive invariant.  A branch runs once, and the near matches after   *)
(* the exact ones, whose annotations they add to.                             *)
BranchesInOrder ==
  /\ doc \in Docs /\ pc \in {"extract", "complete"} \cup Stages /\ skipped \subseteq Stages
  /\ todo # {} => pc = "extract"
  /\ "ruler" \in todo => anns = {} /\ ruler = <<>> /\ "semantic" \notin todo
  /\ "semantic" \in todo => anns = RulerAnnotations(doc.text)

ListsTyped ==
  /\ ruler \in Seq(ConceptsOf(Iris))
  /\ reconciled \in Seq(ConceptsOf(Iris \cup {NoIri}))
  /\ resolved \in Seq(ConceptsOf(Iris))
  /\ said \in SUBSET {s.text : s \in doc.text}

AnnotationsFresh ==
  /\ Fresh(found, doc.text)
  /\ IF Unmatched THEN Fresh(anns, doc.text)
     ELSE anns \subseteq AnnotationsOf(doc.text) /\ DistinctIds(anns)

Linked == pc \in {"relate", "connect", "complete"}

(* Before the LLM links them, the individuals are those of the document.      *)
IndividualsOwn ==
  /\ IsFiniteSet(individuals) /\ DistinctIds(individuals)
  /\ IF Linked THEN individuals \in SUBSET Entities(Nat, Ids(anns))
     ELSE individuals \in SUBSET Entities(Ids(doc.mentions), {})
  /\ cited \subseteq Ids(doc.mentions)

PartsOf(as, is) == [start : Nat, end : Nat, name : STRING, concepts : SUBSET as,
                    individuals : SUBSET is]

PartsLinked == IF pc = "complete" THEN triples \subseteq PartsOf(Ids(anns), Ids(individuals))
               ELSE triples \subseteq PartsOf({}, {})

EnrichInv ==
  /\ BranchesInOrder /\ ListsTyped /\ AnnotationsFresh /\ ExactMatchesKept
  /\ OwnersKept /\ NothingResolvedVanishes /\ IndividualsOwn /\ PartsLinked

(* What is extracted, and by which branch, decides what a step may change.    *)
LEMMA InitInv == Init => EnrichInv
<1> SUFFICES ASSUME Init  PROVE EnrichInv  OBVIOUS
<1>1. BranchesInOrder  BY DEF Init, BranchesInOrder
<1>2. ListsTyped  BY DEF Init, ListsTyped
<1>3. AnnotationsFresh /\ Unmatched
  BY DEF Init, AnnotationsFresh, Unmatched, Fresh, Plain
<1>4. ExactMatchesKept /\ OwnersKept  BY DEF Init, ExactMatchesKept, OwnersKept
<1>5. NothingResolvedVanishes  BY <1>3 DEF NothingResolvedVanishes, Matched
<1>6. IndividualsOwn
  BY FS_EmptySet DEF Init, IndividualsOwn, Linked, DistinctIds, Ids
<1>7. PartsLinked  BY DEF Init, PartsLinked
<1>8. QED  BY <1>1, <1>2, <1>3, <1>4, <1>5, <1>6, <1>7 DEF EnrichInv

LEMMA OrderKept ==
  ASSUME BranchesInOrder, [Next]_vars
  PROVE  BranchesInOrder'
<1>1. CASE Ruler  BY <1>1 DEF Ruler, Ends, BranchesInOrder
<1>2. CASE Semantic  BY <1>2 DEF Semantic, Ends, BranchesInOrder
<1>3. CASE Llm  BY <1>3 DEF Llm, Ends, BranchesInOrder
<1>4. CASE Individuals  BY <1>4 DEF Individuals, Ends, BranchesInOrder, concepts
<1>5. CASE Propositions  BY <1>5 DEF Propositions, Ends, BranchesInOrder, concepts
<1>6. CASE Properties  BY <1>6 DEF Properties, Ends, BranchesInOrder, concepts
<1>7. CASE Triples  BY <1>7 DEF Triples, Ends, BranchesInOrder, concepts
<1>8. CASE BranchFails
  <2>1. PICK b \in todo : /\ Ends(b, IF b = "individuals" THEN {"propositions"} ELSE {})
                          /\ UNCHANGED concepts
    BY <1>8 DEF BranchFails
  <2>2. "propositions" \notin {"ruler", "semantic"}  OBVIOUS
  <2>3. todo' \subseteq todo \cup {"propositions"}  BY <2>1 DEF Ends
  <2>4. UNCHANGED <<doc, pc, skipped, anns, ruler>> /\ todo # {}  BY <2>1 DEF Ends, concepts
  <2>5. QED  BY <2>2, <2>3, <2>4 DEF BranchesInOrder
<1>9. CASE Merge
  BY <1>9 DEF Merge, BranchesInOrder, Stages, After
<1>10. CASE \/ Reconcile \/ ResolveConcepts \/ Judge \/ MatchStrings \/ LinkIndividuals
            \/ LinkProperties \/ EnrichTriples \/ StageFails
  <2>1. pc \in Stages /\ pc' = After[pc] /\ UNCHANGED <<doc, todo>>
        /\ (UNCHANGED skipped \/ skipped' = skipped \cup {pc})
    BY <1>10 DEF Reconcile, ResolveConcepts, Judge, MatchStrings, LinkIndividuals,
                 LinkProperties, EnrichTriples, StageFails, Stage, Stages, After
  <2>2. pc # "extract" /\ pc' \in {"extract", "complete"} \cup Stages  BY <2>1 DEF Stages, After
  <2>3. todo = {}  BY <2>2 DEF BranchesInOrder
  <2>4. QED  BY <2>1, <2>2, <2>3 DEF BranchesInOrder
<1>11. CASE UNCHANGED vars  BY <1>11 DEF vars, concepts, BranchesInOrder
<1>12. QED
  BY <1>1, <1>2, <1>3, <1>4, <1>5, <1>6, <1>7, <1>8, <1>9, <1>10, <1>11 DEF Next, Extract

(* A branch runs before the merge.                                            *)
LEMMA ExtractIs ==
  ASSUME BranchesInOrder, todo # {} \/ pc = "extract"
  PROVE  pc = "extract" /\ Unmatched /\ ~Linked
BY DEF BranchesInOrder, Unmatched, Linked

LEMMA ListsKept ==
  ASSUME BranchesInOrder, ListsTyped, [Next]_vars
  PROVE  ListsTyped'
<1>1. /\ Spans(doc.text) /\ doc.near \in [Texts -> Iris \cup {NoIri}]
      /\ doc.search \in [Texts -> Iris \cup {NoIri}]
      /\ IsFiniteSet({s.text : s \in doc.text}) /\ {s.text : s \in doc.text} \subseteq Texts
  BY DocIs DEF BranchesInOrder
<1>2. CASE Ruler
  <2>1. RulerConcepts(doc.text) \in Seq(ConceptsOf(Iris))  BY <1>1, RulerConceptsIn
  <2>2. QED  BY <1>2, <2>1 DEF Ruler, Ends, ListsTyped
<1>3. CASE Semantic
  <2>1. /\ DOMAIN Near \subseteq doc.text
        /\ \A s \in DOMAIN Near : Near[s] \in Iris
    BY <1>1 DEF Near, SemanticSpans, Spans
  <2>2. SemanticConcepts(ruler, Near) \in Seq(ConceptsOf(Iris))
    BY <1>1, <2>1, SemanticConceptsIn DEF ListsTyped
  <2>3. QED  BY <1>3, <2>2 DEF Semantic, Ends, ListsTyped
<1>4. CASE Llm  BY <1>4 DEF Llm, Ends, ListsTyped
<1>5. CASE Reconcile
  <2>1. PICK strong, category : reconciled' = Reconciled(ruler, category, said, strong)
    BY <1>5 DEF Reconcile
  <2>2. said \in SUBSET Texts /\ IsFiniteSet(said)  BY <1>1, FS_Subset DEF ListsTyped
  <2>3. Reconciled(ruler, category, said, strong) \in Seq(ConceptsOf(Iris \cup {NoIri}))
    BY <2>2, ReconciledIn DEF ListsTyped
  <2>4. UNCHANGED <<doc, ruler, said, resolved>>  BY <1>5 DEF Reconcile, Stage
  <2>5. QED  BY <2>1, <2>3, <2>4 DEF ListsTyped
<1>6. CASE ResolveConcepts
  <2>1. said \in SUBSET Texts /\ IsFiniteSet(said)  BY <1>1, FS_Subset DEF ListsTyped
  <2>2. ResolvedConcepts(reconciled, ruler, said, doc.search) \in Seq(ConceptsOf(Iris))
    BY <1>1, <2>1, ResolvedConceptsIn DEF ListsTyped
  <2>3. QED  BY <1>6, <2>2 DEF ResolveConcepts, Stage, ListsTyped
<1>7. CASE Judge
  <2>1. PICK branch \in Branches : resolved' = Judged(resolved, [i \in DOMAIN resolved |-> branch])
    BY <1>7 DEF Judge, Branches
  <2>2. resolved' \in Seq(ConceptsOf(Iris))  BY <2>1, JudgedIn DEF ListsTyped
  <2>3. QED  BY <1>7, <2>2 DEF Judge, Stage, ListsTyped
<1>8. CASE \/ Individuals \/ Propositions \/ Properties \/ Triples \/ BranchFails \/ Merge
           \/ MatchStrings \/ LinkIndividuals \/ LinkProperties \/ EnrichTriples \/ StageFails
           \/ UNCHANGED vars
  <2>1. UNCHANGED <<doc, ruler, said, reconciled, resolved>>
    BY <1>8 DEF Individuals, Propositions, Properties, Triples, BranchFails, Merge, MatchStrings,
                LinkIndividuals, LinkProperties, EnrichTriples, StageFails, Ends, Stage, vars,
                concepts
  <2>2. QED  BY <2>1 DEF ListsTyped
<1>9. QED  BY <1>2, <1>3, <1>4, <1>5, <1>6, <1>7, <1>8 DEF Next, Extract

(* What a step does to the annotations.                                       *)
LEMMA AnnotationsStep ==
  ASSUME BranchesInOrder, [Next]_vars
  PROVE  \/ /\ Ruler \/ Semantic \/ Llm \/ Merge \/ Reconcile \/ MatchStrings
         \/ UNCHANGED <<doc, anns, found>>
<1>1. CASE \/ Individuals \/ Propositions \/ Properties \/ Triples \/ BranchFails
           \/ ResolveConcepts \/ Judge \/ LinkIndividuals \/ LinkProperties \/ EnrichTriples
           \/ StageFails \/ UNCHANGED vars
  BY <1>1 DEF Individuals, Propositions, Properties, Triples, BranchFails, ResolveConcepts, Judge,
              LinkIndividuals, LinkProperties, EnrichTriples, StageFails, Ends, Stage, vars,
              concepts
<1>2. QED  BY <1>1 DEF Next, Extract

LEMMA NearIs ==
  ASSUME doc \in Docs
  PROVE  DOMAIN Near \subseteq SemanticSpans(doc.text) /\ \A s \in DOMAIN Near : Near[s] \in Iris
<1>1. Spans(doc.text) /\ doc.near \in [Texts -> Iris \cup {NoIri}]  BY DocIs
<1>2. QED  BY <1>1 DEF Near, SemanticSpans, Spans

LEMMA MatchedFacts ==
  ASSUME EnrichInv, MatchStrings
  PROVE  /\ ~Unmatched' /\ Unmatched /\ UNCHANGED <<doc, found, resolved, ruler, skipped>>
         /\ Fresh(anns, doc.text) /\ Spans(doc.text) /\ resolved \in Seq(ConceptsOf(Iris))
         /\ resolved = <<>>  => anns' = anns
         /\ resolved # <<>> =>
              /\ \A a \in anns' : /\ a \in AnnotationsOf(doc.text)
                                  /\ \/ HasConcept(a, ConceptsFor(a.span.text, resolved))
                                     \/ a.state = "rejected" /\ a \in anns
                                  /\ a.id \in Ids(anns) \/ a.id[1] = "match"
              /\ \A a, b \in anns' : a.id = b.id => a = b
              /\ \A s \in doc.text : ConceptsFor(s.text, resolved) # <<>> =>
                   \E a \in anns' : Within(s, a.span)
                                    /\ HasConcept(a, ConceptsFor(s.text, resolved))
<1>1. pc = "match" /\ pc' = "link" /\ UNCHANGED <<doc, found, resolved, ruler, skipped>>
  BY DEF MatchStrings, Stage, After
<1>2. ~Unmatched' /\ Unmatched  BY <1>1 DEF Unmatched
<1>3. Fresh(anns, doc.text) /\ Plain(anns, doc.text) /\ Spans(doc.text)
      /\ resolved \in Seq(ConceptsOf(Iris))
  BY <1>2, DocIs DEF EnrichInv, BranchesInOrder, ListsTyped, AnnotationsFresh, Fresh
<1>4. /\ resolved = <<>> => anns' = anns
      /\ resolved # <<>> => anns' = StringMatched(anns, doc.text, resolved)
  BY DEF MatchStrings
<1>5. QED  BY <1>1, <1>2, <1>3, <1>4, StringMatchedFacts

(* The stages go on, never back.                                              *)
LEMMA MatchesOnce ==
  ASSUME BranchesInOrder, [Next]_vars
  PROVE  /\ ~Unmatched => ~Unmatched' /\ UNCHANGED <<doc, anns, found, ruler, resolved>>
         /\ Unmatched /\ ~Unmatched' =>
              pc = "match" /\ (MatchStrings \/ (StageFails /\ skipped' = skipped \cup {"match"}))
<1>1. CASE Extract
  <2>1. pc = "extract"
    BY <1>1, ExtractIs DEF Extract, Ruler, Semantic, Llm, Individuals, Propositions, Properties,
                           Triples, BranchFails, Merge, Ends
  <2>2. pc' \in {"extract", "reconcile"}
    BY <1>1, <2>1 DEF Extract, Ruler, Semantic, Llm, Individuals, Propositions, Properties,
                      Triples, BranchFails, Merge, Ends
  <2>3. QED  BY <2>1, <2>2 DEF Unmatched
<1>2. CASE Reconcile \/ ResolveConcepts \/ Judge
  <2>1. pc \in {"reconcile", "resolve", "judge"} /\ pc' \in {"resolve", "judge", "match"}
    BY <1>2 DEF Reconcile, ResolveConcepts, Judge, Stage, After
  <2>2. QED  BY <2>1 DEF Unmatched
<1>3. CASE MatchStrings
  BY <1>3 DEF MatchStrings, Stage, Unmatched
<1>4. CASE LinkIndividuals \/ LinkProperties \/ EnrichTriples
  <2>1. /\ pc \in {"link", "relate", "connect"} /\ pc' \in {"relate", "connect", "complete"}
        /\ UNCHANGED <<doc, anns, found, ruler, resolved>>
    BY <1>4 DEF LinkIndividuals, LinkProperties, EnrichTriples, Stage, After, concepts
  <2>2. QED  BY <2>1 DEF Unmatched
<1>5. CASE StageFails
  <2>1. /\ pc \in Stages /\ pc' = After[pc] /\ skipped' = skipped \cup {pc}
        /\ UNCHANGED <<doc, anns, found, ruler, resolved>>
    BY <1>5 DEF StageFails, concepts
  <2>2. QED  BY <1>5, <2>1 DEF Unmatched, Stages, After
<1>6. CASE UNCHANGED vars  BY <1>6 DEF vars, concepts, Unmatched
<1>7. QED  BY <1>1, <1>2, <1>3, <1>4, <1>5, <1>6 DEF Next

LEMMA FreshKept ==
  ASSUME EnrichInv, [Next]_vars
  PROVE  AnnotationsFresh'
<1>1. BranchesInOrder /\ AnnotationsFresh /\ Spans(doc.text) /\ doc \in Docs
  BY DocIs DEF EnrichInv, BranchesInOrder
<1>2. CASE Ruler
  <2>1. /\ pc = "extract" /\ anns' = RulerAnnotations(doc.text)
        /\ UNCHANGED <<doc, pc, found>>
    BY <1>1, <1>2 DEF Ruler, Ends, BranchesInOrder
  <2>2. Fresh(anns', doc.text)  BY <1>1, <2>1, RulerFresh
  <2>3. QED  BY <1>1, <2>1, <2>2 DEF AnnotationsFresh, Unmatched
<1>3. CASE Semantic
  <2>1. /\ pc = "extract" /\ anns' = SemanticAnnotations(RulerAnnotations(doc.text), Near)
        /\ UNCHANGED <<doc, pc, found>>
    BY <1>1, <1>3 DEF Semantic, Ends, BranchesInOrder
  <2>2. Fresh(anns', doc.text)  BY <1>1, <2>1, NearIs, SemanticFresh
  <2>3. QED  BY <1>1, <2>1, <2>2 DEF AnnotationsFresh, Unmatched
<1>4. CASE Llm
  <2>1. PICK texts : found' = LlmAnnotations(doc.text, texts) /\ UNCHANGED <<doc, pc, anns>>
    BY <1>4 DEF Llm, Ends
  <2>2. Fresh(found', doc.text)  BY <1>1, <2>1, LlmFresh
  <2>3. QED  BY <1>1, <2>1, <2>2 DEF AnnotationsFresh, Unmatched
<1>5. CASE Merge
  <2>1. /\ pc = "extract" /\ pc' = "reconcile" /\ found' = {} /\ UNCHANGED doc
        /\ anns' = MergePreliminary(anns, found)
    BY <1>5 DEF Merge
  <2>2. Fresh(anns', doc.text)
    BY <1>1, <2>1, MergeFresh DEF AnnotationsFresh, Unmatched
  <2>3. Fresh({}, doc.text)  BY DEF Fresh, Plain
  <2>4. QED  BY <2>1, <2>2, <2>3 DEF AnnotationsFresh, Unmatched
<1>6. CASE Reconcile
  <2>1. PICK category, verbs : anns' = Mistagged(Triaged(anns, category, said), verbs)
    BY <1>6 DEF Reconcile
  <2>2. pc = "reconcile" /\ pc' = "resolve" /\ UNCHANGED <<doc, found>>
    BY <1>6 DEF Reconcile, Stage, After
  <2>3. Fresh(anns', doc.text)
    BY <1>1, <2>1, <2>2, TriagedFresh DEF AnnotationsFresh, Unmatched
  <2>4. QED  BY <1>1, <2>2, <2>3 DEF AnnotationsFresh, Unmatched
<1>7. CASE MatchStrings
  <2>1. anns' \subseteq AnnotationsOf(doc.text) /\ DistinctIds(anns')
    <3>1. CASE resolved = <<>>
      <4>1. anns' = anns /\ Fresh(anns, doc.text)  BY <1>7, <3>1, MatchedFacts
      <4>2. QED  BY <4>1 DEF Fresh, Plain, DistinctIds
    <3>2. CASE resolved # <<>>
      BY <1>7, <3>2, MatchedFacts DEF DistinctIds
    <3>3. QED  BY <3>1, <3>2
  <2>2. ~Unmatched' /\ UNCHANGED <<doc, found>>  BY <1>7, MatchedFacts
  <2>3. QED  BY <1>1, <2>1, <2>2 DEF AnnotationsFresh
<1>8. CASE UNCHANGED <<doc, anns, found>>
  <2>1. CASE Unmatched /\ ~Unmatched'
    <3>1. Fresh(anns, doc.text)  BY <1>1, <2>1 DEF AnnotationsFresh
    <3>2. anns \subseteq AnnotationsOf(doc.text) /\ DistinctIds(anns)
      BY <3>1 DEF Fresh, Plain, DistinctIds
    <3>3. QED  BY <1>1, <1>8, <2>1, <3>2 DEF AnnotationsFresh
  <2>2. CASE Unmatched' <=> Unmatched
    <3>1. Fresh(found', doc'.text)  BY <1>1, <1>8 DEF AnnotationsFresh
    <3>2. CASE Unmatched
      <4>1. Fresh(anns', doc'.text)  BY <1>1, <1>8, <3>2 DEF AnnotationsFresh
      <4>2. QED  BY <2>2, <3>1, <3>2, <4>1 DEF AnnotationsFresh
    <3>3. CASE ~Unmatched
      <4>1. anns' \subseteq AnnotationsOf(doc'.text) /\ DistinctIds(anns')
        BY <1>1, <1>8, <3>3 DEF AnnotationsFresh
      <4>2. QED  BY <2>2, <3>1, <3>3, <4>1 DEF AnnotationsFresh
    <3>4. QED  BY <3>2, <3>3
  <2>3. ~Unmatched => ~Unmatched'  BY <1>1, MatchesOnce
  <2>4. QED  BY <2>1, <2>2, <2>3
<1>9. QED  BY <1>1, <1>2, <1>3, <1>4, <1>5, <1>6, <1>7, <1>8, AnnotationsStep

LEMMA ExactKept ==
  ASSUME EnrichInv, [Next]_vars
  PROVE  ExactMatchesKept'
<1> SUFFICES ASSUME Unmatched', ruler' # <<>>
             PROVE  Ids(RulerAnnotations(doc'.text)) \subseteq Ids(anns')
  BY DEF ExactMatchesKept
<1>1. /\ Unmatched /\ BranchesInOrder /\ AnnotationsFresh /\ ExactMatchesKept
      /\ Fresh(anns, doc.text)
  BY MatchesOnce DEF EnrichInv, AnnotationsFresh
<1>2. CASE Ruler  BY <1>2 DEF Ruler, Ends
<1>3. CASE Semantic
  <2>1. /\ anns' = SemanticAnnotations(RulerAnnotations(doc.text), Near) /\ UNCHANGED doc
    BY <1>1, <1>3 DEF Semantic, Ends, BranchesInOrder
  <2>2. RulerAnnotations(doc.text) \subseteq anns'  BY <2>1 DEF SemanticAnnotations
  <2>3. QED  BY <2>1, <2>2 DEF Ids
<1>4. CASE Merge
  <2>1. /\ anns' = MergePreliminary(anns, found) /\ UNCHANGED <<doc, ruler>>
    BY <1>4 DEF Merge
  <2>2. anns \subseteq anns'  BY <2>1 DEF MergePreliminary
  <2>3. Ids(anns) \subseteq Ids(anns')  BY <2>2 DEF Ids
  <2>4. QED  BY <1>1, <2>1, <2>3 DEF ExactMatchesKept
<1>5. CASE Reconcile
  <2>1. PICK category, verbs : anns' = Mistagged(Triaged(anns, category, said), verbs)
    BY <1>5 DEF Reconcile
  <2>2. UNCHANGED <<doc, ruler>>  BY <1>5 DEF Reconcile, Stage
  <2>3. Ids(anns') = Ids(anns)  BY <1>1, <2>1, TriagedFresh
  <2>4. QED  BY <1>1, <2>2, <2>3 DEF ExactMatchesKept
<1>6. CASE MatchStrings  BY <1>6, MatchedFacts
<1>7. CASE \/ Llm \/ Individuals \/ Propositions \/ Properties \/ Triples \/ BranchFails
           \/ ResolveConcepts \/ Judge \/ LinkIndividuals \/ LinkProperties \/ EnrichTriples
           \/ StageFails \/ UNCHANGED vars
  <2>1. UNCHANGED <<doc, anns, ruler>>
    BY <1>7 DEF Llm, Individuals, Propositions, Properties, Triples, BranchFails, ResolveConcepts,
                Judge, LinkIndividuals, LinkProperties, EnrichTriples, StageFails, Ends, Stage,
                vars, concepts
  <2>2. QED  BY <1>1, <2>1 DEF ExactMatchesKept
<1>8. QED  BY <1>2, <1>3, <1>4, <1>5, <1>6, <1>7 DEF Next, Extract

LEMMA OwnersStep ==
  ASSUME EnrichInv, [Next]_vars
  PROVE  OwnersKept'
<1>1. CASE Unmatched'
  <2>1. Fresh(anns', doc'.text)  BY <1>1, FreshKept DEF AnnotationsFresh
  <2>2. QED  BY <2>1 DEF OwnersKept, Fresh
<1>2. CASE ~Unmatched
  <2>1. UNCHANGED <<anns, resolved>>  BY <1>2, MatchesOnce DEF EnrichInv
  <2>2. QED  BY <2>1 DEF EnrichInv, OwnersKept
<1>3. CASE Unmatched /\ ~Unmatched' /\ anns' = anns
  <2>1. Fresh(anns', doc.text)  BY <1>3 DEF EnrichInv, AnnotationsFresh
  <2>2. QED  BY <2>1 DEF OwnersKept, Fresh
<1>4. CASE MatchStrings /\ resolved # <<>>
  <2> SUFFICES ASSUME NEW a \in anns', a.iri # NoIri, OwnedByOther(a.span.text, a.iri)
               PROVE  \E i \in DOMAIN resolved' : resolved'[i].iri = a.iri
                                                  /\ resolved'[i].text = a.span.text
    BY DEF OwnersKept
  <2>1. /\ resolved' = resolved /\ resolved \in Seq(ConceptsOf(Iris)) /\ Fresh(anns, doc.text)
        /\ HasConcept(a, ConceptsFor(a.span.text, resolved)) \/ a \in anns
    BY <1>4, MatchedFacts
  <2>2. a \notin anns  BY <2>1 DEF Fresh
  <2>3. PICK list : /\ list = ConceptsFor(a.span.text, resolved)
                    /\ IsOf(a.span.text, resolved, list) /\ HasConcept(a, list)
    BY <2>1, <2>2, ConceptsForIs
  <2>4. PICK j \in DOMAIN list : a.iri = list[j].iri  BY <2>3 DEF HasConcept
  <2>5. PICK i \in DOMAIN resolved : /\ resolved[i].iri = a.iri
                                     /\ \/ resolved[i].text = a.span.text
                                        \/ Expands(resolved[i], a.span.text)
    BY <2>3, <2>4 DEF IsOf
  <2>6. ~Expands(resolved[i], a.span.text)  BY <2>5 DEF Expands
  <2>7. QED  BY <2>1, <2>5, <2>6
<1>5. CASE MatchStrings /\ resolved = <<>>  BY <1>3, <1>5, MatchedFacts
<1>6. CASE StageFails  BY <1>1, <1>2, <1>3, <1>6 DEF StageFails, concepts
<1>7. QED  BY <1>1, <1>2, <1>4, <1>5, <1>6, MatchesOnce DEF EnrichInv

LEMMA CoverKept ==
  ASSUME EnrichInv, [Next]_vars
  PROVE  NothingResolvedVanishes'
<1> SUFFICES ASSUME Matched'  PROVE NothingResolvedVanishes'
  BY DEF NothingResolvedVanishes
<1>1. ~Unmatched' /\ "match" \notin skipped' /\ resolved' # <<>>  BY DEF Matched
<1>2. CASE ~Unmatched
  <2>1. UNCHANGED <<doc, anns, resolved>>  BY <1>2, MatchesOnce DEF EnrichInv
  <2>2. skipped \subseteq skipped'
    BY DEF Next, Extract, Ruler, Semantic, Llm, Individuals, Propositions, Properties, Triples,
           BranchFails, Merge, Reconcile, ResolveConcepts, Judge, MatchStrings, LinkIndividuals,
           LinkProperties, EnrichTriples, StageFails, Ends, Stage, vars
  <2>3. Matched  BY <1>1, <1>2, <2>1, <2>2 DEF Matched
  <2>4. QED  BY <2>1, <2>3 DEF EnrichInv, NothingResolvedVanishes
<1>3. CASE Unmatched
  <2>1. MatchStrings  BY <1>1, <1>3, MatchesOnce DEF EnrichInv
  <2>2. /\ UNCHANGED <<doc, resolved>>
        /\ \A s \in doc.text : ConceptsFor(s.text, resolved) # <<>> =>
             \E a \in anns' : Within(s, a.span) /\ HasConcept(a, ConceptsFor(s.text, resolved))
    BY <1>1, <2>1, MatchedFacts
  <2>3. ASSUME NEW s \in doc.text, NEW list, list = ConceptsFor(s.text, resolved), list # <<>>
        PROVE  \E a \in anns' : /\ a.state = "confirmed" /\ Within(s, a.span)
                                /\ \E i \in DOMAIN list : a.iri = list[i].iri
    BY <2>2, <2>3 DEF HasConcept
  <2>4. QED  BY <2>2, <2>3 DEF NothingResolvedVanishes
<1>4. QED  BY <1>2, <1>3

(* Individuals are linked once, after the last change of the annotations.     *)
LEMMA LinksOnce ==
  ASSUME BranchesInOrder, [Next]_vars
  PROVE  /\ Linked => Linked' /\ UNCHANGED <<doc, anns, individuals, cited>>
         /\ ~Linked /\ Linked' => pc = "link" /\ (LinkIndividuals \/ StageFails)
         /\ pc' = "complete" =>
              pc \in {"complete", "connect"} /\ UNCHANGED <<anns, individuals>>
         /\ pc = "complete" => pc' = "complete" /\ UNCHANGED triples
<1>1. CASE Extract
  <2>1. pc = "extract"
    BY <1>1, ExtractIs DEF Extract, Ruler, Semantic, Llm, Individuals, Propositions, Properties,
                           Triples, BranchFails, Merge, Ends
  <2>2. pc' \in {"extract", "reconcile"}
    BY <1>1, <2>1 DEF Extract, Ruler, Semantic, Llm, Individuals, Propositions, Properties,
                      Triples, BranchFails, Merge, Ends
  <2>3. QED  BY <2>1, <2>2 DEF Linked
<1>2. CASE Reconcile \/ ResolveConcepts \/ Judge \/ MatchStrings
  <2>1. /\ pc \in {"reconcile", "resolve", "judge", "match"}
        /\ pc' \in {"resolve", "judge", "match", "link"}
    BY <1>2 DEF Reconcile, ResolveConcepts, Judge, MatchStrings, Stage, After
  <2>2. QED  BY <2>1 DEF Linked
<1>3. CASE LinkIndividuals
  <2>1. pc = "link" /\ pc' = "relate"  BY <1>3 DEF LinkIndividuals, Stage, After
  <2>2. QED  BY <1>3, <2>1 DEF Linked
<1>4. CASE LinkProperties \/ EnrichTriples
  <2>1. /\ pc \in {"relate", "connect"} /\ pc' \in {"connect", "complete"}
        /\ pc' = "complete" => pc = "connect"
        /\ UNCHANGED <<doc, anns, individuals, cited>>
    BY <1>4 DEF LinkProperties, EnrichTriples, Stage, After, concepts
  <2>2. QED  BY <2>1 DEF Linked
<1>5. CASE StageFails
  <2>1. /\ pc \in Stages /\ pc' = After[pc] /\ UNCHANGED <<doc, anns, individuals, cited>>
    BY <1>5 DEF StageFails, concepts, entities
  <2>2. QED  BY <1>5, <2>1 DEF Linked, Stages, After
<1>6. CASE UNCHANGED vars  BY <1>6 DEF vars, concepts, entities, Linked
<1>7. QED  BY <1>1, <1>2, <1>3, <1>4, <1>5, <1>6 DEF Next

LEMMA MentionsAre ==
  ASSUME NEW d \in Docs
  PROVE  /\ d.mentions \in SUBSET Entities(Ids(d.mentions), {}) /\ IsFiniteSet(d.mentions)
         /\ d.reported \in SUBSET Entities(Nat, {}) /\ IsFiniteSet(d.reported)
         /\ Ids(d.mentions) \in SUBSET Nat
         /\ DistinctIds(d.mentions) /\ DistinctIds(d.reported)
         /\ \A i \in d.reported : i.id \notin Ids(d.mentions)
<1>1. /\ IsFiniteSet(d.mentions \cup d.reported) /\ d.mentions \cap d.reported = {}
      /\ \A i, j \in d.mentions \cup d.reported : i \in Mentioned /\ (i.id = j.id => i = j)
  BY DocsAssumption
<1>2. d.mentions \in SUBSET (d.mentions \cup d.reported)
      /\ d.reported \in SUBSET (d.mentions \cup d.reported)
  OBVIOUS
<1>3. IsFiniteSet(d.mentions) /\ IsFiniteSet(d.reported)  BY <1>1, <1>2, FS_Subset
<1>4. \A i \in d.mentions : i.id \in Ids(d.mentions)  BY DEF Ids
<1>5. \A i \in d.mentions \cup d.reported : i \in Mentioned  BY <1>1
<1>6. d.reported \in SUBSET Entities(Nat, {})  BY <1>5 DEF Mentioned, Entities
<1>7. d.mentions \in SUBSET Entities(Ids(d.mentions), {})  BY <1>4, <1>5 DEF Mentioned, Entities
<1>8. Ids(d.mentions) \in SUBSET Nat  BY <1>5 DEF Ids, Mentioned
<1>9. \A i \in d.reported : i.id \notin Ids(d.mentions)  BY <1>1 DEF Ids
<1>10. DistinctIds(d.mentions) /\ DistinctIds(d.reported)  BY <1>1 DEF DistinctIds
<1>11. QED  BY <1>3, <1>6, <1>7, <1>8, <1>9, <1>10

WithLinks(link) == {[i EXCEPT !.links = @ \cup link[i]] : i \in DOMAIN link}

LEMMA LinkingKeeps ==
  ASSUME NEW links, NEW set \in SUBSET Entities(Nat, {}), IsFiniteSet(set), DistinctIds(set),
         NEW link \in [set -> SUBSET links]
  PROVE  LET d == Deduplicate(WithLinks(link))
         IN d \in SUBSET Entities(Nat, links) /\ DistinctIds(d) /\ IsFiniteSet(d)
<1> DEFINE With(i) == [i EXCEPT !.links = @ \cup link[i]]
<1>1. ASSUME NEW i \in set  PROVE With(i) \in Entities(Nat, links) /\ With(i).id = i.id
  <2>1. i \in Entities(Nat, {}) /\ link[i] \in SUBSET links  OBVIOUS
  <2>2. (i.links \cup link[i]) \in SUBSET links  BY <2>1 DEF Entities
  <2>3. QED  BY <2>1, <2>2 DEF Entities
<1>2. PICK more : more = {With(i) : i \in set}  OBVIOUS
<1>3. WithLinks(link) = more  BY <1>2 DEF WithLinks
<1> HIDE DEF With
<1>4. IsFiniteSet(more)
  <2>1. PICK f : f = [i \in set |-> With(i)]  OBVIOUS
  <2>2. IsFiniteSet({f[i] : i \in set})  BY <2>1, ImageFinite
  <2>3. more = {f[i] : i \in set}  BY <1>2, <2>1
  <2>4. QED  BY <2>2, <2>3
<1>5. more \in SUBSET Entities(Nat, links)  BY <1>1, <1>2
<1>6. DistinctIds(more)
  <2> SUFFICES ASSUME NEW x \in more, NEW y \in more, x.id = y.id  PROVE x = y
    BY DEF DistinctIds
  <2>1. PICK i \in set : x = With(i)  BY <1>2
  <2>2. PICK j \in set : y = With(j)  BY <1>2
  <2>3. i.id = j.id  BY <1>1, <2>1, <2>2
  <2>4. i = j  BY <2>3 DEF DistinctIds
  <2>5. QED  BY <2>1, <2>2, <2>4
<1>7. Nat \in SUBSET Nat  OBVIOUS
<1>8. QED  BY <1>3, <1>4, <1>5, <1>6, <1>7, DeduplicateIs

LEMMA IndividualsKept ==
  ASSUME EnrichInv, [Next]_vars
  PROVE  IndividualsOwn'
<1>1. doc \in Docs /\ BranchesInOrder /\ IndividualsOwn
  BY DEF EnrichInv, BranchesInOrder
<1>2. CASE Individuals
  <2>1. PICK failed :
          individuals' = Deduplicate({i \in doc.mentions : i.source \notin UNION failed})
    BY <1>2 DEF Individuals
  <2>2. PICK set : set = {i \in doc.mentions : i.source \notin UNION failed}  OBVIOUS
  <2>3. set \in SUBSET Entities(Ids(doc.mentions), {}) /\ DistinctIds(set) /\ IsFiniteSet(set)
    <3>1. set \in SUBSET doc.mentions  BY <2>2
    <3>2. QED  BY <1>1, <3>1, MentionsAre, FS_Subset DEF DistinctIds
  <2>4. /\ individuals' \in SUBSET Entities(Ids(doc.mentions), {})
        /\ DistinctIds(individuals') /\ IsFiniteSet(individuals')
    BY <1>1, <2>1, <2>2, <2>3, MentionsAre, DeduplicateIs
  <2>5. UNCHANGED <<doc, cited, pc>> /\ pc = "extract"
    BY <1>1, <1>2 DEF Individuals, Ends, BranchesInOrder
  <2>6. QED  BY <1>1, <2>4, <2>5 DEF IndividualsOwn, Linked
<1>3. CASE Propositions
  <2>1. /\ cited' = {i.id : i \in {j \in individuals : j.name \in doc.claims}}
        /\ UNCHANGED <<doc, individuals, pc>> /\ pc = "extract"
    BY <1>1, <1>3 DEF Propositions, Ends, BranchesInOrder
  <2>2. individuals \in SUBSET Entities(Ids(doc.mentions), {})
    BY <1>1, <2>1 DEF IndividualsOwn, Linked
  <2>3. cited' \subseteq Ids(doc.mentions)  BY <2>1, <2>2 DEF Entities
  <2>4. QED  BY <1>1, <2>1, <2>2, <2>3 DEF IndividualsOwn, Linked
<1>4. CASE LinkIndividuals
  <2>1. PICK new \in SUBSET doc.reported :
          \E link \in [new \cup individuals -> {{}} \cup {{id} : id \in Ids(anns)}] :
            individuals' = Deduplicate(WithLinks(link))
    BY <1>4 DEF LinkIndividuals, WithLinks
  <2>2. PICK link \in [new \cup individuals -> {{}} \cup {{id} : id \in Ids(anns)}] :
            individuals' = Deduplicate(WithLinks(link))
    BY <2>1
  <2>3. /\ pc = "link" /\ Linked' /\ UNCHANGED <<doc, anns, cited>>
    BY <1>4 DEF LinkIndividuals, Stage, After, concepts, Linked
  <2>4. individuals \in SUBSET Entities(Ids(doc.mentions), {})
    BY <1>1, <2>3 DEF IndividualsOwn, Linked
  <2>5. PICK set : set = new \cup individuals  OBVIOUS
  <2>6. set \in SUBSET Entities(Nat, {})
    <3>1. individuals \in SUBSET Entities(Nat, {})  BY <1>1, <2>4, MentionsAre DEF Entities
    <3>2. new \in SUBSET Entities(Nat, {})  BY <1>1, MentionsAre
    <3>3. QED  BY <2>5, <3>1, <3>2
  <2>7. IsFiniteSet(set)
    <3>1. IsFiniteSet(new)  BY <1>1, MentionsAre, FS_Subset
    <3>2. QED  BY <1>1, <2>5, <3>1, FS_Union DEF IndividualsOwn
  <2>8. DistinctIds(set)
    <3>1. \A x \in new : x.id \notin Ids(doc.mentions)  BY <1>1, MentionsAre
    <3>2. \A x \in individuals : x.id \in Ids(doc.mentions)  BY <2>4 DEF Entities
    <3>3. DistinctIds(new)  BY <1>1, MentionsAre DEF DistinctIds
    <3>4. QED  BY <1>1, <2>5, <3>1, <3>2, <3>3 DEF DistinctIds, IndividualsOwn
  <2>9. link \in [set -> SUBSET Ids(anns)]
    <3>1. \A x \in {{}} \cup {{id} : id \in Ids(anns)} : x \in SUBSET Ids(anns)  OBVIOUS
    <3>2. QED  BY <2>5, <3>1
  <2>10. /\ individuals' \in SUBSET Entities(Nat, Ids(anns))
         /\ DistinctIds(individuals') /\ IsFiniteSet(individuals')
    BY <2>2, <2>6, <2>7, <2>8, <2>9, LinkingKeeps
  <2>11. QED  BY <1>1, <2>3, <2>10 DEF IndividualsOwn
<1>5. CASE UNCHANGED <<doc, individuals, cited>>
  <2>1. CASE Linked
    <3>1. Linked' /\ UNCHANGED anns  BY <1>1, <2>1, LinksOnce
    <3>2. QED  BY <1>1, <1>5, <2>1, <3>1 DEF IndividualsOwn
  <2>2. CASE ~Linked /\ ~Linked'  BY <1>1, <1>5, <2>2 DEF IndividualsOwn
  <2>3. CASE ~Linked /\ Linked'
    <3>1. individuals \in SUBSET Entities(Ids(doc.mentions), {})
      BY <1>1, <2>3 DEF IndividualsOwn
    <3>2. individuals \in SUBSET Entities(Nat, Ids(anns'))
      BY <1>1, <3>1, MentionsAre DEF Entities
    <3>3. QED  BY <1>1, <1>5, <2>3, <3>2 DEF IndividualsOwn
  <2>4. QED  BY <2>1, <2>2, <2>3
<1>6. CASE \/ Ruler \/ Semantic \/ Llm \/ Properties \/ Triples \/ BranchFails \/ Merge
           \/ Reconcile \/ ResolveConcepts \/ Judge \/ MatchStrings \/ LinkProperties
           \/ EnrichTriples \/ StageFails \/ UNCHANGED vars
  <2>1. UNCHANGED <<doc, individuals, cited>>
    BY <1>6 DEF Ruler, Semantic, Llm, Properties, Triples, BranchFails, Merge, Reconcile,
                ResolveConcepts, Judge, MatchStrings, LinkProperties, EnrichTriples, StageFails,
                Ends, Stage, vars, entities
  <2>2. QED  BY <1>5, <2>1
<1>7. QED  BY <1>2, <1>3, <1>4, <1>6 DEF Next, Extract

LEMMA PartsKept ==
  ASSUME EnrichInv, [Next]_vars
  PROVE  PartsLinked'
<1>1. doc \in Docs /\ BranchesInOrder /\ PartsLinked  BY DEF EnrichInv, BranchesInOrder
<1>2. CASE Triples
  <2>1. triples' = doc.parts /\ pc' = "extract"
    BY <1>1, <1>2 DEF Triples, Ends, BranchesInOrder
  <2>2. doc.parts \subseteq PartsOf({}, {})  BY <1>1, DocIs DEF Part, PartsOf
  <2>3. QED  BY <2>1, <2>2 DEF PartsLinked
<1>3. CASE EnrichTriples
  <2> DEFINE With(p) == [p EXCEPT !.concepts = ConceptLinks(p, anns),
                                  !.individuals = IndividualLinks(p, individuals)]
  <2>1. /\ pc = "connect" /\ pc' = "complete" /\ UNCHANGED <<anns, individuals>>
        /\ triples' = {With(p) : p \in triples}
    BY <1>3 DEF EnrichTriples, Stage, After, concepts
  <2>2. ASSUME NEW p \in triples  PROVE With(p) \in PartsOf(Ids(anns), Ids(individuals))
    <3>1. p \in PartsOf({}, {})  BY <1>1, <2>1 DEF PartsLinked
    <3>2. ConceptLinks(p, anns) \in SUBSET Ids(anns)  BY DEF ConceptLinks, Ids
    <3>3. IndividualLinks(p, individuals) \in SUBSET Ids(individuals)
      BY DEF IndividualLinks, Ids
    <3>4. QED  BY <3>1, <3>2, <3>3 DEF PartsOf
  <2> HIDE DEF With
  <2>3. triples' \subseteq PartsOf(Ids(anns), Ids(individuals))  BY <2>1, <2>2
  <2>4. QED  BY <2>1, <2>3 DEF PartsLinked
<1>4. CASE UNCHANGED triples
  <2>1. CASE pc' = "complete"
    <3>1. pc \in {"complete", "connect"} /\ UNCHANGED <<anns, individuals>>
      BY <1>1, <2>1, LinksOnce
    <3>2. PartsOf({}, {}) \subseteq PartsOf(Ids(anns), Ids(individuals))  BY DEF PartsOf
    <3>3. triples \subseteq PartsOf(Ids(anns), Ids(individuals))
      BY <1>1, <3>1, <3>2 DEF PartsLinked
    <3>4. QED  BY <1>4, <2>1, <3>1, <3>3 DEF PartsLinked
  <2>2. CASE pc' # "complete"
    <3>1. pc # "complete"  BY <1>1, <2>2, LinksOnce
    <3>2. QED  BY <1>1, <1>4, <2>2, <3>1 DEF PartsLinked
  <2>3. QED  BY <2>1, <2>2
<1>5. CASE \/ Ruler \/ Semantic \/ Llm \/ Individuals \/ Propositions \/ Properties
           \/ BranchFails \/ Merge \/ Reconcile \/ ResolveConcepts \/ Judge \/ MatchStrings
           \/ LinkIndividuals \/ LinkProperties \/ StageFails \/ UNCHANGED vars
  <2>1. UNCHANGED triples
    BY <1>5 DEF Ruler, Semantic, Llm, Individuals, Propositions, Properties, BranchFails, Merge,
                Reconcile, ResolveConcepts, Judge, MatchStrings, LinkIndividuals, LinkProperties,
                StageFails, vars, entities
  <2>2. QED  BY <1>4, <2>1
<1>6. QED  BY <1>2, <1>3, <1>5 DEF Next, Extract

LEMMA EnrichInvStep ==
  ASSUME EnrichInv, [Next]_vars
  PROVE  EnrichInv'
<1>1. BranchesInOrder' /\ ListsTyped'  BY OrderKept, ListsKept DEF EnrichInv
<1>2. AnnotationsFresh' /\ ExactMatchesKept' /\ OwnersKept'
  BY FreshKept, ExactKept, OwnersStep
<1>3. NothingResolvedVanishes' /\ IndividualsOwn' /\ PartsLinked'
  BY CoverKept, IndividualsKept, PartsKept
<1>4. QED  BY <1>1, <1>2, <1>3 DEF EnrichInv

LEMMA EnrichInvHolds == Spec => []EnrichInv
<1>1. Init => EnrichInv  BY InitInv
<1>2. EnrichInv /\ [Next]_vars => EnrichInv'  BY EnrichInvStep
<1>3. QED  BY <1>1, <1>2, PTL DEF Spec

-----------------------------------------------------------------------------
(* Whichever branches fail and however they interleave, the exact matches     *)
(* that were committed are there until the string matching (pipeline.py's     *)
(* branches and merge, ReconciliationStage's triage).                         *)
THEOREM ExactMatchesStay == Spec => []ExactMatchesKept
<1>1. EnrichInv => ExactMatchesKept  BY DEF EnrichInv
<1>2. QED  BY <1>1, EnrichInvHolds, PTL

(* The primary label of a concept is given to another one only by what was    *)
(* resolved from this very text (StringMatchStage's ownership test).          *)
THEOREM PrimaryLabelsStay == Spec => []OwnersKept
<1>1. EnrichInv => OwnersKept  BY DEF EnrichInv
<1>2. QED  BY <1>1, EnrichInvHolds, PTL

(* For a document whose occurrences are nested or apart: every occurrence of  *)
(* a text that something was resolved for is under a confirmed annotation     *)
(* with one of its concepts (StringMatchStage's removal of overlaps).         *)
THEOREM ResolvedIsCovered == Spec => []NothingResolvedVanishes
<1>1. EnrichInv => NothingResolvedVanishes  BY DEF EnrichInv
<1>2. QED  BY <1>1, EnrichInvHolds, PTL

(* Types, ids that are given once, and links of individuals and triples that  *)
(* lead to what the job has, after all merging of individuals.                *)
THEOREM LinksLead == Spec => []LinksResolve
<1>1. EnrichInv => LinksResolve
  <2> SUFFICES ASSUME EnrichInv  PROVE LinksResolve  OBVIOUS
  <2>1. /\ Spans(doc.text) /\ {s.text : s \in doc.text} \subseteq Texts
        /\ doc \in Docs
    BY DocIs DEF EnrichInv, BranchesInOrder
  <2>2. Annotations = AnnotationsOf(doc.text)  BY DEF Annotations, AnnotationsOf
  <2>3. /\ anns \subseteq Annotations /\ found \subseteq Annotations /\ said \subseteq Texts
    BY <2>1, <2>2 DEF EnrichInv, AnnotationsFresh, ListsTyped, Fresh, Plain
  <2>4. ASSUME NEW a \in anns, NEW b \in anns, IF Unmatched THEN a.span = b.span ELSE a.id = b.id
        PROVE  a = b
    <3>1. CASE Unmatched  BY <2>4, <3>1 DEF EnrichInv, AnnotationsFresh, Fresh, Plain
    <3>2. CASE ~Unmatched  BY <2>4, <3>2 DEF EnrichInv, AnnotationsFresh, DistinctIds
    <3>3. QED  BY <3>1, <3>2
  <2>5. /\ \A x, y \in individuals : x.id = y.id => x = y
        /\ cited \subseteq Ids(doc.mentions)
    BY DEF EnrichInv, IndividualsOwn, DistinctIds
  <2>6. EnrichTypeOK  BY <2>1, <2>3, <2>4, <2>5 DEF EnrichTypeOK, EnrichInv, BranchesInOrder
  <2>7. \A i \in individuals : i.links \subseteq Ids(anns)
    <3>1. CASE Linked  BY <3>1 DEF EnrichInv, IndividualsOwn, Entities
    <3>2. CASE ~Linked  BY <3>2 DEF EnrichInv, IndividualsOwn, Entities
    <3>3. QED  BY <3>1, <3>2
  <2>8. \A p \in triples : /\ p.concepts \subseteq Ids(anns)
                          /\ p.individuals \subseteq Ids(individuals)
    <3>1. CASE pc = "complete"  BY <3>1 DEF EnrichInv, PartsLinked, PartsOf
    <3>2. CASE pc # "complete"  BY <3>2 DEF EnrichInv, PartsLinked, PartsOf
    <3>3. QED  BY <3>1, <3>2
  <2>9. QED  BY <2>6, <2>7, <2>8 DEF LinksResolve
<1>2. QED  BY <1>1, EnrichInvHolds, PTL

-----------------------------------------------------------------------------
(* The stages as AnnotationReview sees them.  Ids are given by kind, and each *)
(* kind by one branch or stage.                                               *)
IdsGiven ==
  /\ Ids(anns) \subseteq born /\ born \subseteq AnnIds
  /\ \A i \in born : /\ Unmatched => i[1] # "match"
                     /\ pc = "extract" => i[1] # "llm"
                     /\ "ruler" \in todo => i[1] # "ruler"
                     /\ {"ruler", "semantic"} \cap todo # {} => i[1] # "semantic"
  /\ \A a \in found : a.id[1] = "llm" /\ a.state = "preliminary"
  /\ Unmatched => "match" \notin skipped

JobInv == EnrichInv /\ IdsGiven

AnnStates == {"preliminary", "confirmed", "rejected"}

(* Annotations with ids of their own as a list by id.                         *)
LEMMA ByIdIs ==
  ASSUME NEW d \in Docs, NEW set \in SUBSET AnnotationsOf(d.text), DistinctIds(set), NEW m,
         NEW list, list = ListOf(set, m)
  PROVE  /\ Ids(set) \subseteq AnnIds /\ Review!In(list) = Ids(set)
         /\ list = [i \in AnnIds |-> list[i]]
         /\ \A a \in set : /\ list[a.id] = Seen(a, m) /\ a.state \in AnnStates
                           /\ a.iri \in Iris \cup {NoIri}
         /\ \A i \in AnnIds : i \notin Ids(set) => list[i] = Missing
<1>1. Ids(set) \subseteq AnnIds
  <2> SUFFICES ASSUME NEW a \in set  PROVE a.id \in AnnIds  BY DEF Ids
  <2>1. a.id \in {"ruler", "semantic", "llm", "match"} \X d.text \X (Iris \cup {NoIri})
    BY DEF AnnotationsOf
  <2>2. d.text \subseteq UNION {e.text : e \in Docs}  OBVIOUS
  <2>3. QED  BY <2>1, <2>2 DEF AnnIds
<1>2. list = [i \in AnnIds |-> IF i \in Ids(set) THEN Seen(CHOOSE a \in set : a.id = i, m)
                               ELSE Missing]
  BY DEF ListOf
<1>3. ASSUME NEW a \in set
      PROVE  /\ a.id \in Ids(set) /\ list[a.id] = Seen(a, m) /\ a.state \in AnnStates
             /\ a.iri \in Iris \cup {NoIri}
  <2>1. a.id \in Ids(set)  BY DEF Ids
  <2>2. PICK b : b = CHOOSE x \in set : x.id = a.id  OBVIOUS
  <2>3. b \in set /\ b.id = a.id  BY <2>2
  <2>4. b = a  BY <2>3 DEF DistinctIds
  <2>5. list[a.id] = Seen(b, m)  BY <1>1, <1>2, <2>1, <2>2
  <2>6. a.state \in AnnStates /\ a.iri \in Iris \cup {NoIri}  BY DEF AnnotationsOf, AnnStates
  <2>7. QED  BY <2>1, <2>4, <2>5, <2>6
<1>4. \A i \in AnnIds : i \notin Ids(set) => list[i] = Missing  BY <1>2
<1>5. ASSUME NEW a \in set  PROVE list[a.id] # Missing
  <2>1. list[a.id].state \in AnnStates
    <3>1. Seen(a, m).state = a.state  BY DEF Seen
    <3>2. list[a.id] = Seen(a, m) /\ a.state \in AnnStates  BY <1>3
    <3>3. QED  BY <3>1, <3>2
  <2>2. Missing.state \notin AnnStates  BY DEF Missing, AnnStates
  <2>3. QED  BY <2>1, <2>2
<1>6. Review!In(list) = {i \in AnnIds : list[i] # Missing}  BY DEF Review!In
<1>7. \A i \in Ids(set) : \E a \in set : a.id = i  BY DEF Ids
<1>8. Review!In(list) = Ids(set)  BY <1>1, <1>4, <1>5, <1>6, <1>7
<1>9. list = [i \in AnnIds |-> list[i]]  BY <1>2
<1>10. QED  BY <1>1, <1>3, <1>4, <1>8, <1>9

(* What the invariant says of the job's annotations.                          *)
Sound(set) == /\ doc \in Docs /\ set \in SUBSET AnnotationsOf(doc.text) /\ DistinctIds(set)

LEMMA AnnsSound ==
  ASSUME EnrichInv
  PROVE  Sound(anns)
<1>1. doc \in Docs /\ AnnotationsFresh  BY DEF EnrichInv, BranchesInOrder
<1>2. CASE Unmatched  BY <1>1, <1>2 DEF AnnotationsFresh, Fresh, Plain, DistinctIds, Sound
<1>3. CASE ~Unmatched  BY <1>1, <1>3 DEF AnnotationsFresh, Sound
<1>4. QED  BY <1>2, <1>3

LEMMA BothSound ==
  ASSUME EnrichInv, [Next]_vars
  PROVE  Sound(anns) /\ Sound(anns') /\ EnrichInv'
<1>1. EnrichInv'  BY EnrichInvStep
<1>2. doc' \in Docs /\ AnnotationsFresh'  BY <1>1 DEF EnrichInv, BranchesInOrder
<1>3. anns' \in SUBSET AnnotationsOf(doc'.text) /\ DistinctIds(anns')
  <2>1. CASE Unmatched'  BY <1>2, <2>1 DEF AnnotationsFresh, Fresh, Plain, DistinctIds
  <2>2. CASE ~Unmatched'  BY <1>2, <2>2 DEF AnnotationsFresh
  <2>3. QED  BY <2>1, <2>2
<1>4. doc' = doc
  BY DEF Next, Extract, Ruler, Semantic, Llm, Individuals, Propositions, Properties, Triples,
         BranchFails, Merge, Reconcile, ResolveConcepts, Judge, MatchStrings, LinkIndividuals,
         LinkProperties, EnrichTriples, StageFails, Ends, Stage, vars
<1>5. QED  BY <1>1, <1>2, <1>3, <1>4, AnnsSound DEF Sound

(* A stage, once it is known what it makes of the list.                       *)
LEMMA StageIs ==
  ASSUME NEW from, NEW to, Phase = from, Phase' = to, born' = born \cup Review!In(ById')
  PROVE  Review!Stage(from, to, ById')
<1>1. /\ NoEntries' = NoEntries /\ NoEdits' = NoEdits /\ NotTold' = NotTold
      /\ NotShown' = NotShown
  BY DEF NoEntries, NoEdits, NotTold, NotShown, AnnIds, Missing
<1>2. Copy' = [Copy EXCEPT !.anns = ById']  BY DEF Copy
<1>3. QED  BY <1>1, <1>2 DEF Review!Stage, Review!users

(* What leaves the annotations alone goes on to a later phase, or stays.      *)
LEMMA QuietStep ==
  ASSUME EnrichInv, [Next]_vars, UNCHANGED <<anns, born>>,
         MatchStrings => resolved = <<>>
  PROVE  Leaves
<1>1. BranchesInOrder  BY DEF EnrichInv
<1>2. /\ ~Unmatched => ~Unmatched' /\ resolved' = resolved
      /\ Unmatched /\ ~Unmatched' =>
           pc = "match" /\ (MatchStrings \/ (StageFails /\ skipped' = skipped \cup {"match"}))
  BY <1>1, MatchesOnce
<1>3. \/ pc' = pc /\ skipped' = skipped
      \/ pc = "extract" /\ pc' = "reconcile"
      \/ pc \in Stages /\ pc' = After[pc] /\ skipped' \in {skipped, skipped \cup {pc}}
  <2>1. CASE Extract
    BY <2>1 DEF Extract, Ruler, Semantic, Llm, Individuals, Propositions, Properties, Triples,
                BranchFails, Merge, Ends
  <2>2. CASE \/ Reconcile \/ ResolveConcepts \/ Judge \/ MatchStrings \/ LinkIndividuals
             \/ LinkProperties \/ EnrichTriples \/ StageFails
    BY <2>2 DEF Reconcile, ResolveConcepts, Judge, MatchStrings, LinkIndividuals,
                LinkProperties, EnrichTriples, StageFails, Stage, Stages, After
  <2>3. CASE UNCHANGED vars  BY <2>3 DEF vars
  <2>4. QED  BY <2>1, <2>2, <2>3 DEF Next
<1>4. \/ Phase' = Phase
      \/ <<Phase, Phase'>> \in {<<"extract", "reconcile">>, <<"reconcile", "match">>,
                                <<"match", "link">>, <<"link", "complete">>}
  <2>1. CASE pc' = pc  BY <2>1 DEF Phase
  <2>2. CASE pc = "extract" /\ pc' = "reconcile"  BY <2>2 DEF Phase
  <2>3. CASE pc \in Stages /\ pc' = After[pc]  BY <2>3 DEF Phase, Stages, After
  <2>4. QED  BY <1>3, <2>1, <2>2, <2>3
<1>5. Matched' = Matched
  <2>1. CASE Unmatched /\ Unmatched'  BY <2>1 DEF Matched
  <2>2. CASE ~Unmatched
    <3>1. ~Unmatched' /\ resolved' = resolved  BY <1>2, <2>2
    <3>2. "match" \in skipped' <=> "match" \in skipped
      BY <1>3, <2>2 DEF Unmatched, Stages, After
    <3>3. QED  BY <2>2, <3>1, <3>2 DEF Matched
  <2>3. CASE Unmatched /\ ~Unmatched'
    <3>1. CASE StageFails /\ skipped' = skipped \cup {"match"}  BY <2>3, <3>1 DEF Matched
    <3>2. CASE MatchStrings
      <4>1. resolved' = <<>>  BY <3>2 DEF MatchStrings
      <4>2. QED  BY <2>3, <4>1 DEF Matched
    <3>3. QED  BY <1>2, <2>3, <3>1, <3>2
  <2>4. QED  BY <2>1, <2>2, <2>3
<1>6. QED  BY <1>4, <1>5 DEF Leaves

(* What a stage makes of the list, from what it makes of the annotations.     *)
LEMMA FindsIs ==
  ASSUME Sound(anns), Sound(anns'), ~Matched, ~Matched', Phase = "extract",
         Phase' \in {"extract", "reconcile"}, born' = born \cup Ids(anns'),
         \A a \in anns' : a \in anns \/ (a.id \notin born /\ a.state = "preliminary")
  PROVE  Finds
<1>1. PICK old : old = ById  OBVIOUS
<1>2. PICK new : new = ById'  OBVIOUS
<1>3. \A a \in anns : old[a.id] = Seen(a, Matched)
  BY <1>1, ByIdIs DEF ById, Sound
<1>4. /\ Review!In(new) = Ids(anns')
      /\ \A a \in anns' : new[a.id] = Seen(a, Matched') /\ a.iri \in Iris \cup {NoIri}
  <2>1. new = ListOf(anns', Matched')  BY <1>2 DEF ById
  <2>2. QED  BY <2>1, ByIdIs DEF Sound
<1>5. ASSUME NEW i \in Review!In(new)
      PROVE  \/ new[i] = old[i]
             \/ i \notin born /\ \E c \in Iris \cup {NoIri} : new[i] = Review!Preliminary(c)
  <2>1. PICK a \in anns' : a.id = i  BY <1>4 DEF Ids
  <2>2. CASE a \in anns
    <3>1. new[i] = Seen(a, Matched') /\ old[i] = Seen(a, Matched)  BY <1>3, <1>4, <2>1, <2>2
    <3>2. Seen(a, Matched') = Seen(a, Matched)  BY DEF Seen
    <3>3. QED  BY <3>1, <3>2
  <2>3. CASE a.id \notin born /\ a.state = "preliminary"
    <3>1. new[i] = Seen(a, Matched') /\ a.iri \in Iris \cup {NoIri}  BY <1>4, <2>1
    <3>2. Seen(a, Matched') = Review!Preliminary(a.iri)  BY <2>3 DEF Seen, Review!Preliminary
    <3>3. QED  BY <2>1, <2>3, <3>1, <3>2
  <2>4. QED  BY <2>2, <2>3
<1>6. PICK to \in {"extract", "reconcile"} : Phase' = to  OBVIOUS
<1>7. Review!Stage("extract", to, ById')
  <2>1. born' = born \cup Review!In(ById')  BY <1>2, <1>4
  <2>2. QED  BY <1>6, <2>1, StageIs
<1>8. QED  BY <1>1, <1>2, <1>5, <1>7 DEF Finds

LEMMA StateChanged ==
  ASSUME NEW old, NEW new, NEW list
  PROVE  [[state |-> old, dismissed |-> FALSE, events |-> 0, concepts |-> list] EXCEPT !.state = new]
           = [state |-> new, dismissed |-> FALSE, events |-> 0, concepts |-> list]
<1>1. PICK y : y = [[state |-> old, dismissed |-> FALSE, events |-> 0, concepts |-> list]
                      EXCEPT !.state = new]
  OBVIOUS
<1>2. y \in [state : {new}, dismissed : {FALSE}, events : {0}, concepts : {list}]  BY <1>1
<1>3. QED  BY <1>1, <1>2

LEMMA SettlesIs ==
  ASSUME Sound(anns), Sound(anns'), ~Matched, ~Matched', Phase = "reconcile",
         Phase' = "match", born' = born \cup Ids(anns'), Bare(anns') = Bare(anns)
  PROVE  Settles
<1>1. PICK old : old = ById  OBVIOUS
<1>2. PICK new : new = ById'  OBVIOUS
<1>3. /\ Review!In(old) = Ids(anns)
      /\ \A a \in anns : old[a.id] = Seen(a, Matched)
  BY <1>1, ByIdIs DEF ById, Sound
<1>4. /\ Review!In(new) = Ids(anns')
      /\ \A a \in anns' : new[a.id] = Seen(a, Matched') /\ a.state \in AnnStates
  <2>1. new = ListOf(anns', Matched')  BY <1>2 DEF ById
  <2>2. QED  BY <2>1, ByIdIs DEF Sound
<1>5. /\ \A a \in anns : \E b \in anns' : b.id = a.id /\ b.iri = a.iri
      /\ \A b \in anns' : \E a \in anns : b.id = a.id
  <2> DEFINE plain(a) == [id |-> a.id, span |-> a.span, text |-> a.text, iri |-> a.iri]
  <2>1. \A x, y : plain(x) = plain(y) => x.id = y.id /\ x.iri = y.iri  OBVIOUS
  <2>2. Bare(anns) = {plain(a) : a \in anns} /\ Bare(anns') = {plain(a) : a \in anns'}
    BY DEF Bare
  <2> HIDE DEF plain
  <2>3. ASSUME NEW a \in anns  PROVE \E b \in anns' : b.id = a.id /\ b.iri = a.iri
    <3>1. PICK b \in anns' : plain(b) = plain(a)  BY <2>2
    <3>2. QED  BY <2>1, <3>1
  <2>4. ASSUME NEW b \in anns'  PROVE \E a \in anns : b.id = a.id
    <3>1. PICK a \in anns : plain(b) = plain(a)  BY <2>2
    <3>2. QED  BY <2>1, <3>1
  <2>5. QED  BY <2>3, <2>4
<1>6. Ids(anns') = Ids(anns)  BY <1>5 DEF Ids
<1>7. ASSUME NEW i \in Review!In(old)
      PROVE  \E state \in Review!States : new[i] = [old[i] EXCEPT !.state = state]
  <2>1. PICK a \in anns : a.id = i  BY <1>3 DEF Ids
  <2>2. PICK b \in anns' : b.id = i /\ b.iri = a.iri  BY <1>5, <2>1
  <2>3. old[i] = Seen(a, Matched)  BY <1>3, <2>1
  <2>4. new[i] = Seen(b, Matched') /\ b.state \in AnnStates  BY <1>4, <2>2
  <2>5. Seen(b, Matched') = [Seen(a, Matched) EXCEPT !.state = b.state]
    <3>1. PICK list : list = <<[iri |-> a.iri, state |-> "preliminary"]>>  OBVIOUS
    <3>2. Seen(a, Matched) = [state |-> a.state, dismissed |-> FALSE, events |-> 0,
                              concepts |-> list]
      BY <3>1 DEF Seen
    <3>3. Seen(b, Matched') = [state |-> b.state, dismissed |-> FALSE, events |-> 0,
                               concepts |-> list]
      BY <2>2, <3>1 DEF Seen
    <3>4. QED  BY <3>2, <3>3, StateChanged
  <2>6. QED  BY <2>3, <2>4, <2>5 DEF AnnStates, Review!States
<1>8. Review!Stage("reconcile", "match", ById')
  <2>1. born' = born \cup Review!In(ById')  BY <1>2, <1>4
  <2>2. QED  BY <2>1, StageIs
<1>9. QED  BY <1>1, <1>2, <1>3, <1>4, <1>6, <1>7, <1>8 DEF Settles

LEMMA ReplacesIs ==
  ASSUME Sound(anns), Sound(anns'), ~Matched, Matched', Phase = "match",
         Phase' = "link", born' = born \cup Ids(anns'),
         \A a \in anns' :
           \/ a.state = "confirmed" /\ a.iri \in Iris /\ (a.id \in Ids(anns) \/ a.id \notin born)
           \/ a.state = "rejected" /\ a \in anns
  PROVE  Replaces
<1>1. PICK old : old = ById  OBVIOUS
<1>2. PICK new : new = ById'  OBVIOUS
<1>3. /\ Review!In(old) = Ids(anns)
      /\ \A a \in anns : old[a.id] = Seen(a, Matched)
  BY <1>1, ByIdIs DEF ById, Sound
<1>4. /\ Review!In(new) = Ids(anns')
      /\ \A a \in anns' : new[a.id] = Seen(a, Matched')
  <2>1. PICK m : m = Matched'  OBVIOUS
  <2>2. new = ListOf(anns', m)  BY <1>2, <2>1 DEF ById
  <2>3. /\ Review!In(new) = Ids(anns')
        /\ \A a \in anns' : new[a.id] = Seen(a, m)
    BY <2>2, ByIdIs DEF Sound
  <2>4. QED  BY <2>1, <2>3
<1>5. ASSUME NEW i \in Review!In(new)
      PROVE  \/ /\ i \in Review!In(old) \/ i \notin born
                /\ \E c \in Iris : new[i] = Review!Matched(<<c>>)
             \/ i \in Review!In(old) /\ old[i].state = "rejected" /\ new[i] = old[i]
  <2>1. PICK a \in anns' : a.id = i  BY <1>4 DEF Ids
  <2>2. new[i] = Seen(a, Matched')  BY <1>4, <2>1
  <2>3. CASE a.state = "confirmed" /\ a.iri \in Iris /\ (a.id \in Ids(anns) \/ a.id \notin born)
    <3>1. Seen(a, Matched') = Review!Matched(<<a.iri>>)
      <4>1. PICK c : c = a.iri  OBVIOUS
      <4>2. Review!ConceptList(<<c>>) = <<[iri |-> c, state |-> "confirmed"]>>
        BY DEF Review!ConceptList
      <4>3. QED  BY <2>3, <4>1, <4>2 DEF Seen, Review!Matched
    <3>2. QED  BY <1>3, <2>1, <2>2, <2>3, <3>1
  <2>4. CASE a.state = "rejected" /\ a \in anns
    <3>1. old[i] = Seen(a, Matched)  BY <1>3, <2>1, <2>4
    <3>2. Seen(a, Matched') = Seen(a, Matched) /\ Seen(a, Matched).state = "rejected"
      BY <2>4 DEF Seen
    <3>3. i \in Review!In(old)  BY <1>3, <2>1, <2>4 DEF Ids
    <3>4. QED  BY <2>2, <3>1, <3>2, <3>3
  <2>5. QED  BY <2>3, <2>4
<1>6. Review!Stage("match", "link", ById')
  <2>1. born' = born \cup Review!In(ById')  BY <1>2, <1>4
  <2>2. QED  BY <2>1, StageIs
<1>7. QED  BY <1>1, <1>2, <1>5, <1>6 DEF Replaces

(* Branches end once, and the pipeline does not go back.                      *)
LEMMA Onwards ==
  ASSUME BranchesInOrder, [Next]_vars
  PROVE  /\ "ruler" \in todo' => "ruler" \in todo
         /\ {"ruler", "semantic"} \cap todo' # {} => {"ruler", "semantic"} \cap todo # {}
         /\ pc' = "extract" => pc = "extract"
         /\ Unmatched' => Unmatched /\ ("match" \in skipped' => "match" \in skipped)
<1>1. ~Unmatched => ~Unmatched'  BY MatchesOnce
<1>2. CASE Extract
  <2>1. PICK b \in todo \cup {"merge"} :
          \/ pc = "extract" /\ todo' = todo
          \/ todo' \subseteq (todo \ {b}) \cup {"propositions"}
          \/ b = "ruler" /\ todo' = (todo \ {b}) \cup {"semantic"}
    <3>1. CASE Ruler  BY <3>1 DEF Ruler, Ends
    <3>2. CASE Merge  BY <3>2 DEF Merge
    <3>3. CASE Semantic \/ Llm \/ Individuals \/ Propositions \/ Properties \/ Triples
      BY <3>3 DEF Semantic, Llm, Individuals, Propositions, Properties, Triples, Ends
    <3>4. CASE BranchFails
      <4>1. PICK b \in todo : Ends(b, IF b = "individuals" THEN {"propositions"} ELSE {})
        BY <3>4 DEF BranchFails
      <4>2. todo' \subseteq (todo \ {b}) \cup {"propositions"}  BY <4>1 DEF Ends
      <4>3. QED  BY <4>2
    <3>5. QED  BY <1>2, <3>1, <3>2, <3>3, <3>4 DEF Extract
  <2>2. pc = "extract"
    BY <1>2, ExtractIs DEF Extract, Ruler, Semantic, Llm, Individuals, Propositions, Properties,
                           Triples, BranchFails, Merge, Ends
  <2>3. /\ "ruler" \in todo' => "ruler" \in todo
        /\ {"ruler", "semantic"} \cap todo' # {} => {"ruler", "semantic"} \cap todo # {}
    BY <2>1
  <2>4. skipped' = skipped
    BY <1>2 DEF Extract, Ruler, Semantic, Llm, Individuals, Propositions, Properties,
                Triples, BranchFails, Merge, Ends
  <2>5. QED  BY <1>1, <2>2, <2>3, <2>4
<1>3. CASE \/ Reconcile \/ ResolveConcepts \/ Judge \/ MatchStrings \/ LinkIndividuals
           \/ LinkProperties \/ EnrichTriples \/ StageFails
  <2>1. pc \in Stages /\ pc' = After[pc] /\ todo' = todo /\ skipped' \in {skipped, skipped \cup {pc}}
    BY <1>3 DEF Reconcile, ResolveConcepts, Judge, MatchStrings, LinkIndividuals,
                LinkProperties, EnrichTriples, StageFails, Stage, Stages, After
  <2>2. pc' # "extract"  BY <2>1 DEF Stages, After
  <2>3. Unmatched' => pc # "match"  BY <2>1 DEF Unmatched, Stages, After
  <2>4. QED  BY <1>1, <2>1, <2>2, <2>3
<1>4. CASE UNCHANGED vars  BY <1>1, <1>4 DEF vars
<1>5. QED  BY <1>2, <1>3, <1>4 DEF Next

(* The ids given stay what they were, when the new ones and what the LLM has  *)
(* found are as they should be.                                               *)
LEMMA GivenKept ==
  ASSUME JobInv, [Next]_vars, born' = born \cup Ids(anns'),
         \A i \in Ids(anns') : i \notin born =>
           /\ Unmatched' => i[1] # "match"
           /\ pc' = "extract" => i[1] # "llm"
           /\ "ruler" \in todo' => i[1] # "ruler"
           /\ {"ruler", "semantic"} \cap todo' # {} => i[1] # "semantic",
         \A a \in found' : a.id[1] = "llm" /\ a.state = "preliminary"
  PROVE  IdsGiven'
<1>1. AnnIds' = AnnIds  BY DEF AnnIds
<1>2. Ids(anns') \subseteq AnnIds
  <2>1. Sound(anns')  BY BothSound DEF JobInv
  <2>2. QED  BY <2>1, ByIdIs DEF Sound
<1>3. Ids(anns') \subseteq born' /\ born' \subseteq AnnIds  BY <1>2 DEF JobInv, IdsGiven
<1>4. ASSUME NEW i \in born'
      PROVE  /\ Unmatched' => i[1] # "match"
             /\ pc' = "extract" => i[1] # "llm"
             /\ "ruler" \in todo' => i[1] # "ruler"
             /\ {"ruler", "semantic"} \cap todo' # {} => i[1] # "semantic"
  <2>1. CASE i \in born
    <3>1. /\ "ruler" \in todo' => "ruler" \in todo
          /\ {"ruler", "semantic"} \cap todo' # {} => {"ruler", "semantic"} \cap todo # {}
          /\ pc' = "extract" => pc = "extract"
          /\ Unmatched' => Unmatched
      BY Onwards DEF JobInv, EnrichInv
    <3>2. QED  BY <2>1, <3>1 DEF JobInv, IdsGiven
  <2>2. CASE i \notin born  BY <2>2
  <2>3. QED  BY <2>1, <2>2
<1>5. Unmatched' => "match" \notin skipped'
  BY Onwards DEF JobInv, EnrichInv, IdsGiven
<1>6. QED  BY <1>1, <1>3, <1>4, <1>5 DEF IdsGiven

LEMMA JobStep ==
  ASSUME JobInv, [JobNext]_job_vars
  PROVE  JobInv' /\ (StageAsReviewed \/ UNCHANGED job_vars)
<1>1. [Next]_vars  BY DEF JobNext, job_vars
<1>2. EnrichInv' /\ Sound(anns) /\ Sound(anns')  BY <1>1, BothSound DEF JobInv
<1>3. BranchesInOrder /\ Spans(doc.text) /\ doc \in Docs
  BY DocIs DEF JobInv, EnrichInv, BranchesInOrder
<1>4. SUFFICES ASSUME Next, born' = born \cup Ids(anns')
               PROVE  IdsGiven' /\ StageAsReviewed
  <2>1. CASE UNCHANGED job_vars
    <3>1. IdsGiven'  BY <2>1 DEF JobInv, IdsGiven, job_vars, vars, concepts, Unmatched, AnnIds
    <3>2. QED  BY <1>2, <2>1, <3>1 DEF JobInv
  <2>2. CASE JobNext  BY <1>2, <2>2 DEF JobInv, JobNext
  <2>3. QED  BY <2>1, <2>2
<1>5. CASE Ruler
  <2>1. /\ pc = "extract" /\ pc' = "extract" /\ anns' = RulerAnnotations(doc.text)
        /\ found' = found /\ "ruler" \in todo /\ todo' = (todo \ {"ruler"}) \cup {"semantic"}
    BY <1>3, <1>5 DEF Ruler, Ends, BranchesInOrder
  <2>2. ASSUME NEW a \in anns'
        PROVE  a.id[1] = "ruler" /\ a.state = "preliminary" /\ a.id \notin born
    <3>1. PICK s \in RulerMatches(doc.text) :
            a = Tagged("ruler", s, Winner[s.text], "preliminary")
      BY <2>1 DEF RulerAnnotations
    <3>2. a.id[1] = "ruler" /\ a.state = "preliminary"  BY <3>1 DEF Tagged
    <3>3. QED  BY <2>1, <3>2 DEF JobInv, IdsGiven
  <2>3. \A i \in Ids(anns') : i[1] = "ruler"  BY <2>2 DEF Ids
  <2>4. \A a \in found' : a.id[1] = "llm" /\ a.state = "preliminary"
    BY <2>1 DEF JobInv, IdsGiven
  <2>5. "ruler" \notin todo'  BY <2>1
  <2>6. IdsGiven'  BY <1>1, <1>4, <2>3, <2>4, <2>5, GivenKept
  <2>7. ~Matched /\ ~Matched' /\ Phase = "extract" /\ Phase' \in {"extract", "reconcile"}
    BY <2>1 DEF Matched, Unmatched, Phase
  <2>8. Finds  BY <1>2, <1>4, <2>2, <2>7, FindsIs
  <2>9. QED  BY <2>6, <2>8 DEF StageAsReviewed
<1>6. CASE Semantic
  <2>1. /\ pc = "extract" /\ pc' = "extract" /\ anns' = SemanticAnnotations(anns, Near)
        /\ found' = found /\ "semantic" \in todo /\ todo' = todo \ {"semantic"}
        /\ "ruler" \notin todo
    BY <1>3, <1>6 DEF Semantic, Ends, BranchesInOrder
  <2>2. ASSUME NEW a \in anns', a \notin anns
        PROVE  a.id[1] = "semantic" /\ a.state = "preliminary" /\ a.id \notin born
    <3>1. PICK s \in DOMAIN Near : a = Tagged("semantic", s, Near[s], "preliminary")
      BY <2>1, <2>2 DEF SemanticAnnotations
    <3>2. a.id[1] = "semantic" /\ a.state = "preliminary"  BY <3>1 DEF Tagged
    <3>3. QED  BY <2>1, <3>2 DEF JobInv, IdsGiven
  <2>3. ASSUME NEW i \in Ids(anns'), i \notin born  PROVE i[1] = "semantic"
    <3>1. PICK a \in anns' : a.id = i  BY DEF Ids
    <3>2. a \notin anns  BY <2>3, <3>1 DEF Ids, JobInv, IdsGiven
    <3>3. QED  BY <2>2, <3>1, <3>2
  <2>4. \A a \in found' : a.id[1] = "llm" /\ a.state = "preliminary"
    BY <2>1 DEF JobInv, IdsGiven
  <2>5. "ruler" \notin todo' /\ "semantic" \notin todo'  BY <2>1
  <2>6. IdsGiven'  BY <1>1, <1>4, <2>3, <2>4, <2>5, GivenKept
  <2>7. ~Matched /\ ~Matched' /\ Phase = "extract" /\ Phase' \in {"extract", "reconcile"}
    BY <2>1 DEF Matched, Unmatched, Phase
  <2>8. Finds  BY <1>2, <1>4, <2>2, <2>7, FindsIs
  <2>9. QED  BY <2>6, <2>8 DEF StageAsReviewed
<1>7. CASE Merge
  <2>1. /\ pc = "extract" /\ pc' = "reconcile" /\ anns' = MergePreliminary(anns, found)
        /\ found' = {} /\ todo' = todo /\ todo = {}
    BY <1>7 DEF Merge
  <2>2. ASSUME NEW a \in anns', a \notin anns
        PROVE  a.id[1] = "llm" /\ a.state = "preliminary" /\ a.id \notin born
    <3>1. a \in found  BY <2>1, <2>2 DEF MergePreliminary
    <3>2. a.id[1] = "llm" /\ a.state = "preliminary"  BY <3>1 DEF JobInv, IdsGiven
    <3>3. QED  BY <2>1, <3>2 DEF JobInv, IdsGiven
  <2>3. ASSUME NEW i \in Ids(anns'), i \notin born  PROVE i[1] = "llm"
    <3>1. PICK a \in anns' : a.id = i  BY DEF Ids
    <3>2. a \notin anns  BY <2>3, <3>1 DEF Ids, JobInv, IdsGiven
    <3>3. QED  BY <2>2, <3>1, <3>2
  <2>4. IdsGiven'  BY <1>1, <1>4, <2>1, <2>3, GivenKept
  <2>5. ~Matched /\ ~Matched' /\ Phase = "extract" /\ Phase' \in {"extract", "reconcile"}
    BY <2>1 DEF Matched, Unmatched, Phase
  <2>6. Finds  BY <1>2, <1>4, <2>2, <2>5, FindsIs
  <2>7. QED  BY <2>4, <2>6 DEF StageAsReviewed
<1>8. CASE Reconcile
  <2>1. PICK category, verbs : anns' = Mistagged(Triaged(anns, category, said), verbs)
    BY <1>8 DEF Reconcile
  <2>2. pc = "reconcile" /\ pc' = "resolve" /\ found' = found
    BY <1>8 DEF Reconcile, Stage, After
  <2>3. ~Matched /\ ~Matched' /\ Unmatched /\ Phase = "reconcile" /\ Phase' = "match"
    BY <2>2 DEF Matched, Unmatched, Phase
  <2>4. Fresh(anns, doc.text)  BY <2>3 DEF JobInv, EnrichInv, AnnotationsFresh
  <2>5. Ids(anns') = Ids(anns) /\ Bare(anns') = Bare(anns)  BY <2>1, <2>4, TriagedFresh
  <2>6. \A i \in Ids(anns') : i \in born  BY <2>5 DEF JobInv, IdsGiven
  <2>7. \A a \in found' : a.id[1] = "llm" /\ a.state = "preliminary"
    BY <2>2 DEF JobInv, IdsGiven
  <2>8. IdsGiven'  BY <1>1, <1>4, <2>6, <2>7, GivenKept
  <2>9. Settles  BY <1>2, <1>4, <2>3, <2>5, SettlesIs
  <2>10. QED  BY <2>8, <2>9 DEF StageAsReviewed
<1>9. CASE MatchStrings /\ resolved # <<>>
  <2>1. /\ pc = "match" /\ pc' = "link" /\ UNCHANGED <<found, resolved, skipped>>
        /\ Unmatched /\ ~Unmatched'
    BY <1>9, MatchedFacts DEF JobInv, MatchStrings, Stage, After
  <2>2. \A a \in anns' : /\ \/ HasConcept(a, ConceptsFor(a.span.text, resolved))
                            \/ a.state = "rejected" /\ a \in anns
                         /\ a.id \in Ids(anns) \/ a.id[1] = "match"
    BY <1>9, MatchedFacts DEF JobInv
  <2>3. \A i \in born : i[1] # "match"  BY <2>1 DEF JobInv, IdsGiven
  <2>4. ASSUME NEW i \in Ids(anns'), i \notin born  PROVE i[1] = "match"
    <3>1. PICK a \in anns' : a.id = i  BY DEF Ids
    <3>2. i \notin Ids(anns)  BY <2>4 DEF JobInv, IdsGiven
    <3>3. QED  BY <2>2, <3>1, <3>2
  <2>5. todo' = {} /\ pc' # "extract"
    BY <1>3, <1>9, <2>1 DEF MatchStrings, Stage, BranchesInOrder
  <2>6. \A a \in found' : a.id[1] = "llm" /\ a.state = "preliminary"
    BY <2>1 DEF JobInv, IdsGiven
  <2>7. IdsGiven'  BY <1>1, <1>4, <2>1, <2>4, <2>5, <2>6, GivenKept
  <2>8. Phase = "match" /\ Phase' = "link" /\ ~Matched  BY <2>1 DEF Phase, Matched
  <2>9. "match" \notin skipped  BY <2>1 DEF JobInv, IdsGiven
  <2>10. Matched'  BY <1>9, <2>1, <2>9 DEF Matched
  <2>11. ASSUME NEW a \in anns'
         PROVE  \/ a.state = "confirmed" /\ a.iri \in Iris
                   /\ (a.id \in Ids(anns) \/ a.id \notin born)
                \/ a.state = "rejected" /\ a \in anns
    BY <2>2, <2>3 DEF HasConcept
  <2>12. Replaces  BY <1>2, <1>4, <2>8, <2>10, <2>11, ReplacesIs
  <2>13. QED  BY <2>7, <2>12 DEF StageAsReviewed
<1>10. CASE Llm
  <2>1. PICK texts : found' = LlmAnnotations(doc.text, texts)  BY <1>10 DEF Llm
  <2>2. anns' = anns  BY <1>10 DEF Llm
  <2>3. ASSUME NEW a \in found'  PROVE a.id[1] = "llm" /\ a.state = "preliminary"
    <3>1. PICK s : a = Tagged("llm", s, NoIri, "preliminary")  BY <2>1 DEF LlmAnnotations
    <3>2. QED  BY <3>1 DEF Tagged
  <2>4. born' = born  BY <1>4, <2>2 DEF JobInv, IdsGiven
  <2>5. \A i \in Ids(anns') : i \in born  BY <2>2 DEF JobInv, IdsGiven
  <2>6. IdsGiven'  BY <1>1, <1>4, <2>3, <2>5, GivenKept
  <2>7. ~MatchStrings
    BY <1>3, <1>10, ExtractIs DEF Llm, Ends, MatchStrings, Stage
  <2>8. Leaves  BY <1>1, <2>2, <2>4, <2>7, QuietStep DEF JobInv
  <2>9. QED  BY <2>6, <2>8 DEF StageAsReviewed
<1>11. CASE UNCHANGED <<doc, anns, found>> /\ (MatchStrings => resolved = <<>>)
  <2>1. born' = born  BY <1>4, <1>11 DEF JobInv, IdsGiven
  <2>2. \A i \in Ids(anns') : i \in born  BY <1>11 DEF JobInv, IdsGiven
  <2>3. \A a \in found' : a.id[1] = "llm" /\ a.state = "preliminary"
    BY <1>11 DEF JobInv, IdsGiven
  <2>4. IdsGiven'  BY <1>1, <1>4, <2>2, <2>3, GivenKept
  <2>5. Leaves  BY <1>1, <1>11, <2>1, QuietStep DEF JobInv
  <2>6. QED  BY <2>4, <2>5 DEF StageAsReviewed
<1>12. CASE MatchStrings /\ resolved = <<>>
  <2>1. UNCHANGED <<doc, anns, found>>  BY <1>12 DEF MatchStrings, Stage
  <2>2. QED  BY <1>11, <1>12, <2>1
<1>13. CASE ~MatchStrings /\ UNCHANGED <<doc, anns, found>>  BY <1>11, <1>13
<1>14. QED
  BY <1>1, <1>3, <1>5, <1>6, <1>7, <1>8, <1>9, <1>10, <1>12, <1>13, AnnotationsStep

LEMMA JobInitInv == JobInit => JobInv
<1> SUFFICES ASSUME JobInit  PROVE JobInv  OBVIOUS
<1>1. Init /\ born = {}  BY DEF JobInit
<1>2. anns = {} /\ found = {} /\ skipped = {}  BY <1>1 DEF Init
<1>3. Ids(anns) = {}  BY <1>2 DEF Ids
<1>4. QED  BY <1>1, <1>2, <1>3, InitInv DEF JobInv, IdsGiven

LEMMA JobInvHolds == JobSpec => []JobInv
<1>1. JobInit => JobInv  BY JobInitInv
<1>2. JobInv /\ [JobNext]_job_vars => JobInv'  BY JobStep
<1>3. QED  BY <1>1, <1>2, PTL DEF JobSpec

(* Every step of the stages does to the annotations what AnnotationReview     *)
(* lets a stage of the pipeline do, under ids that were not given before.     *)
THEOREM StagesChangeAsReviewed == JobSpec => StagesAsReviewed
<1>1. JobInv /\ [JobNext]_job_vars => [StageAsReviewed]_job_vars  BY JobStep
<1>2. QED  BY <1>1, JobInvHolds, PTL DEF JobSpec, StagesAsReviewed

-----------------------------------------------------------------------------
(* From what the stages do to AnnotationReview's actions: their choices.      *)
LEMMA ListsById ==
  ASSUME JobInv
  PROVE  /\ Review!In(ById) \subseteq born /\ born \subseteq AnnIds
         /\ ById = [i \in AnnIds |-> ById[i]] /\ ById' = [i \in AnnIds |-> ById'[i]]
         /\ Copy.anns = ById
<1>1. Review!In(ById) = Ids(anns)
  <2>1. Sound(anns)  BY AnnsSound DEF JobInv
  <2>2. QED  BY <2>1, ByIdIs DEF ById, Sound
<1>2. ById = [i \in AnnIds |-> ById[i]]  BY DEF ById, ListOf
<1>3. ById' = [i \in AnnIds |-> ById'[i]]
  <2>1. PICK new : new = ListOf(anns', Matched')  OBVIOUS
  <2>2. new = [i \in AnnIds |-> new[i]]  BY <2>1 DEF ListOf
  <2>3. ById' = new  BY <2>1 DEF ById
  <2>4. QED  BY <2>2, <2>3
<1>4. QED  BY <1>1, <1>2, <1>3 DEF JobInv, IdsGiven, Copy

LEMMA FindsImplements ==
  ASSUME JobInv, Finds
  PROVE  Review!Run
<1>1. PICK old : old = ById  OBVIOUS
<1>2. PICK new : new = ById'  OBVIOUS
<1>3. PICK to \in {"extract", "reconcile"} : Review!Stage("extract", to, new)
  BY <1>2 DEF Finds
<1>4. \A i \in Review!In(new) :
        \/ new[i] = old[i]
        \/ i \notin born /\ \E c \in Iris \cup {NoIri} : new[i] = Review!Preliminary(c)
  BY <1>1, <1>2 DEF Finds
<1>5. /\ Review!In(old) \subseteq born /\ born \subseteq AnnIds
      /\ new = [i \in AnnIds |-> new[i]] /\ Copy.anns = old
  BY <1>1, <1>2, ListsById
<1>6. /\ \A i \in AnnIds : i \notin Review!In(old) <=> old[i] = Missing
      /\ \A i \in AnnIds : i \notin Review!In(new) <=> new[i] = Missing
      /\ Review!In(old) \subseteq AnnIds /\ Review!In(new) \subseteq AnnIds
  BY DEF Review!In
<1> DEFINE fresh == {i \in Review!In(new) : i \notin born}
           dropped == Review!In(old) \ Review!In(new)
           iri == [i \in fresh |-> CHOOSE c \in Iris \cup {NoIri} : new[i] = Review!Preliminary(c)]
<1>7. \A i \in fresh : \E c \in Iris \cup {NoIri} : new[i] = Review!Preliminary(c)
  BY <1>4, <1>5, <1>6
<1>8. iri \in [fresh -> Iris \cup {NoIri}] /\ \A i \in fresh : new[i] = Review!Preliminary(iri[i])
  BY <1>7
<1>9. dropped \in SUBSET Review!In(Copy.anns) /\ fresh \in SUBSET (AnnIds \ born)
  BY <1>5, <1>6
<1>10. \A i \in AnnIds : new[i] = IF i \in fresh THEN Review!Preliminary(iri[i])
                                  ELSE IF i \in dropped THEN Missing ELSE old[i]
  <2> TAKE i \in AnnIds
  <2>1. CASE i \in fresh  BY <1>8, <2>1
  <2>2. CASE i \in dropped  BY <1>6, <2>2
  <2>3. CASE i \notin fresh /\ i \notin dropped /\ i \in Review!In(new)
    BY <1>4, <2>3
  <2>4. CASE i \notin fresh /\ i \notin dropped /\ i \notin Review!In(new)
    BY <1>6, <2>4
  <2>5. QED  BY <2>1, <2>2, <2>3, <2>4
<1>11. new = [i \in AnnIds |-> IF i \in fresh THEN Review!Preliminary(iri[i])
                               ELSE IF i \in dropped THEN Missing ELSE Copy.anns[i]]
  BY <1>5, <1>10
<1> HIDE DEF fresh, dropped, iri
<1>12. Review!Extract(to)  BY <1>3, <1>8, <1>9, <1>11 DEF Review!Extract
<1>13. QED  BY <1>12 DEF Review!Run

LEMMA ReconcileIs ==
  ASSUME NEW list, list = Copy.anns, NEW new, Review!Stage("reconcile", "match", new),
         NEW states \in [Review!In(list) -> Review!States],
         new = [i \in AnnIds |-> IF i \in Review!In(list)
                                 THEN [list[i] EXCEPT !.state = states[i]] ELSE Missing]
  PROVE  Review!Reconcile
<1> DEFINE Made(s) == [i \in AnnIds |-> IF i \in Review!In(Copy.anns)
                                        THEN [Copy.anns[i] EXCEPT !.state = s[i]] ELSE Missing]
<1>1. new = Made(states)  OBVIOUS
<1>2. SUFFICES \E s \in [Review!In(Copy.anns) -> Review!States] :
                 Review!Stage("reconcile", "match", Made(s))
  BY DEF Review!Reconcile
<1> HIDE DEF Made
<1>3. QED  BY <1>1

LEMMA SettlesImplements ==
  ASSUME JobInv, Settles
  PROVE  Review!Run
<1>1. PICK old : old = ById  OBVIOUS
<1>2. PICK new : new = ById'  OBVIOUS
<1>3. /\ Review!Stage("reconcile", "match", new) /\ Review!In(new) = Review!In(old)
      /\ \A i \in Review!In(old) :
           \E state \in Review!States : new[i] = [old[i] EXCEPT !.state = state]
  BY <1>1, <1>2 DEF Settles
<1>4. new = [i \in AnnIds |-> new[i]] /\ Copy.anns = old
  BY <1>1, <1>2, ListsById
<1>5. \A i \in AnnIds : i \notin Review!In(new) => new[i] = Missing
  BY DEF Review!In
<1> DEFINE states == [i \in Review!In(old) |->
                        CHOOSE s \in Review!States : new[i] = [old[i] EXCEPT !.state = s]]
<1>6. states \in [Review!In(old) -> Review!States]
      /\ \A i \in Review!In(old) : new[i] = [old[i] EXCEPT !.state = states[i]]
  BY <1>3
<1>7. new = [i \in AnnIds |-> IF i \in Review!In(old)
                              THEN [old[i] EXCEPT !.state = states[i]] ELSE Missing]
  BY <1>3, <1>4, <1>5, <1>6
<1> HIDE DEF states
<1>8. Review!Reconcile  BY <1>3, <1>4, <1>6, <1>7, ReconcileIs
<1>9. QED  BY <1>8 DEF Review!Run

LEMMA ReplacesImplements ==
  ASSUME JobInv, Replaces
  PROVE  Review!Run
<1>1. PICK old : old = ById  OBVIOUS
<1>2. PICK new : new = ById'  OBVIOUS
<1>3. /\ Review!Stage("match", "link", new)
      /\ \A i \in Review!In(new) :
           \/ /\ i \in Review!In(old) \/ i \notin born
              /\ \E c \in Iris : new[i] = Review!Matched(<<c>>)
           \/ i \in Review!In(old) /\ old[i].state = "rejected" /\ new[i] = old[i]
  BY <1>1, <1>2 DEF Replaces
<1>4. new = [i \in AnnIds |-> new[i]] /\ Copy.anns = old
  BY <1>1, <1>2, ListsById
<1>5. /\ \A i \in AnnIds : i \notin Review!In(new) => new[i] = Missing
      /\ Review!In(old) \subseteq AnnIds /\ Review!In(new) \subseteq AnnIds
  BY DEF Review!In
<1> DEFINE confirmed == {i \in Review!In(new) : \E c \in Iris : new[i] = Review!Matched(<<c>>)
                                                  /\ (i \in Review!In(old) \/ i \notin born)}
           absorbed == Review!In(old) \ Review!In(new)
           matched == confirmed \cup absorbed
           rejected == {i \in Review!In(old) : old[i].state = "rejected"}
           with == {<<c>> : c \in Iris}
           r == [i \in confirmed |-> CHOOSE x \in with : new[i] = Review!Matched(x)]
<1>6. matched \in SUBSET (Review!In(old) \cup (AnnIds \ born)) /\ absorbed \in SUBSET matched
      /\ matched \ absorbed = confirmed
  BY <1>5
<1>7. r \in [confirmed -> with] /\ \A i \in confirmed : new[i] = Review!Matched(r[i])
  <2>1. \A i \in confirmed : \E x \in with : new[i] = Review!Matched(x)  OBVIOUS
  <2>2. QED  BY <2>1
<1>8. \A i \in AnnIds : new[i] = IF i \in confirmed THEN Review!Matched(r[i])
                                 ELSE IF i \in rejected \ matched THEN old[i] ELSE Missing
  <2> TAKE i \in AnnIds
  <2>1. CASE i \in confirmed  BY <1>7, <2>1
  <2>2. CASE i \notin confirmed /\ i \in Review!In(new)
    <3>1. i \in rejected /\ new[i] = old[i]  BY <1>3, <2>2
    <3>2. QED  BY <2>2, <3>1
  <2>3. CASE i \notin confirmed /\ i \notin Review!In(new)
    <3>1. i \in Review!In(old) => i \in matched  BY <2>3
    <3>2. QED  BY <1>5, <2>3, <3>1
  <2>4. QED  BY <2>1, <2>2, <2>3
<1>9. new = [i \in AnnIds |-> IF i \in matched \ absorbed THEN Review!Matched(r[i])
                              ELSE IF i \in rejected \ matched THEN old[i] ELSE Missing]
  BY <1>4, <1>6, <1>8
<1>10. r \in [matched \ absorbed -> with]  BY <1>6, <1>7
<1>11. Review!MatchSpans
  <2> DEFINE kept == {i \in Review!In(Copy.anns) : Copy.anns[i].state = "rejected"}
             Made(m, b, q) == [i \in AnnIds |-> IF i \in m \ b THEN Review!Matched(q[i])
                                  ELSE IF i \in kept \ m THEN Copy.anns[i] ELSE Missing]
  <2>1. kept = rejected  BY <1>4
  <2>2. new = Made(matched, absorbed, r)  BY <1>4, <1>9, <2>1
  <2>3. matched \in SUBSET (Review!In(Copy.anns) \cup (AnnIds \ born))  BY <1>4, <1>6
  <2>4. SUFFICES \E m \in SUBSET (Review!In(Copy.anns) \cup (AnnIds \ born)) :
                   \E b \in SUBSET m : \E q \in [m \ b -> with] :
                     Review!Stage("match", "link", Made(m, b, q))
    BY DEF Review!MatchSpans
  <2> HIDE DEF matched, absorbed, confirmed, r, rejected, with, Made
  <2>5. absorbed \in SUBSET matched  BY <1>6
  <2>6. Review!Stage("match", "link", Made(matched, absorbed, r))  BY <1>3, <2>2
  <2>7. QED  BY <1>10, <2>3, <2>5, <2>6
<1>12. QED  BY <1>11 DEF Review!Run

LEMMA LeavesImplements ==
  ASSUME JobInv, Leaves
  PROVE  Review!Run \/ UNCHANGED Review!vars
<1>1. ById' = ById /\ born' = born /\ Copy' = Copy
  BY DEF Leaves, ById, Copy
<1>2. /\ NoEntries' = NoEntries /\ NoEdits' = NoEdits /\ NotTold' = NotTold
      /\ NotShown' = NotShown
  BY DEF NoEntries, NoEdits, NotTold, NotShown, AnnIds, Missing
<1>3. CASE Phase' = Phase  BY <1>1, <1>2, <1>3 DEF Review!vars
<1>4. ASSUME NEW from, NEW to, Phase = from, Phase' = to
      PROVE  Review!Stage(from, to, ById)
  <2>1. born' = born \cup Review!In(ById')  BY <1>1, ListsById
  <2>2. Review!Stage(from, to, ById')  BY <1>4, <2>1, StageIs
  <2>3. QED  BY <1>1, <2>2
<1>5. ById = [i \in AnnIds |-> ById[i]] /\ Copy.anns = ById  BY ListsById
<1>6. CASE Phase = "extract" /\ Phase' = "reconcile"
  <2> DEFINE none == [i \in {} |-> NoIri]
  <2>1. none \in [{} -> Iris \cup {NoIri}]  OBVIOUS
  <2>2. ById = [i \in AnnIds |-> IF i \in {} THEN Review!Preliminary(none[i])
                                 ELSE IF i \in {} THEN Missing ELSE Copy.anns[i]]
    BY <1>5
  <2>3. Review!Stage("extract", "reconcile", ById)  BY <1>4, <1>6
  <2>4. {} \in SUBSET Review!In(Copy.anns) /\ {} \in SUBSET (AnnIds \ born)  OBVIOUS
  <2> HIDE DEF none
  <2>5. Review!Extract("reconcile")  BY <2>1, <2>2, <2>3, <2>4 DEF Review!Extract
  <2>6. QED  BY <2>5 DEF Review!Run
<1>7. CASE Phase = "reconcile" /\ Phase' = "match"
  <2>1. PICK old : old = ById  OBVIOUS
  <2> DEFINE states == [i \in Review!In(old) |-> old[i].state]
  <2>2. ASSUME NEW i \in Review!In(old)
        PROVE  old[i].state \in Review!States /\ [old[i] EXCEPT !.state = states[i]] = old[i]
    <3>1. Sound(anns)  BY AnnsSound DEF JobInv
    <3>2. /\ Review!In(old) = Ids(anns)
          /\ \A a \in anns : old[a.id] = Seen(a, Matched) /\ a.state \in AnnStates
      BY <2>1, <3>1, ByIdIs DEF ById, Sound
    <3>3. PICK a \in anns : a.id = i  BY <3>2 DEF Ids
    <3>4. PICK list : old[i] = [state |-> a.state, dismissed |-> FALSE, events |-> 0,
                                concepts |-> list]
      BY <3>2, <3>3 DEF Seen
    <3>5. old[i].state = a.state  BY <3>4
    <3>6. [old[i] EXCEPT !.state = a.state] = old[i]  BY <3>4, StateChanged
    <3>7. QED  BY <3>2, <3>5, <3>6 DEF AnnStates, Review!States
  <2>3. states \in [Review!In(old) -> Review!States]  BY <2>2
  <2>4. old = [i \in AnnIds |-> IF i \in Review!In(old)
                                THEN [old[i] EXCEPT !.state = states[i]] ELSE Missing]
    <3>1. \A i \in AnnIds : i \notin Review!In(old) => old[i] = Missing  BY DEF Review!In
    <3>2. \A i \in AnnIds : old[i] = IF i \in Review!In(old)
                                   THEN [old[i] EXCEPT !.state = states[i]] ELSE Missing
      BY <2>2, <3>1
    <3>3. old = [i \in AnnIds |-> old[i]]  BY <1>5, <2>1
    <3> HIDE DEF states
    <3>4. QED  BY <3>2, <3>3
  <2>5. Review!Stage("reconcile", "match", old) /\ Copy.anns = old
    BY <1>4, <1>5, <1>7, <2>1
  <2> HIDE DEF states
  <2>6. Review!Reconcile  BY <2>3, <2>4, <2>5, ReconcileIs
  <2>7. QED  BY <2>6 DEF Review!Run
<1>8. CASE Phase = "match" /\ Phase' = "link"
  <2>1. Review!MatchNothing  BY <1>4, <1>5, <1>8 DEF Review!MatchNothing
  <2>2. QED  BY <2>1 DEF Review!Run
<1>9. CASE Phase = "link" /\ Phase' = "complete"
  <2>1. Review!Link("complete")  BY <1>4, <1>5, <1>9 DEF Review!Link
  <2>2. QED  BY <2>1 DEF Review!Run
<1>10. QED  BY <1>3, <1>6, <1>7, <1>8, <1>9 DEF Leaves

LEMMA ReviewInitIs == JobInit => Review!Init
<1> SUFFICES ASSUME JobInit  PROVE Review!Init  OBVIOUS
<1>1. anns = {} /\ pc = "extract" /\ born = {}  BY DEF JobInit, Init
<1>2. Ids(anns) = {}  BY <1>1 DEF Ids
<1>3. ById = [i \in AnnIds |-> Missing]  BY <1>2 DEF ById, ListOf
<1>4. Phase = "extract"  BY <1>1 DEF Phase
<1>5. QED
  BY <1>1, <1>3, <1>4 DEF Review!Init, Review!None, Review!Unknown, Copy, NoEntries, NoEdits,
                          NotTold, NotShown

(* What AnnotationReview assumes of its constants, here.                      *)
LEMMA ReviewAssumptions ==
  /\ 0 \in Nat /\ Iris \cup {NoIri} \subseteq Iris \cup {NoIri}
  /\ \A r \in {<<c>> : c \in Iris} :
       /\ r \in Seq(Iris \cup {NoIri}) /\ r # <<>>
       /\ \A i, j \in DOMAIN r : r[i] = r[j] => i = j
  /\ Missing \notin Review!Annotations
  /\ Missing \notin [state : Review!States, primary : Iris \cup {NoIri}]
  /\ "unknown" \notin Iris \cup {NoIri}
<1>1. ASSUME NEW r \in {<<c>> : c \in Iris}
      PROVE  /\ r \in Seq(Iris \cup {NoIri}) /\ r # <<>>
             /\ \A i, j \in DOMAIN r : r[i] = r[j] => i = j
  <2>1. PICK c \in Iris : r = <<c>>  OBVIOUS
  <2>2. r \in Seq(Iris \cup {NoIri}) /\ r # <<>> /\ DOMAIN r = {1}  BY <2>1
  <2>3. QED  BY <2>2
<1>2. Missing.state \notin Review!States  BY DEF Missing, Review!States
<1>3. Missing \notin Review!Annotations  BY <1>2 DEF Review!Annotations
<1>4. Missing \notin [state : Review!States, primary : Iris \cup {NoIri}]  BY <1>2
<1>5. QED  BY <1>1, <1>3, <1>4, UnknownAssumption

(* The enrichment of a document is a run of AnnotationReview's pipeline in    *)
(* which no user acts and nothing is restarted.                               *)
THEOREM StagesImplementReview == JobSpec => Review!Spec
<1>1. JobInit => Review!Init  BY ReviewInitIs
<1>2. ASSUME JobInv, [JobNext]_job_vars  PROVE [Review!Next]_(Review!vars)
  <2>1. CASE UNCHANGED job_vars
    <3>1. UNCHANGED <<anns, born, pc, skipped, resolved>>  BY <2>1 DEF job_vars, vars, concepts
    <3>2. Matched' = Matched /\ Phase' = Phase  BY <3>1 DEF Matched, Unmatched, Phase
    <3>3. Leaves  BY <3>1, <3>2 DEF Leaves
    <3>4. QED  BY <1>2, <3>3, LeavesImplements DEF Review!Next
  <2>2. CASE StageAsReviewed
    BY <1>2, <2>2, FindsImplements, SettlesImplements, ReplacesImplements, LeavesImplements
    DEF StageAsReviewed, Review!Next
  <2>3. QED  BY <1>2, <2>1, <2>2, JobStep
<1>3. QED  BY <1>1, <1>2, JobInvHolds, PTL DEF JobSpec, Review!Spec

-----------------------------------------------------------------------------
(* The ranking of candidates.  Its lists have each concept once.              *)
Listed(list) == /\ list \in Seq([iri : Entries, score : Nat])
                /\ \A i, j \in DOMAIN list : list[i].iri = list[j].iri => i = j

LEMMA PickedOnce ==
  ASSUME NEW list, Listed(list), NEW places \in SUBSET (DOMAIN list)
  PROVE  /\ Listed(Picked(list, places))
         /\ \A k \in DOMAIN Picked(list, places) : \E i \in places : Picked(list, places)[k] = list[i]
         /\ places # {} => Picked(list, places) # <<>>
<1> DEFINE D == [iri : Entries, score : Nat]
<1>1. list \in Seq(D)  BY DEF Listed
<1> HIDE DEF D
<1>2. PICK order \in Seq(places) :
        /\ Len(order) = Cardinality(places) /\ Cardinality(places) \in Nat
        /\ \A i, j \in DOMAIN order : order[i] = order[j] => i = j
        /\ Picked(list, places) = [k \in 1..Cardinality(places) |-> list[order[k]]]
        /\ places = DOMAIN list => Picked(list, places) = list
        /\ 1 \in places => Cardinality(places) > 0 /\ Picked(list, places)[1] = list[1]
  BY <1>1, PickedIs
<1>3. PICK size \in Nat : size = Cardinality(places)  BY <1>2
<1>4. PICK picked : picked = Picked(list, places)  OBVIOUS
<1>5. DOMAIN order = 1..size /\ \A k \in 1..size : order[k] \in places  BY <1>2, <1>3
<1>6. picked = [k \in 1..size |-> list[order[k]]]  BY <1>2, <1>3, <1>4
<1>7. \A k \in 1..size : order[k] \in DOMAIN list /\ list[order[k]] \in D  BY <1>1, <1>5
<1>8. picked \in Seq(D)
  <2>1. picked \in [1..size -> D]  BY <1>6, <1>7
  <2>2. QED  BY <2>1, SeqDef
<1>9. ASSUME NEW i \in DOMAIN picked, NEW j \in DOMAIN picked, picked[i].iri = picked[j].iri
      PROVE  i = j
  <2>1. i \in 1..size /\ j \in 1..size  BY <1>6
  <2>2. order[i] = order[j]  BY <1>6, <1>7, <1>9, <2>1 DEF Listed
  <2>3. QED  BY <1>2, <1>5, <2>1, <2>2
<1>10. ASSUME places # {}  PROVE picked # <<>>
  <2>1. PICK n \in Nat : DOMAIN list = 1..n  BY <1>1
  <2>2. IsFiniteSet(1..n)  BY FS_Interval
  <2>3. IsFiniteSet(places)  BY <2>1, <2>2, FS_Subset
  <2>4. size # 0  BY <1>3, <1>10, <2>3, FS_EmptySet
  <2>5. 1 \in DOMAIN picked  BY <1>6, <2>4
  <2>6. QED  BY <2>5
<1>11. Listed(picked)  BY <1>8, <1>9 DEF Listed, D
<1>12. QED  BY <1>4, <1>5, <1>6, <1>10, <1>11

Apart(a, b) == \A i \in DOMAIN a, j \in DOMAIN b : a[i].iri # b[j].iri

Joins(c, a, b) ==
  /\ Listed(c)
  /\ a = <<>> => c = b
  /\ a # <<>> => c # <<>> /\ c[1] = a[1]
  /\ \A k \in DOMAIN c : \/ \E i \in DOMAIN a : c[k] = a[i]
                        \/ \E j \in DOMAIN b : c[k] = b[j]

LEMMA JoinedOnce ==
  ASSUME NEW a, NEW b, NEW c, c = a \o b, Listed(a), Listed(b), Apart(a, b)
  PROVE  Joins(c, a, b)
<1>1. PICK D : D = [iri : Entries, score : Nat]  OBVIOUS
<1>2. a \in Seq(D) /\ b \in Seq(D)  BY <1>1 DEF Listed
<1>3. PICK m \in Nat, n \in Nat : m = Len(a) /\ n = Len(b)  BY <1>2
<1>5. /\ c \in Seq(D) /\ DOMAIN c = 1..(m + n)
      /\ \A k \in 1..(m + n) : c[k] = IF k <= m THEN a[k] ELSE b[k - m]
  BY <1>2, <1>3
<1>6. DOMAIN a = 1..m /\ DOMAIN b = 1..n  BY <1>2, <1>3
<1>7. \A k \in 1..(m + n) : \/ k \in 1..m /\ c[k] = a[k]
                            \/ k - m \in 1..n /\ c[k] = b[k - m] /\ ~(k <= m)
  BY <1>5
<1>8. ASSUME NEW i \in 1..(m + n), NEW j \in 1..(m + n), c[i].iri = c[j].iri  PROVE i = j
  <2>1. CASE i <= m /\ j <= m  BY <1>6, <1>7, <1>8, <2>1 DEF Listed
  <2>2. CASE ~(i <= m) /\ ~(j <= m)
    <3>0. \A k \in 1..(m + n) : ~(k <= m) => k - m \in DOMAIN b /\ c[k] = b[k - m]
      BY <1>6, <1>7
    <3>1. /\ i - m \in DOMAIN b /\ c[i] = b[i - m]
          /\ j - m \in DOMAIN b /\ c[j] = b[j - m]
      BY <2>2, <3>0
    <3>2. i - m = j - m  BY <1>8, <3>1 DEF Listed
    <3>3. QED  BY <3>2
  <2>3. CASE i <= m /\ ~(j <= m)
    <3>1. i \in DOMAIN a /\ c[i] = a[i] /\ j - m \in DOMAIN b /\ c[j] = b[j - m]
      BY <1>6, <1>7, <2>3
    <3>2. QED  BY <1>8, <3>1 DEF Apart
  <2>4. CASE ~(i <= m) /\ j <= m
    <3>1. j \in DOMAIN a /\ c[j] = a[j] /\ i - m \in DOMAIN b /\ c[i] = b[i - m]
      BY <1>6, <1>7, <2>4
    <3>2. QED  BY <1>8, <3>1 DEF Apart
  <2>5. QED  BY <2>1, <2>2, <2>3, <2>4
<1>9. Listed(c)  BY <1>1, <1>5, <1>8 DEF Listed
<1>10. a = <<>> => c = b  BY <1>2
<1>11. a # <<>> => c # <<>> /\ c[1] = a[1]
  <2>1. SUFFICES ASSUME a # <<>>  PROVE c # <<>> /\ c[1] = a[1]  OBVIOUS
  <2>2. m # 0  BY <1>2, <1>3, <2>1
  <2>3. 1 \in DOMAIN c /\ c[1] = a[1]  BY <1>5, <2>2
  <2>4. QED  BY <2>3
<1>12. \A k \in DOMAIN c : (\E i \in DOMAIN a : c[k] = a[i]) \/ (\E j \in DOMAIN b : c[k] = b[j])
  BY <1>5, <1>6, <1>7
<1>13. QED  BY <1>9, <1>10, <1>11, <1>12 DEF Joins

LEMMA FirstOfOnce ==
  ASSUME NEW list, Listed(list), NEW n \in Nat
  PROVE  /\ Listed(FirstOf(n, list))
         /\ n > 0 /\ list # <<>> => FirstOf(n, list) # <<>> /\ FirstOf(n, list)[1] = list[1]
         /\ \A k \in DOMAIN FirstOf(n, list) : k \in DOMAIN list /\ FirstOf(n, list)[k] = list[k]
<1>1. PICK D : D = [iri : Entries, score : Nat]  OBVIOUS
<1>2. list \in Seq(D)  BY <1>1 DEF Listed
<1>3. PICK m \in Nat : m = Len(list) /\ DOMAIN list = 1..m  BY <1>2
<1>4. PICK l \in Nat : l = Lesser(n, m)  BY DEF Lesser
<1>5. l <= m /\ (n > 0 /\ m > 0 => l > 0)  BY <1>4 DEF Lesser
<1>6. PICK first : first = FirstOf(n, list)  OBVIOUS
<1>7. first = [k \in 1..l |-> list[k]]
  <2>1. first = SubSeq(list, 1, l)  BY <1>3, <1>4, <1>6 DEF FirstOf
  <2>2. QED  BY <1>2, <1>3, <1>5, <2>1
<1>8. DOMAIN first = 1..l /\ \A k \in 1..l : k \in DOMAIN list /\ first[k] = list[k]
  BY <1>3, <1>5, <1>7
<1>9. first \in Seq(D)
  <2>1. first \in [1..l -> D]  BY <1>2, <1>7, <1>8
  <2>2. QED  BY <2>1, SeqDef
<1>10. Listed(first)  BY <1>1, <1>8, <1>9 DEF Listed
<1>11. ASSUME n > 0, list # <<>>  PROVE first # <<>> /\ first[1] = list[1]
  <2>1. m # 0  BY <1>2, <1>3, <1>11
  <2>2. 1 \in DOMAIN first  BY <1>5, <1>8, <1>11, <2>1
  <2>3. QED  BY <1>8, <2>2
<1>12. QED  BY <1>6, <1>8, <1>10, <1>11

(* What is hinted at comes first, so the first is the best.                   *)
LEMMA HintFirstIs ==
  ASSUME NEW list, Listed(list), NEW hint
  PROVE  LET h == HintFirst(list, hint)
         IN /\ Listed(h) /\ \A k \in DOMAIN h : \E i \in DOMAIN list : h[k] = list[i]
            /\ list # <<>> => h # <<>> /\ h[1] = Best(list, hint) /\ Best(h, hint) = h[1]
<1> DEFINE T == Hinted(list, hint)
           F == DOMAIN list \ T
<1>1. PICK t : t = Picked(list, T)  OBVIOUS
<1>2. PICK f : f = Picked(list, F)  OBVIOUS
<1>3. T \in SUBSET (DOMAIN list) /\ F \in SUBSET (DOMAIN list)  BY DEF Hinted
<1>4. /\ Listed(t) /\ (T # {} => t # <<>>)
      /\ \A k \in DOMAIN t : \E i \in T : t[k] = list[i]
  BY <1>1, <1>3, PickedOnce
<1>5. /\ Listed(f) /\ (F # {} => f # <<>>)
      /\ \A k \in DOMAIN f : \E i \in F : f[k] = list[i]
  BY <1>2, <1>3, PickedOnce
<1>6. PICK h : h = HintFirst(list, hint)  OBVIOUS
<1>7. h = t \o f  BY <1>1, <1>2, <1>6 DEF HintFirst
<1>8. \A i \in T, j \in F : list[i].iri # list[j].iri
  <2> TAKE i \in T, j \in F
  <2>1. i # j /\ i \in DOMAIN list /\ j \in DOMAIN list  BY <1>3
  <2>2. QED  BY <2>1 DEF Listed
<1> HIDE DEF T, F
<1>9. Apart(t, f)  BY <1>4, <1>5, <1>8 DEF Apart
<1>10. /\ Listed(h)
       /\ t = <<>> => h = f
       /\ t # <<>> => h # <<>> /\ h[1] = t[1]
       /\ \A k \in DOMAIN h : \/ \E i \in DOMAIN t : h[k] = t[i]
                             \/ \E j \in DOMAIN f : h[k] = f[j]
  <2>1. Listed(t) /\ Listed(f)  BY <1>4, <1>5
  <2>2. Joins(h, t, f)  BY <1>7, <1>9, <2>1, JoinedOnce
  <2>3. QED  BY <2>2 DEF Joins
<1>11. \A k \in DOMAIN h : \E i \in DOMAIN list : h[k] = list[i]
  BY <1>3, <1>4, <1>5, <1>10
<1>12. list \in Seq([iri : Entries, score : Nat]) /\ h \in Seq([iri : Entries, score : Nat])
  BY <1>10 DEF Listed
<1>13. CASE T # {}
  <2>1. t # <<>> /\ t \in Seq([iri : Entries, score : Nat])  BY <1>4, <1>13 DEF Listed
  <2>2. 1 \in DOMAIN t /\ Head(t) = t[1]  BY <2>1
  <2>3. h # <<>> /\ h[1] = t[1]  BY <1>10, <2>1
  <2>4. h[1] = Best(list, hint)  BY <1>1, <1>13, <2>2, <2>3 DEF Best, T
  <2>5. PICK i \in T : h[1] = list[i]  BY <1>4, <2>2, <2>3
  <2>6. 1 \in DOMAIN h  BY <1>12, <2>3
  <2>7. 1 \in Hinted(h, hint)  BY <2>5, <2>6 DEF Hinted, T
  <2>8. Picked(h, Hinted(h, hint))[1] = h[1]
    <3>1. Hinted(h, hint) \in SUBSET (DOMAIN h)  BY DEF Hinted
    <3>2. QED  BY <1>12, <2>7, <3>1, PickedIs
  <2>9. Picked(h, Hinted(h, hint)) # <<>> /\ Listed(Picked(h, Hinted(h, hint)))
    <3>1. Hinted(h, hint) \in SUBSET (DOMAIN h) /\ Hinted(h, hint) # {}  BY <2>7 DEF Hinted
    <3>2. QED  BY <1>10, <3>1, PickedOnce
  <2>10. Head(Picked(h, Hinted(h, hint))) = Picked(h, Hinted(h, hint))[1]
    BY <2>9 DEF Listed
  <2>11. Best(h, hint) = h[1]  BY <2>7, <2>8, <2>10 DEF Best
  <2>12. QED  BY <1>6, <1>10, <1>11, <2>3, <2>4, <2>11
<1>14. CASE T = {}
  <2>1. t = <<>>
    <3>1. DOMAIN t = {}  BY <1>4, <1>14
    <3>2. t \in Seq([iri : Entries, score : Nat])  BY <1>4 DEF Listed
    <3>3. QED  BY <3>1, <3>2
  <2>2. F = DOMAIN list  BY <1>14 DEF F
  <2>3. f = list  BY <1>2, <1>3, <1>12, <2>2, PickedIs
  <2>4. h = list  BY <1>10, <2>1, <2>3
  <2>5. Hinted(h, hint) = {}  BY <1>14, <2>4 DEF T
  <2>6. Best(list, hint) = Head(list) /\ Best(h, hint) = Head(h)
    BY <1>14, <2>4, <2>5 DEF Best, T
  <2>7. list # <<>> => Head(list) = list[1]  BY <1>12
  <2>8. QED  BY <1>6, <1>10, <1>11, <2>4, <2>6, <2>7
<1>15. QED  BY <1>13, <1>14

LEMMA DecayedIn ==
  ASSUME NEW score \in Nat, NEW depth
  PROVE  Decayed(score, depth) \in Nat
<1>1. \A n \in Nat, d \in Nat \ {0} : n \div d \in Nat  OBVIOUS
<1>2. /\ score * 85 \in Nat /\ score * 7225 \in Nat /\ score * 61412 \in Nat
      /\ 100 \in Nat \ {0} /\ 10000 \in Nat \ {0} /\ 100000 \in Nat \ {0}
  OBVIOUS
<1>3. QED  BY <1>1, <1>2 DEF Decayed

LEMMA CandidatesAre ==
  ASSUME NEW raw, IsFiniteSet(DOMAIN raw), \A i \in DOMAIN raw : raw[i] \in Nat
  PROVE  /\ Candidates(raw) \in SUBSET [iri : Entries, score : Nat]
         /\ IsFiniteSet(Candidates(raw))
         /\ \A c, d \in Candidates(raw) : c.iri = d.iri => c = d
<1> DEFINE best(i) == Max({0} \cup ScoresOf(raw, i))
           image == [i \in Entries |-> [iri |-> i, score |-> best(i)]]
<1>1. ASSUME NEW i \in Entries  PROVE best(i) \in Nat
  <2>1. ScoresOf(raw, i) \in SUBSET Nat /\ IsFiniteSet(ScoresOf(raw, i))
    <3>1. CASE i \in DOMAIN raw
      <4>1. ScoresOf(raw, i) = {raw[i]}  BY <3>1 DEF ScoresOf
      <4>2. IsFiniteSet({raw[i]})  BY FS_Singleton
      <4>3. QED  BY <3>1, <4>1, <4>2
    <3>2. CASE i \notin DOMAIN raw
      <4> DEFINE near == {e \in (DOMAIN raw) \X (1..3) : raw[e[1]] >= 50 /\ Ancestor(e[1], e[2]) = i}
                 decay == [d \in near |-> Decayed(raw[d[1]], d[2])]
      <4>1. ScoresOf(raw, i) = {decay[d] : d \in near}  BY <3>2 DEF ScoresOf
      <4>2. IsFiniteSet((DOMAIN raw) \X (1..3))
        <5>1. 1 \in Int /\ 3 \in Int  OBVIOUS
        <5>2. IsFiniteSet(1..3)  BY <5>1, FS_Interval
        <5>3. QED  BY <5>2, FS_Product
      <4>3. IsFiniteSet(near)  BY <4>2, FS_Subset
      <4>4. \A d \in near : decay[d] \in Nat  BY DecayedIn
      <4>5. DOMAIN decay = near /\ decay = [d \in near |-> decay[d]]  OBVIOUS
      <4> HIDE DEF near, decay
      <4>6. IsFiniteSet({decay[d] : d \in near})  BY <4>3, <4>5, ImageFinite
      <4>7. QED  BY <4>1, <4>4, <4>6
    <3>3. QED  BY <3>1, <3>2
  <2>2. PICK s : s = {0} \cup ScoresOf(raw, i)  OBVIOUS
  <2>3. s \in SUBSET Nat /\ IsFiniteSet(s) /\ s # {}
    <3>1. IsFiniteSet({0})  BY FS_Singleton
    <3>2. IsFiniteSet({0} \cup ScoresOf(raw, i))  BY <2>1, <3>1, FS_Union
    <3>3. QED  BY <2>1, <2>2, <3>2
  <2>4. Max(s) \in s  BY <2>3, GreatestIs
  <2>5. QED  BY <2>2, <2>3, <2>4
<1>2. image \in [Entries -> [iri : Entries, score : Nat]]  BY <1>1
<1>3. Candidates(raw) = {c \in {image[i] : i \in Entries} : c.score >= 30}  BY DEF Candidates
<1>4. \A i \in Entries : image[i].iri = i  OBVIOUS
<1>5. DOMAIN image = Entries /\ image = [i \in Entries |-> image[i]]  OBVIOUS
<1>6. IsFiniteSet(Entries)  BY RankingAssumption
<1> HIDE DEF image
<1>7. IsFiniteSet({image[i] : i \in Entries})  BY <1>5, <1>6, ImageFinite
<1>8. IsFiniteSet(Candidates(raw))  BY <1>3, <1>7, FS_Subset
<1>9. QED  BY <1>2, <1>3, <1>4, <1>8

LEMMA SearchedOnce ==
  ASSUME NEW raw, DOMAIN raw \in SUBSET Entries, \A i \in DOMAIN raw : raw[i] \in Nat, NEW n \in Nat
  PROVE  Listed(Searched(raw, n))
<1> DEFINE passed == {c \in Candidates(raw) : Passes(c.iri)}
           R == {p \in passed \X passed : Better(raw, p[1], p[2])}
<1>1. IsFiniteSet(DOMAIN raw)  BY RankingAssumption, FS_Subset
<1>2. /\ Candidates(raw) \in SUBSET [iri : Entries, score : Nat] /\ IsFiniteSet(Candidates(raw))
      /\ \A c, d \in Candidates(raw) : c.iri = d.iri => c = d
  BY <1>1, CandidatesAre
<1>3. /\ passed \in SUBSET [iri : Entries, score : Nat] /\ IsFiniteSet(passed)
      /\ \A c, d \in passed : c.iri = d.iri => c = d
  <2>1. passed \in SUBSET Candidates(raw)  OBVIOUS
  <2> HIDE DEF passed
  <2>2. QED  BY <1>2, <2>1, FS_Subset
<1>4. \A c, d \in passed : <<c, d>> \in R <=> Better(raw, c, d)  OBVIOUS
<1>5. PICK ranked : ranked = Ranked(passed, R)  OBVIOUS
<1>6. Searched(raw, n) = FirstOf(n, ranked)  BY <1>5 DEF Searched
<1> HIDE DEF passed, R
<1>7. \A c \in passed : c.score \in Nat /\ c.iri \in Entries /\ Met[c.iri] \in Nat
  <2>1. Met \in [Entries -> Nat]  BY RankingAssumption
  <2>2. QED  BY <1>3, <2>1
<1>8. \A c, d \in passed : Met[c.iri] = Met[d.iri] => c = d
  <2>1. \A i, j \in Entries : Met[i] = Met[j] => i = j  BY RankingAssumption
  <2>2. QED  BY <1>3, <1>7, <2>1
<1>9. Orders(R, passed)
  <2>1. ASSUME NEW c \in passed  PROVE ~Better(raw, c, c)
    BY <1>7 DEF Better
  <2>2. ASSUME NEW c \in passed, NEW d \in passed, c # d
        PROVE  Better(raw, c, d) \/ Better(raw, d, c)
    <3>1. /\ c.score \in Nat /\ d.score \in Nat /\ Met[c.iri] # Met[d.iri]
          /\ Met[c.iri] \in Nat /\ Met[d.iri] \in Nat
      BY <1>7, <1>8, <2>2
    <3>2. QED  BY <3>1 DEF Better
  <2>3. ASSUME NEW c \in passed, NEW d \in passed, NEW e \in passed,
               Better(raw, c, d), Better(raw, d, e)
        PROVE  Better(raw, c, e)
    <3>1. /\ c.score \in Nat /\ d.score \in Nat /\ e.score \in Nat
          /\ Met[c.iri] \in Nat /\ Met[d.iri] \in Nat /\ Met[e.iri] \in Nat
      BY <1>7
    <3>2. QED  BY <2>3, <3>1 DEF Better
  <2>4. QED  BY <1>4, <2>1, <2>2, <2>3 DEF Orders
<1>10. /\ ranked \in Seq(passed)
       /\ \A i, j \in DOMAIN ranked : ranked[i] = ranked[j] => i = j
  BY <1>3, <1>5, <1>9, RankedIs
<1>11. PICK size \in Nat : DOMAIN ranked = 1..size  BY <1>10
<1>12. \A i \in 1..size : ranked[i] \in passed  BY <1>10, <1>11
<1>13. ranked \in Seq([iri : Entries, score : Nat])  BY <1>3, <1>10, SeqWider
<1>14. Listed(ranked)
  <2>1. ASSUME NEW i \in 1..size, NEW j \in 1..size, ranked[i].iri = ranked[j].iri  PROVE i = j
    <3>1. ranked[i] = ranked[j]  BY <1>3, <1>12, <2>1
    <3>2. QED  BY <1>10, <1>11, <3>1
  <2>2. QED  BY <1>11, <1>13, <2>1 DEF Listed
<1>15. QED  BY <1>6, <1>14, FirstOfOnce

LEMMA FromLibraryOnce ==
  ASSUME NEW a \in Askings
  PROVE  Listed(FromLibrary(a)) /\ (FromLibrary(a) # <<>> =>
           Best(FromLibrary(a), a.hint) = FromLibrary(a)[1])
<1>1. Listed(a.library)  BY RankingAssumption DEF Listed
<1>2. PICK places : places = {i \in DOMAIN a.library : Passes(a.library[i].iri)}  OBVIOUS
<1>3. PICK list : list = Picked(a.library, places)  OBVIOUS
<1>4. Listed(list)  BY <1>1, <1>2, <1>3, PickedOnce
<1>5. FromLibrary(a) = HintFirst(list, a.hint)  BY <1>2, <1>3 DEF FromLibrary
<1>6. PICK h : h = HintFirst(list, a.hint)  OBVIOUS
<1>7. /\ Listed(h) /\ \A k \in DOMAIN h : \E i \in DOMAIN list : h[k] = list[i]
      /\ list # <<>> => h # <<>> /\ h[1] = Best(list, a.hint) /\ Best(h, a.hint) = h[1]
  BY <1>4, <1>6, HintFirstIs
<1>8. h # <<>> => list # <<>>
  <2>1. h \in Seq([iri : Entries, score : Nat])  BY <1>7 DEF Listed
  <2>2. h # <<>> => 1 \in DOMAIN h  BY <2>1
  <2>3. list = <<>> => DOMAIN list = {}  OBVIOUS
  <2>4. QED  BY <1>7, <2>2, <2>3
<1>9. QED  BY <1>5, <1>6, <1>7, <1>8

(* Both ways to search meet in the first concept, if as many are asked for.   *)
LEMMA SeveralIs ==
  ASSUME NEW a \in Askings
  PROVE  /\ Listed(Several(a))
         /\ MaxCandidates = 5 /\ Single(a).iri # NoEntry =>
              Several(a) # <<>> /\ Several(a)[1].iri = Single(a).iri
<1>1. PICK library : library = FromLibrary(a)  OBVIOUS
<1>2. PICK hits : hits = Searched(a.raw, MaxCandidates)  OBVIOUS
<1>3. PICK searched : searched = HintFirst(hits, a.hint)  OBVIOUS
<1>4. PICK new : new = {i \in DOMAIN searched :
                          \A j \in DOMAIN library : library[j].iri # searched[i].iri}
  OBVIOUS
<1>5. PICK more : more = Picked(searched, new)  OBVIOUS
<1>6. PICK both : both = library \o more  OBVIOUS
<1>7. Several(a) = FirstOf(MaxCandidates, both)
  BY <1>1, <1>2, <1>3, <1>4, <1>5, <1>6 DEF Several
<1>8. Listed(library) /\ (library # <<>> => Best(library, a.hint) = library[1])
  BY <1>1, FromLibraryOnce
<1>9. Listed(hits)
  <2>1. DOMAIN a.raw \in SUBSET Entries /\ MaxCandidates \in Nat
        /\ \A i \in DOMAIN a.raw : a.raw[i] \in Nat
    BY RankingAssumption
  <2>2. QED  BY <1>2, <2>1, SearchedOnce
<1>10. Listed(searched) /\ (hits # <<>> => searched # <<>> /\ searched[1] = Best(hits, a.hint))
  BY <1>3, <1>9, HintFirstIs
<1>11. /\ Listed(more)
       /\ \A k \in DOMAIN more : \E i \in new : more[k] = searched[i]
  <2>1. new \in SUBSET (DOMAIN searched) /\ Listed(searched)  BY <1>4, <1>10
  <2>2. QED  BY <1>5, <2>1, PickedOnce
<1>12. Apart(library, more)  BY <1>4, <1>11 DEF Apart
<1>13. Joins(both, library, more)  BY <1>6, <1>8, <1>11, <1>12, JoinedOnce
<1>14. Listed(both)  BY <1>13 DEF Joins
<1>15. MaxCandidates \in Nat  BY RankingAssumption
<1>16. Listed(Several(a)) /\ (MaxCandidates > 0 /\ both # <<>> =>
                                Several(a) # <<>> /\ Several(a)[1] = both[1])
  BY <1>7, <1>14, <1>15, FirstOfOnce
<1>17. ASSUME MaxCandidates = 5, Single(a).iri # NoEntry
       PROVE  Several(a) # <<>> /\ Several(a)[1].iri = Single(a).iri
  <2>1. CASE library # <<>>
    <3>1. Single(a) = library[1]  BY <1>1, <1>8, <2>1 DEF Single
    <3>2. both # <<>> /\ both[1] = library[1]  BY <1>13, <2>1 DEF Joins
    <3>3. QED  BY <1>16, <1>17, <3>1, <3>2
  <2>2. CASE library = <<>>
    <3>1. hits # <<>> /\ Single(a) = Best(hits, a.hint)
      BY <1>1, <1>2, <1>17, <2>2 DEF Single
    <3>2. searched # <<>> /\ searched[1] = Single(a)  BY <1>10, <3>1
    <3>3. DOMAIN library = {}  BY <2>2
    <3>4. new = DOMAIN searched  BY <1>4, <3>3
    <3>5. more = searched
      <4>1. searched \in Seq([iri : Entries, score : Nat])  BY <1>10 DEF Listed
      <4>2. new \in SUBSET (DOMAIN searched)  BY <3>4
      <4>3. QED  BY <1>5, <3>4, <4>1, <4>2, PickedIs
    <3>6. both = searched  BY <1>13, <2>2, <3>5 DEF Joins
    <3>7. QED  BY <1>16, <1>17, <3>2, <3>6
  <2>3. QED  BY <2>1, <2>2
<1>18. QED  BY <1>16, <1>17

LEMMA SingleScore ==
  ASSUME NEW a \in Askings
  PROVE  Single(a).score \in Nat
<1>1. PICK list : list = IF FromLibrary(a) # <<>> THEN FromLibrary(a) ELSE Searched(a.raw, 5)
  OBVIOUS
<1>2. Listed(list)
  <2>1. DOMAIN a.raw \in SUBSET Entries /\ 5 \in Nat /\ \A i \in DOMAIN a.raw : a.raw[i] \in Nat
    BY RankingAssumption
  <2>2. Listed(Searched(a.raw, 5))  BY <2>1, SearchedOnce
  <2>3. QED  BY <1>1, <2>2, FromLibraryOnce
<1>3. Single(a) = IF list = <<>> THEN [iri |-> NoEntry, score |-> 0] ELSE Best(list, a.hint)
  BY <1>1 DEF Single
<1>4. ASSUME list # <<>>  PROVE Best(list, a.hint).score \in Nat
  <2>1. PICK h : h = HintFirst(list, a.hint)  OBVIOUS
  <2>2. Listed(h) /\ h # <<>> /\ h[1] = Best(list, a.hint)  BY <1>2, <1>4, <2>1, HintFirstIs
  <2>3. PICK D : D = [iri : Entries, score : Nat]  OBVIOUS
  <2>4. h \in Seq(D)  BY <2>2, <2>3 DEF Listed
  <2>5. 1 \in DOMAIN h  BY <2>2, <2>4
  <2>6. h[1] \in D  BY <2>4, <2>5
  <2>7. QED  BY <2>2, <2>3, <2>6
<1>5. CASE list = <<>>  BY <1>3, <1>5
<1>6. CASE list # <<>>  BY <1>3, <1>4, <1>6
<1>7. QED  BY <1>5, <1>6

(* No later stage gives a concept another IRI, and what makes a runner-up is  *)
(* settled when they are attached; after that only confidences change.        *)
Attached(list, iri) ==
  /\ \A i, j \in DOMAIN list : list[i].iri = list[j].iri => i = j
  /\ \A i \in DOMAIN list : /\ list[i].iri # iri
                            /\ list[i].branch \notin ExcludedBranches

Capping(list, top) == \A i \in DOMAIN list : list[i].conf <= top

RunnersUp == [iri : Entries, branch : {Placement(i) : i \in Entries}, conf : Nat]

RankInv ==
  /\ asked \in Askings
  /\ stage \in {"resolve", "dropped"} \/ Placed
  /\ primary.conf \in Nat /\ DOMAIN primary = {"iri", "branch", "conf"}
  /\ Placed /\ asked.iri = NoEntry =>
       Single(asked).iri = primary.iri /\ primary.iri # NoEntry
  /\ backups \in Seq(RunnersUp)
  /\ Attached(backups, primary.iri)
  /\ stage \in {"resolve", "attach"} => backups = <<>>
  /\ stage = "context" \/ (stage = "rerank" /\ asked.filter) => Capping(backups, primary.conf)

LEMMA RankInitInv == RankInit => RankInv
<1> SUFFICES ASSUME RankInit  PROVE RankInv  OBVIOUS
<1>1. ~Placed /\ backups = <<>> /\ primary = Unplaced  BY DEF RankInit, Placed
<1>2. Attached(backups, primary.iri)  BY <1>1 DEF Attached
<1>3. primary.conf \in Nat /\ DOMAIN primary = {"iri", "branch", "conf"}
  BY <1>1 DEF Unplaced
<1>4. QED  BY <1>1, <1>2, <1>3 DEF RankInit, RankInv

LEMMA BlendIn ==
  ASSUME NEW score \in Nat, NEW given \in Nat
  PROVE  Blend(score, given) \in Nat
<1>1. \A n \in Nat : n \div 10 \in Nat  OBVIOUS
<1>2. score * 6 + given * 4 \in Nat  OBVIOUS
<1>3. (score * 6 + given * 4) \div 10 \in Nat  BY <1>1, <1>2
<1>4. QED  BY <1>3 DEF Blend

LEMMA ResolveBestInv == RankInv /\ ResolveBest => RankInv'
<1> SUFFICES ASSUME RankInv, ResolveBest  PROVE RankInv'  OBVIOUS
<1> DEFINE known == asked.iri # NoEntry
           best == IF known THEN [iri |-> asked.iri, score |-> asked.given] ELSE Single(asked)
<1>1. stage = "resolve" /\ asked' = asked /\ backups' = backups /\ backups = <<>> /\ asked \in Askings
  BY DEF RankInv, ResolveBest
<1>2. /\ asked.given \in Nat /\ Single(asked).score \in Nat  BY <1>1, SingleScore, RankingAssumption
<1>3. \A list : list = <<>> => Attached(list, primary'.iri) /\ list \in Seq(RunnersUp')
  BY DEF Attached
<1>4. CASE stage' = "dropped" /\ primary' = primary
  <2>1. ~Placed'  BY <1>4 DEF Placed
  <2>2. QED  BY <1>1, <1>3, <1>4, <2>1 DEF RankInv
<1>5. CASE /\ stage' = "attach" /\ best.iri # NoEntry
           /\ primary' = [iri |-> best.iri, branch |-> Placement(best.iri),
                          conf |-> IF known THEN asked.given
                                   ELSE Blend(best.score, asked.given)]
  <2>1. primary'.conf \in Nat
    <3>1. CASE known  BY <1>2, <1>5, <3>1
    <3>2. CASE ~known
      <4>1. best.score \in Nat  BY <1>2, <3>2
      <4>2. Blend(best.score, asked.given) \in Nat  BY <1>2, <4>1, BlendIn
      <4>3. QED  BY <1>5, <3>2, <4>2
    <3>3. QED  BY <3>1, <3>2
  <2>2. Placed'  BY <1>5 DEF Placed
  <2>3. asked.iri = NoEntry => Single(asked).iri = primary'.iri /\ primary'.iri # NoEntry
    BY <1>5
  <2>4. DOMAIN primary' = {"iri", "branch", "conf"}  BY <1>5
  <2>5. Single(asked)' = Single(asked)  BY <1>1 DEF Single, FromLibrary, Searched
  <2>6. QED  BY <1>1, <1>3, <1>5, <2>1, <2>2, <2>3, <2>4, <2>5 DEF RankInv
<1>6. QED  BY <1>4, <1>5 DEF ResolveBest

(* What of the invariant is about the inputs and the chosen concept.          *)
LEMMA SamePrimary ==
  ASSUME RankInv, asked' = asked, primary'.iri = primary.iri, Placed, Placed'
  PROVE  /\ asked' \in Askings
         /\ Placed' /\ asked'.iri = NoEntry =>
              Single(asked)'.iri = primary'.iri /\ primary'.iri # NoEntry
         /\ \A i : Placement(i)' = Placement(i)
<1>1. Single(asked)' = Single(asked)  BY DEF Single, FromLibrary, Searched
<1>2. \A i : Placement(i)' = Placement(i)  BY DEF Placement
<1>3. QED  BY <1>1, <1>2 DEF RankInv

LEMMA AttachBackupsInv == RankInv /\ AttachBackups => RankInv'
<1> SUFFICES ASSUME RankInv, AttachBackups  PROVE RankInv'  OBVIOUS
<1>1. /\ stage = "attach" /\ stage' = "context" /\ asked' = asked /\ primary' = primary
      /\ asked \in Askings /\ primary.conf \in Nat
  BY DEF AttachBackups, RankInv
<1>2. Placed /\ Placed'  BY <1>1 DEF Placed
<1>3. Attached(backups', primary.iri) /\ backups' \in Seq(RunnersUp)
      /\ Capping(backups', primary.conf)
  <2>1. CASE backups' = <<>>  BY <2>1 DEF Attached, Capping
  <2>2. CASE backups' # <<>>
    <3>1. PICK list : list = Others(Several(asked))  OBVIOUS
    <3>2. backups' = [i \in DOMAIN list |-> RunnerUp(list[i])]
      BY <2>2, <3>1 DEF AttachBackups
    <3>3. PICK all : all = Several(asked)  OBVIOUS
    <3>4. PICK places : places = {i \in DOMAIN all : /\ all[i].iri # primary.iri
                                                    /\ Placement(all[i].iri) \notin ExcludedBranches}
      OBVIOUS
    <3>5. list = Picked(all, places)  BY <3>1, <3>3, <3>4 DEF Others
    <3>6. Listed(all) /\ places \in SUBSET (DOMAIN all)  BY <1>1, <3>3, <3>4, SeveralIs
    <3>7. Listed(list) /\ \A k \in DOMAIN list : \E i \in places : list[k] = all[i]
      BY <3>5, <3>6, PickedOnce
    <3>8. PICK D : D = [iri : Entries, score : Nat]  OBVIOUS
    <3>9. list \in Seq(D)  BY <3>7, <3>8 DEF Listed
    <3>10. PICK n \in Nat : DOMAIN list = 1..n  BY <3>9
    <3>11. \A k \in 1..n : list[k] \in D  BY <3>9, <3>10
    <3>12. \A k \in 1..n : /\ list[k].iri \in Entries /\ list[k].score \in Nat
                           /\ list[k].iri # primary.iri
                           /\ Placement(list[k].iri) \notin ExcludedBranches
      BY <3>4, <3>7, <3>8, <3>10, <3>11
    <3>13. \A k \in 1..n : RunnerUp(list[k]) \in RunnersUp /\ RunnerUp(list[k]).conf <= primary.conf
      BY <1>1, <3>12 DEF RunnerUp, RunnersUp, Capped, Lesser
    <3>14. backups' \in Seq(RunnersUp)
      <4>1. backups' \in [1..n -> RunnersUp]  BY <3>2, <3>10, <3>13
      <4>2. QED  BY <4>1, SeqDef
    <3>15. DOMAIN backups' = 1..n  BY <3>2, <3>10
    <3>16. Capping(backups', primary.conf)  BY <3>2, <3>10, <3>13 DEF Capping
    <3>17. \A k \in 1..n : /\ backups'[k].iri = list[k].iri
                           /\ backups'[k].branch = Placement(list[k].iri)
      BY <3>2, <3>10 DEF RunnerUp
    <3>18. Attached(backups', primary.iri)
      <4>1. \A i, j \in 1..n : list[i].iri = list[j].iri => i = j  BY <3>7, <3>10 DEF Listed
      <4>2. QED  BY <3>12, <3>15, <3>17, <4>1 DEF Attached
    <3>19. QED  BY <3>14, <3>16, <3>18
  <2>3. QED  BY <2>1, <2>2
<1>4. QED  BY <1>1, <1>2, <1>3, SamePrimary DEF RankInv, RunnersUp

LEMMA ContextScoresInv == RankInv /\ ContextScores => RankInv'
<1> SUFFICES ASSUME RankInv, ContextScores  PROVE RankInv'  OBVIOUS
<1>1. /\ stage = "context" /\ stage' = "rerank" /\ asked' = asked /\ asked \in Askings
      /\ primary.conf \in Nat /\ DOMAIN primary = {"iri", "branch", "conf"}
      /\ Attached(backups, primary.iri) /\ backups \in Seq(RunnersUp)
  BY DEF ContextScores, RankInv
<1>2. Placed /\ Placed'  BY <1>1 DEF Placed
<1>3. PICK conf \in {primary.conf} \cup {(primary.conf * 6 + like * 4) \div 10 : like \in Percents},
           likes \in [DOMAIN backups -> Percents] :
        LET near == {i \in DOMAIN backups : likes[i] + (IF backups[i].branch = primary.branch
                                                        THEN 12 ELSE 0) >= 45}
            order == Ranked(near, {p \in near \X near : Nearer(likes, p[1], p[2])})
        IN  /\ primary' = [primary EXCEPT !.conf = conf]
            /\ backups' = IF ~asked.filter THEN backups
                          ELSE [k \in DOMAIN order |-> [backups[order[k]] EXCEPT
                                                          !.conf = Capped(likes[order[k]], conf)]]
  BY DEF ContextScores
<1>4. PICK near : near = {i \in DOMAIN backups : likes[i] + (IF backups[i].branch = primary.branch
                                                             THEN 12 ELSE 0) >= 45}
  OBVIOUS
<1>5. PICK R : R = {p \in near \X near : Nearer(likes, p[1], p[2])}  OBVIOUS
<1>6. PICK order : order = Ranked(near, R)  OBVIOUS
<1>7. /\ primary' = [primary EXCEPT !.conf = conf]
      /\ backups' = IF ~asked.filter THEN backups
                    ELSE [k \in DOMAIN order |-> [backups[order[k]] EXCEPT
                                                    !.conf = Capped(likes[order[k]], conf)]]
  BY <1>3, <1>4, <1>5, <1>6
<1>8. conf \in Nat
  <2>1. CASE conf = primary.conf  BY <1>1, <2>1
  <2>2. CASE conf # primary.conf
    <3>1. PICK like \in Percents : conf = (primary.conf * 6 + like * 4) \div 10  BY <1>3, <2>2
    <3>2. like \in Nat  BY RankingAssumption
    <3>3. primary.conf * 6 + like * 4 \in Nat  BY <1>1, <3>2
    <3>4. \A n \in Nat : n \div 10 \in Nat  OBVIOUS
    <3>5. QED  BY <3>1, <3>3, <3>4
  <2>3. QED  BY <2>1, <2>2
<1>9. primary'.conf = conf /\ primary'.iri = primary.iri /\ DOMAIN primary' = {"iri", "branch", "conf"}
  BY <1>1, <1>7
<1>10. /\ Attached(backups', primary.iri) /\ backups' \in Seq(RunnersUp)
       /\ asked.filter => Capping(backups', conf)
  <2>1. CASE ~asked.filter  BY <1>1, <1>7, <2>1
  <2>2. CASE asked.filter
    <3>1. PICK n \in Nat : DOMAIN backups = 1..n  BY <1>1
    <3>2. near \in SUBSET (1..n)  BY <1>4, <3>1
    <3>3. \A i \in near : i \in Int /\ likes[i] \in Nat
      <4>1. \A i \in 1..n : likes[i] \in Percents  BY <1>3, <3>1
      <4>2. Percents \subseteq Nat  BY RankingAssumption
      <4>3. ASSUME NEW i \in near  PROVE i \in Int /\ likes[i] \in Nat
        <5>1. i \in 1..n  BY <3>2
        <5>2. likes[i] \in Percents  BY <4>1, <5>1
        <5>3. i \in Int  BY <5>1
        <5>4. QED  BY <4>2, <5>2, <5>3
      <4>4. QED  BY <4>3
    <3>4. \A i, j \in near : <<i, j>> \in R <=> Nearer(likes, i, j)  BY <1>5
    <3>5. Orders(R, near)
      <4>1. \A i \in near : ~Nearer(likes, i, i)  BY <3>3 DEF Nearer
      <4>2. \A i, j \in near : i # j => Nearer(likes, i, j) \/ Nearer(likes, j, i)
        BY <3>3 DEF Nearer
      <4>3. \A i, j, k \in near : Nearer(likes, i, j) /\ Nearer(likes, j, k) => Nearer(likes, i, k)
        BY <3>3 DEF Nearer
      <4>4. QED  BY <3>4, <4>1, <4>2, <4>3 DEF Orders
    <3>6. IsFiniteSet(near)
      <4>1. IsFiniteSet(1..n)  BY FS_Interval
      <4>2. QED  BY <3>2, <4>1, FS_Subset
    <3>7. order \in Seq(near) /\ \A i, j \in DOMAIN order : order[i] = order[j] => i = j
      BY <1>6, <3>5, <3>6, RankedIs
    <3>8. PICK m \in Nat : DOMAIN order = 1..m  BY <3>7
    <3>9. \A k \in 1..m : order[k] \in near /\ order[k] \in DOMAIN backups
      <4>1. \A k \in 1..m : order[k] \in near  BY <3>7, <3>8
      <4>2. QED  BY <3>1, <3>2, <4>1
    <3>10. backups' = [k \in 1..m |-> [backups[order[k]] EXCEPT
                                         !.conf = Capped(likes[order[k]], conf)]]
      BY <1>7, <2>2, <3>8
    <3>11. \A k \in 1..m : Capped(likes[order[k]], conf) \in Nat /\ Capped(likes[order[k]], conf) <= conf
      BY <1>8, <3>3, <3>9 DEF Capped, Lesser
    <3>12. \A k \in 1..m : backups[order[k]] \in RunnersUp  BY <1>1, <3>9
    <3>13. \A k \in 1..m : /\ backups'[k] \in RunnersUp /\ backups'[k].conf <= conf
                           /\ backups'[k].iri = backups[order[k]].iri
                           /\ backups'[k].branch = backups[order[k]].branch
      BY <3>10, <3>11, <3>12 DEF RunnersUp
    <3>14. DOMAIN backups' = 1..m  BY <3>10
    <3>15. backups' \in Seq(RunnersUp)
      <4>1. backups' \in [1..m -> RunnersUp]  BY <3>10, <3>13
      <4>2. QED  BY <4>1, SeqDef
    <3>16. Capping(backups', conf)  BY <3>13, <3>14 DEF Capping
    <3>17. Attached(backups', primary.iri)
      <4>1. ASSUME NEW i \in 1..m, NEW j \in 1..m, backups'[i].iri = backups'[j].iri  PROVE i = j
        <5>1. order[i] = order[j]  BY <1>1, <3>9, <3>13, <4>1 DEF Attached
        <5>2. QED  BY <3>7, <3>8, <5>1
      <4>2. \A k \in 1..m : /\ backups'[k].iri # primary.iri
                            /\ backups'[k].branch \notin ExcludedBranches
        BY <1>1, <3>9, <3>13 DEF Attached
      <4>3. QED  BY <3>14, <4>1, <4>2 DEF Attached
    <3>18. QED  BY <3>15, <3>16, <3>17
  <2>3. QED  BY <2>1, <2>2
<1>11. QED  BY <1>1, <1>2, <1>8, <1>9, <1>10, SamePrimary DEF RankInv, RunnersUp

(* A step that only changes the primary's confidence or its branch.           *)
LEMMA PrimaryChanges ==
  ASSUME RankInv, asked' = asked, backups' = backups, Placed, Placed', primary'.iri = primary.iri,
         primary'.conf \in Nat, DOMAIN primary' = {"iri", "branch", "conf"},
         stage' \notin {"resolve", "attach"},
         stage' = "context" \/ (stage' = "rerank" /\ asked.filter) =>
           stage = "context" /\ primary' = primary
  PROVE  RankInv'
<1>1. RunnersUp' = RunnersUp  BY DEF RunnersUp, Placement
<1>2. /\ asked' \in Askings
      /\ Placed' /\ asked'.iri = NoEntry =>
           Single(asked)'.iri = primary'.iri /\ primary'.iri # NoEntry
  BY SamePrimary
<1>3. Attached(backups', primary'.iri)  BY DEF RankInv
<1>4. QED  BY <1>1, <1>2, <1>3 DEF RankInv

LEMMA NoContextInv == RankInv /\ NoContext => RankInv'
<1> SUFFICES ASSUME RankInv, NoContext  PROVE RankInv'  OBVIOUS
<1>1. Placed /\ Placed'  BY DEF NoContext, Placed
<1>2. QED  BY <1>1, PrimaryChanges DEF NoContext, RankInv

LEMMA RerankInv == RankInv /\ Rerank => RankInv'
<1> SUFFICES ASSUME RankInv, Rerank  PROVE RankInv'  OBVIOUS
<1>1. Placed /\ Placed' /\ stage' = "judge" /\ asked' = asked /\ backups' = backups
  BY DEF Rerank, Placed
<1>2. primary.conf \in Nat /\ DOMAIN primary = {"iri", "branch", "conf"}  BY DEF RankInv
<1>3. CASE primary' = primary  BY <1>1, <1>2, <1>3, PrimaryChanges
<1>4. ASSUME NEW score \in Percents,
             primary' = [primary EXCEPT !.conf = (@ * 5 + score * 5) \div 10]
      PROVE  RankInv'
  <2>1. score \in Nat  BY RankingAssumption
  <2>2. primary.conf * 5 + score * 5 \in Nat  BY <1>2, <2>1
  <2>3. \A n \in Nat : n \div 10 \in Nat  OBVIOUS
  <2>4. /\ primary'.conf \in Nat /\ primary'.iri = primary.iri
        /\ DOMAIN primary' = {"iri", "branch", "conf"}
    BY <1>2, <1>4, <2>2, <2>3
  <2>5. QED  BY <1>1, <2>4, PrimaryChanges
<1>5. QED  BY <1>3, <1>4 DEF Rerank

\* What the judge's answer makes of the primary
JudgedTo(sure, given, affinity) ==
  LET judged == Lesser((primary.conf * 7 + sure * 3) \div 10, 100)
  IN  primary' = [primary EXCEPT !.branch = given, !.conf =
                    IF given = Branchless THEN judged ELSE Clamped(judged + affinity)]

LEMMA JudgeBranchInv == RankInv /\ JudgeBranch => RankInv'
<1> SUFFICES ASSUME RankInv, JudgeBranch  PROVE RankInv'  OBVIOUS
<1>1. Placed /\ Placed' /\ stage' = "shown" /\ asked' = asked /\ backups' = backups
  BY DEF JudgeBranch, Placed
<1>2. primary.conf \in Nat /\ DOMAIN primary = {"iri", "branch", "conf"}  BY DEF RankInv
<1>3. CASE primary' = primary  BY <1>1, <1>2, <1>3, PrimaryChanges
<1>4. ASSUME NEW sure \in Percents, NEW given, NEW affinity \in {-5, 0, 5},
             JudgedTo(sure, given, affinity)
      PROVE  RankInv'
  <2>1. sure \in Nat  BY RankingAssumption
  <2>2. primary.conf * 7 + sure * 3 \in Nat  BY <1>2, <2>1
  <2>3. \A n \in Nat : n \div 10 \in Nat  OBVIOUS
  <2>4. PICK judged : judged = Lesser((primary.conf * 7 + sure * 3) \div 10, 100)  OBVIOUS
  <2>5. judged \in Nat  BY <2>2, <2>3, <2>4 DEF Lesser
  <2>6. Clamped(judged + affinity) \in Nat  BY <2>5 DEF Clamped, Lesser
  <2>7. primary' = [primary EXCEPT !.branch = given, !.conf =
                      IF given = Branchless THEN judged ELSE Clamped(judged + affinity)]
    BY <1>4, <2>4 DEF JudgedTo
  <2>8. /\ primary'.conf \in Nat /\ primary'.iri = primary.iri
        /\ DOMAIN primary' = {"iri", "branch", "conf"}
    BY <1>2, <2>5, <2>6, <2>7
  <2>9. QED  BY <1>1, <2>8, PrimaryChanges
<1>5. \/ primary' = primary
      \/ \E sure \in Percents, given \in {BranchOf[i] : i \in Entries}, affinity \in {-5, 0, 5} :
           JudgedTo(sure, given, affinity)
  BY DEF JudgeBranch, JudgedTo
<1>6. QED  BY <1>3, <1>4, <1>5

LEMMA RankInvHolds == RankSpec => []RankInv
<1>1. RankInit => RankInv  BY RankInitInv
<1>2. RankInv /\ [RankNext]_ranking_vars => RankInv'
  <2> SUFFICES ASSUME RankInv, [RankNext]_ranking_vars  PROVE RankInv'  OBVIOUS
  <2>1. CASE ResolveBest  BY <2>1, ResolveBestInv
  <2>2. CASE AttachBackups  BY <2>2, AttachBackupsInv
  <2>3. CASE ContextScores  BY <2>3, ContextScoresInv
  <2>4. CASE NoContext  BY <2>4, NoContextInv
  <2>5. CASE Rerank  BY <2>5, RerankInv
  <2>6. CASE JudgeBranch  BY <2>6, JudgeBranchInv
  <2>7. CASE UNCHANGED ranking_vars
    <3>1. asked' = asked /\ stage' = stage /\ primary' = primary /\ backups' = backups
      BY <2>7 DEF ranking_vars
    <3>2. RunnersUp' = RunnersUp /\ Single(asked)' = Single(asked)
      BY <3>1 DEF RunnersUp, Placement, Single, FromLibrary, Searched
    <3>3. QED  BY <3>1, <3>2 DEF RankInv, Placed
  <2>8. QED  BY <2>1, <2>2, <2>3, <2>4, <2>5, <2>6, <2>7 DEF RankNext
<1>3. QED  BY <1>1, <1>2, PTL DEF RankSpec

(* With five candidates asked for, which is the default and what the search   *)
(* for a single concept asks for: the concept a text is resolved to heads the *)
(* list its runners-up come from, whatever library and search have found      *)
(* (_multi_strategy_resolve, _multi_strategy_resolve_all).                    *)
THEOREM SingleHeadsSeveral ==
  ASSUME MaxCandidates = 5
  PROVE  RankSpec => []SingleIsFirst
<1>1. RankInv => SingleIsFirst
  <2> SUFFICES ASSUME RankInv, Placed, asked.iri = NoEntry
               PROVE  Several(asked) # <<>> /\ Several(asked)[1].iri = primary.iri
    BY DEF SingleIsFirst
  <2>1. asked \in Askings /\ Single(asked).iri = primary.iri /\ primary.iri # NoEntry
    BY DEF RankInv
  <2>2. QED  BY <2>1, SeveralIs
<1>2. QED  BY <1>1, RankInvHolds, PTL

(* Runners-up are other concepts, each once, of branches that may be tagged;  *)
(* until the reranker none is more confident than the chosen one              *)
(* (_attach_backup_candidates, _apply_embedding_context_scores).              *)
THEOREM RunnersUpStandBehind == RankSpec => []BackupsAreRunnersUp
<1>1. RankInv => BackupsAreRunnersUp  BY DEF RankInv, Attached, Capping, BackupsAreRunnersUp
<1>2. QED  BY <1>1, RankInvHolds, PTL
=============================================================================
