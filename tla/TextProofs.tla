----------------------------- MODULE TextProofs -----------------------------
(* What is done with a text by pure code, for every text: overlapping matches  *)
(* are resolved by the sweep as by the full rescan, the text is cut into       *)
(* chunks without loss, within the limits and with sentences where the index   *)
(* says, and the files made of a finished job agree, refer to nothing they do  *)
(* not have and nest.                                                          *)
EXTENDS SpanOverlap, TextChunks, Exports, ListProofs

-----------------------------------------------------------------------------
(* Overlapping matches.                                                        *)

(* A set of indices that is not empty has a first one.                         *)
LEMMA FirstExists ==
  ASSUME NEW S \in SUBSET Nat, S # {}
  PROVE  /\ FirstOf(S) \in S
         /\ \A j \in S : FirstOf(S) <= j
BY LeastIs DEF FirstOf

LEMMA ConflictSymmetric ==
  ASSUME NEW a \in Matches, NEW b \in Matches
  PROVE  Conflict(a, b) <=> Conflict(b, a)
BY DEF Conflict, Overlap, Inside, SameSpan, Matches

(* What placing a match does to a list: append, or, at the first conflicting   *)
(* match, replace it if it is shorter and leave it if it is not.               *)
LEMMA PlacedLast ==
  ASSUME NEW list, NEW among, NEW m, ConflictsAt(list, among, m) = {}
  PROVE  Place(list, among, m) = Append(list, m)
BY DEF Place

Hit(list, among, m) == FirstOf(ConflictsAt(list, among, m))

LEMMA PlacedAt ==
  ASSUME NEW list, NEW among \in SUBSET (DOMAIN list), NEW m, DOMAIN list \in SUBSET Nat,
         ConflictsAt(list, among, m) # {}
  PROVE  /\ Hit(list, among, m) \in among /\ Hit(list, among, m) \in DOMAIN list
         /\ Conflict(list[Hit(list, among, m)], m)
         /\ Place(list, among, m) = IF Length(m) > Length(list[Hit(list, among, m)])
                                    THEN [list EXCEPT ![Hit(list, among, m)] = m] ELSE list
<1>1. PICK hits : hits = ConflictsAt(list, among, m)  OBVIOUS
<1>2. hits \in SUBSET Nat /\ hits # {}  BY <1>1 DEF ConflictsAt
<1>3. FirstOf(hits) \in hits  BY <1>2, FirstExists
<1>4. Hit(list, among, m) \in among /\ Conflict(list[Hit(list, among, m)], m)
  BY <1>1, <1>3 DEF ConflictsAt, Hit
<1>5. Place(list, among, m) = IF Length(m) > Length(list[Hit(list, among, m)])
                              THEN [list EXCEPT ![Hit(list, among, m)] = m] ELSE list
  BY DEF Place, Hit
<1>6. QED  BY <1>4, <1>5

LEMMA PlaceType ==
  ASSUME NEW list \in Seq(Matches), NEW among \in SUBSET (DOMAIN list), NEW m \in Matches
  PROVE  Place(list, among, m) \in Seq(Matches)
<1>1. Append(list, m) \in Seq(Matches)  OBVIOUS
<1>2. \A f \in DOMAIN list : [list EXCEPT ![f] = m] \in Seq(Matches)  OBVIOUS
<1>3. CASE ConflictsAt(list, among, m) = {}  BY <1>1, <1>3, PlacedLast
<1>4. CASE ConflictsAt(list, among, m) # {}
  <2>1. DOMAIN list \in SUBSET Nat  OBVIOUS
  <2>2. /\ Hit(list, among, m) \in DOMAIN list
        /\ \/ Place(list, among, m) = [list EXCEPT ![Hit(list, among, m)] = m]
           \/ Place(list, among, m) = list
    BY <1>4, <2>1, PlacedAt
  <2>3. QED  BY <1>2, <2>2
<1>5. QED  BY <1>3, <1>4

(* The invariant: both passes agree, and what the sweep has retired ends       *)
(* before anything that is still to come starts.                               *)
Retired == \A i \in DOMAIN resolved \ active :
             \A j \in (done + 1)..Len(input) : resolved[i].end <= input[j].start

InputOK == /\ input \in Seq(Matches)
           /\ \A i, j \in DOMAIN input : i < j => NotAfter(input[i], input[j])

SweepInv == SpanTypeOK /\ InputOK /\ SweepIsRescan /\ Retired

LEMMA SweepInit == SpanInit => SweepInv
<1> SUFFICES ASSUME SpanInit PROVE SweepInv  OBVIOUS
<1>1. InputOK  BY InputsSorted DEF SpanInit, InputOK
<1>2. SpanTypeOK  BY <1>1 DEF SpanInit, SpanTypeOK, InputOK
<1>3. SweepIsRescan /\ Retired  BY DEF SpanInit, SweepIsRescan, Retired
<1>4. QED  BY <1>1, <1>2, <1>3 DEF SweepInv

(* A match that the sweep does not look at cannot conflict with this one, so   *)
(* both passes see the same conflicts.                                         *)
LEMMA SameConflicts ==
  ASSUME SweepInv, done < Len(input)
  PROVE  LET m    == input[done + 1]
             live == Live(resolved, active, m)
         IN /\ m \in Matches
            /\ live \subseteq DOMAIN resolved
            /\ \A i \in DOMAIN resolved \ live : resolved[i].end <= m.start
            /\ ConflictsAt(resolved, live, m) = ConflictsAt(resolved, DOMAIN resolved, m)
<1> DEFINE m == input[done + 1]
           live == Live(resolved, active, m)
<1>1. /\ done \in Nat /\ Len(input) \in Nat
      /\ done + 1 \in DOMAIN input /\ done + 1 \in (done + 1)..Len(input)
  BY DEF SweepInv, SpanTypeOK
<1>2. m \in Matches  BY <1>1 DEF SweepInv, SpanTypeOK
<1>3. live \subseteq DOMAIN resolved  BY DEF Live, SweepInv, SpanTypeOK
<1>4. \A i \in DOMAIN resolved : resolved[i] \in Matches  BY DEF SweepInv, SpanTypeOK
<1>5. \A i \in DOMAIN resolved \ live : resolved[i].end <= m.start
  <2> SUFFICES ASSUME NEW i \in DOMAIN resolved \ live PROVE resolved[i].end <= m.start
    OBVIOUS
  <2>1. CASE i \in active
    <3>1. ~(resolved[i].end > m.start)  BY <2>1 DEF Live
    <3>2. resolved[i].end \in Nat /\ m.start \in Nat  BY <1>2, <1>4 DEF Matches
    <3>3. QED  BY <3>1, <3>2
  <2>2. CASE i \notin active
    BY <2>2, <1>1 DEF SweepInv, Retired
  <2>3. QED  BY <2>1, <2>2
<1>6. \A i \in DOMAIN resolved \ live : ~Conflict(resolved[i], m)
  <2> SUFFICES ASSUME NEW i \in DOMAIN resolved \ live PROVE ~(m.start < resolved[i].end)
    BY DEF Conflict, Overlap
  <2>1. resolved[i].end \in Nat /\ m.start \in Nat  BY <1>2, <1>4 DEF Matches
  <2>2. QED  BY <2>1, <1>5
<1>7. ConflictsAt(resolved, live, m) = ConflictsAt(resolved, DOMAIN resolved, m)
  BY <1>3, <1>6 DEF ConflictsAt
<1>8. QED  BY <1>2, <1>3, <1>5, <1>7

LEMMA SweepStep == SweepInv /\ [PlaceNext]_span_vars => SweepInv'
<1> SUFFICES ASSUME SweepInv, [PlaceNext]_span_vars PROVE SweepInv'  OBVIOUS
<1>1. CASE UNCHANGED span_vars
  BY <1>1 DEF span_vars, SweepInv, SpanTypeOK, InputOK, SweepIsRescan, Retired
<1>2. CASE PlaceNext
  <2> DEFINE m == input[done + 1]
             live == Live(resolved, active, m)
             hits == ConflictsAt(resolved, live, m)
             f == FirstOf(hits)
  <2>1. /\ done < Len(input) /\ done' = done + 1 /\ input' = input
        /\ resolved' = Place(resolved, live, m)
        /\ active' = IF hits = {} THEN live \cup {Len(resolved) + 1} ELSE live
        /\ rescan' = Place(rescan, DOMAIN rescan, m)
    BY <1>2 DEF PlaceNext, Watch
  <2>2. /\ m \in Matches /\ live \in SUBSET (DOMAIN resolved)
        /\ \A i \in DOMAIN resolved \ live : resolved[i].end <= m.start
        /\ hits = ConflictsAt(resolved, DOMAIN resolved, m)
    BY <2>1, SameConflicts
  <2>t. /\ done \in Nat /\ Len(input) \in Nat /\ done \in 0..Len(input)
        /\ resolved \in Seq(Matches) /\ rescan = resolved /\ input \in Seq(Matches)
    BY DEF SweepInv, SpanTypeOK, SweepIsRescan
  <2>3. rescan' = resolved'
    BY <2>1, <2>2, <2>t DEF Place
  <2>4. resolved' \in Seq(Matches)
    BY <2>1, <2>2, <2>t, PlaceType
  <2>5. /\ hits = {} => resolved' = Append(resolved, m)
        /\ hits # {} => /\ f \in live /\ f \in DOMAIN resolved
                        /\ resolved' = [resolved EXCEPT ![f] = m] \/ resolved' = resolved
    <3>1. hits = {} => resolved' = Append(resolved, m)
      BY <2>1, PlacedLast
    <3>2. DOMAIN resolved \in SUBSET Nat  BY <2>t
    <3>3. f = Hit(resolved, live, m)  BY DEF Hit
    <3> HIDE DEF m, live, f
    <3>4. hits # {} => /\ f \in live /\ f \in DOMAIN resolved
                       /\ \/ Place(resolved, live, m) = [resolved EXCEPT ![f] = m]
                          \/ Place(resolved, live, m) = resolved
      BY <2>2, <3>2, <3>3, PlacedAt
    <3> HIDE DEF hits
    <3>5. QED  BY <2>1, <3>1, <3>4
  <2> HIDE DEF m, live, hits, f
  <2>6. active' \subseteq DOMAIN resolved'
    <3>1. CASE hits = {}  BY <3>1, <2>1, <2>2, <2>5, <2>t
    <3>2. CASE hits # {}  BY <3>2, <2>1, <2>2, <2>5, <2>t
    <3>3. QED  BY <3>1, <3>2
  <2>7. \A j \in (done' + 1)..Len(input') : m.start <= input[j].start
    <3> SUFFICES ASSUME NEW j \in (done' + 1)..Len(input') PROVE m.start <= input[j].start
      OBVIOUS
    <3>1. done + 1 \in DOMAIN input /\ j \in DOMAIN input /\ done + 1 < j
      BY <2>1, <2>t
    <3>2. NotAfter(m, input[j])
      BY <3>1 DEF SweepInv, InputOK, m
    <3>3. input[j] \in Matches  BY <3>1, <2>t
    <3>4. QED  BY <3>2, <3>3, <2>2 DEF NotAfter, Matches
  <2>8. Retired'
    <3> SUFFICES ASSUME NEW i \in DOMAIN resolved' \ active',
                        NEW j \in (done' + 1)..Len(input')
                 PROVE  resolved'[i].end <= input'[j].start
      BY DEF Retired
    <3>1. i \in DOMAIN resolved \ live /\ resolved'[i] = resolved[i]
      <4>1. CASE hits = {}  BY <4>1, <2>1, <2>5, <2>t
      <4>2. CASE hits # {}  BY <4>2, <2>1, <2>5, <2>t
      <4>3. QED  BY <4>1, <4>2
    <3>2. resolved[i].end <= m.start /\ m.start <= input[j].start
      BY <3>1, <2>2, <2>7
    <3>3. /\ resolved[i].end \in Nat /\ m.start \in Nat /\ input[j].start \in Nat
      <4>1. j \in DOMAIN input  BY <2>1, <2>t
      <4>2. QED  BY <4>1, <3>1, <2>t, <2>2 DEF Matches
    <3>4. QED  BY <3>1, <3>2, <3>3, <2>1
  <2>9. done' \in 0..Len(input')  BY <2>1, <2>t
  <2>10. InputOK'  BY <2>1 DEF InputOK, SweepInv
  <2>11. QED
    BY <2>3, <2>4, <2>6, <2>8, <2>9, <2>10, <2>1, <2>t DEF SweepInv, SpanTypeOK, SweepIsRescan
<1>3. QED  BY <1>1, <1>2 DEF span_vars

LEMMA SweepInvariant == SpanSpec => []SweepInv
<1>1. QED  BY SweepInit, SweepStep, PTL DEF SpanSpec

(* The sweep keeps exactly what the full rescan keeps, whatever the matches.   *)
THEOREM SweepDecidesAsRescan == SpanSpec => []SweepIsRescan
<1>1. SweepInv => SweepIsRescan  BY DEF SweepInv
<1>2. QED  BY <1>1, SweepInvariant, PTL

-----------------------------------------------------------------------------
KeptWereLooked == Kept(resolved) \subseteq Looked

LongestInv == SweepInv /\ KeptWereLooked /\ LongestKept

LEMMA KeptWithLast ==
  ASSUME NEW list \in Seq(Matches), NEW m \in Matches
  PROVE  Kept(Append(list, m)) = Kept(list) \cup {m}
<1>1. PICK n \in Nat : n = Len(list) /\ DOMAIN list = 1..n  OBVIOUS
<1>2. /\ DOMAIN Append(list, m) = 1..(n + 1)
      /\ \A k \in 1..n : Append(list, m)[k] = list[k]
      /\ Append(list, m)[n + 1] = m
  BY <1>1
<1>3. 1..(n + 1) = (1..n) \cup {n + 1}  OBVIOUS
<1>4. QED  BY <1>1, <1>2, <1>3 DEF Kept

LEMMA LongestStep == LongestInv /\ SweepInv' /\ [PlaceNext]_span_vars => LongestInv'
<1> SUFFICES ASSUME LongestInv, SweepInv', [PlaceNext]_span_vars PROVE LongestInv'
  OBVIOUS
<1>1. CASE UNCHANGED span_vars
  BY <1>1 DEF span_vars, LongestInv, KeptWereLooked, LongestKept, Undisputed, Looked, Kept
<1>2. CASE PlaceNext
  <2> DEFINE m == input[done + 1]
             live == Live(resolved, active, m)
             hits == ConflictsAt(resolved, live, m)
             f == FirstOf(hits)
  <2>1. /\ done < Len(input) /\ done' = done + 1 /\ input' = input
        /\ resolved' = Place(resolved, live, m)
    BY <1>2 DEF PlaceNext
  <2>2. m \in Matches /\ live \in SUBSET (DOMAIN resolved)
    BY <2>1, SameConflicts DEF LongestInv
  <2>t. /\ done \in Nat /\ Len(input) \in Nat /\ resolved \in Seq(Matches) /\ input \in Seq(Matches)
        /\ done \in 0..Len(input)
    BY DEF LongestInv, SweepInv, SpanTypeOK
  <2>3. Looked' = Looked \cup {m} /\ Looked \subseteq Matches
    <3>1. 1..done' = (1..done) \cup {done + 1}  BY <2>1, <2>t
    <3>2. \A i \in 1..done : input[i] \in Matches  BY <2>t
    <3>3. QED  BY <3>1, <3>2, <2>1 DEF Looked
  <2>4. \/ /\ hits = {} /\ resolved' = Append(resolved, m)
           /\ Kept(resolved') = Kept(resolved) \cup {m}
        \/ /\ hits # {} /\ f \in DOMAIN resolved /\ Conflict(resolved[f], m)
           /\ Length(m) > Length(resolved[f])
           /\ Kept(resolved) \ {resolved[f]} \subseteq Kept(resolved')
           /\ Kept(resolved') \subseteq Kept(resolved) \cup {m}
           /\ m \in Kept(resolved')
        \/ /\ hits # {} /\ f \in DOMAIN resolved /\ Conflict(resolved[f], m)
           /\ ~(Length(m) > Length(resolved[f]))
           /\ resolved' = resolved
    <3>1. CASE hits = {}
      <4>1. resolved' = Append(resolved, m)  BY <3>1, <2>1, PlacedLast
      <4> HIDE DEF m
      <4>2. Kept(resolved') = Kept(resolved) \cup {m}  BY <4>1, <2>2, <2>t, KeptWithLast
      <4>3. QED  BY <3>1, <4>1, <4>2
    <3>2. CASE hits # {}
      <4>d. DOMAIN resolved \in SUBSET Nat  BY <2>t
      <4>f. f = Hit(resolved, live, m)  BY DEF Hit
      <4> HIDE DEF m, live, f
      <4>1. /\ f \in DOMAIN resolved /\ Conflict(resolved[f], m)
            /\ Place(resolved, live, m) = IF Length(m) > Length(resolved[f])
                                          THEN [resolved EXCEPT ![f] = m] ELSE resolved
        BY <3>2, <2>2, <4>d, <4>f, PlacedAt
      <4> HIDE DEF hits
      <4>2. CASE Length(m) > Length(resolved[f])
        <5>1. resolved' = [resolved EXCEPT ![f] = m]
          BY <4>1, <4>2, <2>1
        <5>2. /\ Kept(resolved) \ {resolved[f]} \subseteq Kept(resolved')
              /\ Kept(resolved') \subseteq Kept(resolved) \cup {m}
              /\ m \in Kept(resolved')
          BY <5>1, <4>1, <2>t DEF Kept
        <5>3. QED  BY <5>2, <4>1, <4>2, <3>2
      <4>3. CASE ~(Length(m) > Length(resolved[f]))
        <5>1. resolved' = resolved
          BY <4>1, <4>3, <2>1
        <5>2. QED  BY <5>1, <4>1, <4>3, <3>2
      <4>4. QED  BY <4>2, <4>3
    <3>3. QED  BY <3>1, <3>2
  <2>k. Kept(resolved) \subseteq Looked  BY DEF LongestInv, KeptWereLooked
  <2>f. hits # {} /\ f \in DOMAIN resolved => resolved[f] \in Looked
    BY <2>k DEF Kept
  <2> HIDE DEF m, hits, f
  <2>5. KeptWereLooked'
    BY <2>3, <2>4, <2>k DEF KeptWereLooked
  <2>6. LongestKept'
    <3> SUFFICES ASSUME NEW x \in Looked', Undisputed(x)'
                 PROVE  x \in Kept(resolved')
      BY DEF LongestKept
    <3>u. \A k \in Looked' : k # x /\ Conflict(k, x) => Length(k) < Length(x)
      BY DEF Undisputed
    <3>x. x \in Matches  BY <2>2, <2>3
    <3>1. CASE x = m
      <4>1. hits # {} /\ f \in DOMAIN resolved /\ Conflict(resolved[f], m)
            /\ ~(Length(m) > Length(resolved[f])) => resolved[f] = m
        <5> SUFFICES ASSUME hits # {}, f \in DOMAIN resolved, Conflict(resolved[f], m),
                            ~(Length(m) > Length(resolved[f])), resolved[f] # m
                     PROVE  FALSE
          OBVIOUS
        <5>1. Length(resolved[f]) < Length(m)
          BY <3>u, <3>1, <2>f, <2>3
        <5>2. Length(m) \in Int /\ Length(resolved[f]) \in Int
          BY <2>2, <2>f, <2>3 DEF Length, Matches
        <5>3. QED  BY <5>1, <5>2
      <4>2. QED  BY <4>1, <3>1, <2>4 DEF Kept
    <3>2. CASE x # m
      <4>1. x \in Looked /\ Undisputed(x)
        BY <3>2, <3>u, <2>3 DEF Undisputed
      <4>2. x \in Kept(resolved)  BY <4>1 DEF LongestInv, LongestKept
      <4>3. hits # {} /\ f \in DOMAIN resolved /\ Conflict(resolved[f], m)
            /\ Length(m) > Length(resolved[f]) => resolved[f] # x
        <5> SUFFICES ASSUME hits # {}, Conflict(x, m), Length(m) > Length(x)
                     PROVE  FALSE
          OBVIOUS
        <5>1. Conflict(m, x)  BY ConflictSymmetric, <3>x, <2>2
        <5>2. Length(m) < Length(x)  BY <5>1, <3>2, <3>u, <2>3
        <5>3. Length(m) \in Int /\ Length(x) \in Int  BY <2>2, <3>x DEF Length, Matches
        <5>4. QED  BY <5>2, <5>3
      <4>4. QED  BY <4>2, <4>3, <2>4
    <3>3. QED  BY <3>1, <3>2
  <2>7. QED  BY <2>5, <2>6 DEF LongestInv
<1>3. QED  BY <1>1, <1>2 DEF span_vars

(* A match longer than all it conflicts with is never lost.                    *)
THEOREM LongestMatchKept == SpanSpec => []LongestKept
<1>1. SpanInit => KeptWereLooked /\ LongestKept
  BY DEF SpanInit, KeptWereLooked, LongestKept, Looked, Kept
<1>2. SpanInit => LongestInv  BY <1>1, SweepInit DEF LongestInv
<1>3. LongestInv => LongestKept  BY DEF LongestInv
<1>4. QED  BY <1>2, <1>3, LongestStep, SweepInvariant, PTL DEF SpanSpec

-----------------------------------------------------------------------------
(* Chunks.  A text and its parts are lists of lists of characters.             *)
Letters == Seq(Nat)

Pieces == [k \in 1..(2 * Count - 1) |->
             IF k % 2 = 1 THEN text.sentences[(k + 1) \div 2] ELSE text.gaps[k \div 2]]

Run(i, j) == [k \in 1..(2 * (j - i + 1) - 1) |->
                IF k % 2 = 1 THEN text.sentences[i + (k \div 2)] ELSE <<Space>>]

LEMMA TextIs ==
  ASSUME text \in Texts
  PROVE  /\ Count \in Nat /\ \A i \in 1..Count : text.sentences[i] \in Letters /\ Size(i) \in Nat
         /\ Count > 0 => \A i \in 1..(Count - 1) : text.gaps[i] \in Letters
<1>1. /\ text.sentences \in Seq(Letters) /\ text.gaps \in Seq(Letters)
      /\ text.sentences # <<>> => Len(text.sentences) = Len(text.gaps) + 1
  BY TextsAssumption DEF Letters
<1>2. PICK S : S = Letters  OBVIOUS
<1>3. PICK said \in Seq(S), gaps \in Seq(S) : said = text.sentences /\ gaps = text.gaps
  BY <1>1, <1>2
<1>4. Len(said) \in Nat /\ \A i \in 1..Len(said) : said[i] \in S  OBVIOUS
<1>5. Len(said) > 0 => \A i \in 1..(Len(said) - 1) : gaps[i] \in S
  <2>1. ASSUME Len(said) > 0  PROVE Len(gaps) = Len(said) - 1
    <3>1. said # <<>>  BY <2>1
    <3>2. Len(gaps) \in Nat  OBVIOUS
    <3>3. QED  BY <1>1, <1>3, <1>4, <3>1, <3>2
  <2>2. \A i \in 1..Len(gaps) : gaps[i] \in S  OBVIOUS
  <2>3. QED  BY <2>1, <2>2
<1>6. \A i \in 1..Count : Size(i) \in Nat
  <2>1. \A s \in Letters : Len(s) \in Nat  BY DEF Letters
  <2>2. QED  BY <1>2, <1>3, <1>4, <2>1 DEF Size, Count
<1>7. QED  BY <1>2, <1>3, <1>4, <1>5, <1>6 DEF Count

LEMMA RunIs ==
  ASSUME text \in Texts, NEW i \in 1..Count, NEW j \in i..Count
  PROVE  /\ Run(i, j) \in Seq(Letters) /\ Len(Run(i, j)) = 2 * (j - i + 1) - 1
         /\ Joined(i, j) = FlattenSeq(Run(i, j)) /\ Joined(i, j) \in Letters
<1>1. PICK n \in Nat : n = Count  BY TextIs
<1>2. i \in 1..n /\ j \in i..n  BY <1>1
<1>3. PICK m \in Nat : m = 2 * (j - i + 1) - 1  BY <1>2
<1>4. <<Space>> \in Letters  BY DEF Space, Letters
<1>5. ASSUME NEW k \in 1..m
      PROVE  (IF k % 2 = 1 THEN text.sentences[i + (k \div 2)] ELSE <<Space>>) \in Letters
  <2>1. i + (k \div 2) \in 1..n  BY <1>2, <1>3
  <2>2. QED  BY <1>1, <1>4, <2>1, TextIs
<1>6. Run(i, j) \in [1..m -> Letters]  BY <1>3, <1>5 DEF Run
<1>7. Run(i, j) \in Seq(Letters) /\ Len(Run(i, j)) = m  BY <1>6, SeqDef
<1>8. Joined(i, j) = FlattenSeq(Run(i, j))  BY DEF Joined, Run
<1>9. FlattenSeq(Run(i, j)) \in Letters  BY <1>7, FlattenIs DEF Letters
<1>10. QED  BY <1>3, <1>7, <1>8, <1>9

(* The length that is counted while sentences are taken is the length of what  *)
(* they are joined to.                                                         *)
LEMMA LengthIs ==
  ASSUME text \in Texts, NEW i \in 1..Count, NEW j \in i..Count
  PROVE  /\ LengthOf(i, j) \in Nat /\ LengthOf(i, j) = Len(Joined(i, j))
         /\ j = i => LengthOf(i, j) = Size(i)
         /\ j < Count => LengthOf(i, j + 1) = LengthOf(i, j) + 1 + Size(j + 1)
<1>1. PICK n \in Nat : n = Count  BY TextIs
<1>2. i \in 1..n /\ j \in i..n /\ ~(i > j)  BY <1>1
<1>3. LengthOf(i, j) = Len(Joined(i, j))  BY <1>2 DEF LengthOf
<1>4. \A s \in Letters : Len(s) \in Nat  BY DEF Letters
<1>5. LengthOf(i, j) \in Nat  BY <1>3, <1>4, RunIs
<1>6. ASSUME j = i  PROVE LengthOf(i, j) = Size(i)
  <2>1. Run(i, i) \in Seq(Letters) /\ Len(Run(i, i)) = 1 /\ Joined(i, i) = FlattenSeq(Run(i, i))
    <3>1. 2 * (i - i + 1) - 1 = 1  BY <1>2
    <3>2. QED  BY <1>6, <3>1, RunIs
  <2>2. FlattenSeq(Run(i, i)) = Run(i, i)[1]  BY <2>1, FlattenOne DEF Letters
  <2>3. Run(i, i)[1] = text.sentences[i]
    <3>1. 1 \in 1..(2 * (i - i + 1) - 1) /\ 1 % 2 = 1 /\ i + (1 \div 2) = i  BY <1>2
    <3>2. QED  BY <3>1 DEF Run
  <2>4. QED  BY <1>3, <1>6, <2>1, <2>2, <2>3 DEF Size
<1>7. ASSUME j < Count  PROVE LengthOf(i, j + 1) = LengthOf(i, j) + 1 + Size(j + 1)
  <2>1. PICK m \in Nat : m = 2 * (j - i + 1) - 1  BY <1>2
  <2>2. /\ j + 1 \in i..Count /\ j + 1 \in 1..Count /\ ~(i > j + 1)
        /\ 2 * ((j + 1) - i + 1) - 1 = m + 2
    BY <1>1, <1>2, <1>7, <2>1
  <2>3. PICK a \in Seq(Letters) : a = Run(i, j) /\ Len(a) = m /\ Joined(i, j) = FlattenSeq(a)
    BY <2>1, RunIs
  <2>4. PICK c \in Seq(Letters) : c = Run(i, j + 1) /\ Len(c) = m + 2
                                    /\ Joined(i, j + 1) = FlattenSeq(c)
    BY <2>2, RunIs
  <2>5. /\ \A k \in 1..m : c[k] = a[k]
        /\ c[m + 1] = <<Space>> /\ c[m + 2] = text.sentences[j + 1]
    <3>1. \A k \in 1..m : k \in 1..(m + 2)  OBVIOUS
    <3>2. /\ m + 1 \in 1..(m + 2) /\ m + 2 \in 1..(m + 2)
          /\ (m + 1) % 2 # 1 /\ (m + 2) % 2 = 1 /\ i + ((m + 2) \div 2) = j + 1
      BY <1>2, <2>1
    <3>3. a = [k \in 1..m |-> IF k % 2 = 1 THEN text.sentences[i + (k \div 2)] ELSE <<Space>>]
      BY <2>1, <2>3 DEF Run
    <3>4. c = [k \in 1..(m + 2) |-> IF k % 2 = 1 THEN text.sentences[i + (k \div 2)] ELSE <<Space>>]
      BY <2>2, <2>4 DEF Run
    <3>5. QED  BY <3>1, <3>2, <3>3, <3>4
  <2>6. PICK b \in Seq(Letters) : Len(b) = m + 1 /\ \A k \in 1..(m + 1) : b[k] = c[k]
    <3>1. \A k \in 1..(m + 1) : k \in 1..(m + 2)  OBVIOUS
    <3>2. \A k \in 1..(m + 1) : c[k] \in Letters  BY <2>4, <3>1
    <3>3. PICK d : d = [k \in 1..(m + 1) |-> c[k]]  OBVIOUS
    <3>4. d \in [1..(m + 1) -> Letters]  BY <3>2, <3>3
    <3>5. d \in Seq(Letters) /\ Len(d) = m + 1  BY <3>4, SeqDef
    <3>6. QED  BY <3>3, <3>5
  <2>7. FlattenSeq(b) = FlattenSeq(a) \o <<Space>>
    <3>1. \A k \in 1..m : b[k] = a[k]
      <4>1. \A k \in 1..m : k \in 1..(m + 1)  OBVIOUS
      <4>2. QED  BY <2>5, <2>6, <4>1
    <3>2. b[m + 1] = <<Space>>  BY <2>5, <2>6
    <3>3. QED  BY <2>3, <2>6, <3>1, <3>2, FlattenMore DEF Letters
  <2>8. FlattenSeq(c) = FlattenSeq(b) \o text.sentences[j + 1]
    <3>1. Len(c) = Len(b) + 1 /\ c[Len(b) + 1] = text.sentences[j + 1]  BY <2>4, <2>5, <2>6
    <3>2. \A k \in 1..Len(b) : c[k] = b[k]  BY <2>6
    <3>3. QED  BY <3>1, <3>2, FlattenMore DEF Letters
  <2>9. FlattenSeq(a) \in Seq(Nat) /\ <<Space>> \in Seq(Nat) /\ text.sentences[j + 1] \in Seq(Nat)
    <3>1. FlattenSeq(a) \in Seq(Nat)  BY FlattenIs DEF Letters
    <3>2. text.sentences[j + 1] \in Seq(Nat)  BY <2>2, TextIs DEF Letters
    <3>3. QED  BY <3>1, <3>2 DEF Space
  <2>10. Len(FlattenSeq(c)) = Len(FlattenSeq(a)) + 1 + Size(j + 1)
    BY <2>7, <2>8, <2>9 DEF Size
  <2>11. QED  BY <1>3, <2>2, <2>3, <2>4, <2>10 DEF LengthOf
<1>8. QED  BY <1>3, <1>5, <1>6, <1>7

LEMMA FullIs ==
  ASSUME text \in Texts, Count > 0
  PROVE  /\ Pieces \in Seq(Letters) /\ Len(Pieces) = 2 * Count - 1
         /\ Full = FlattenSeq(Pieces) /\ Full \in Letters
<1>1. PICK n \in Nat : n = Count  BY TextIs
<1>2. PICK m \in Nat : m = 2 * n - 1  BY <1>1
<1>3. ASSUME NEW k \in 1..m
      PROVE  (IF k % 2 = 1 THEN text.sentences[(k + 1) \div 2] ELSE text.gaps[k \div 2]) \in Letters
  <2>1. k % 2 = 1 => (k + 1) \div 2 \in 1..n  BY <1>2
  <2>2. k % 2 # 1 => k \div 2 \in 1..(n - 1)  BY <1>2
  <2>3. QED  BY <1>1, <2>1, <2>2, TextIs
<1>4. Pieces \in [1..m -> Letters]  BY <1>1, <1>2, <1>3 DEF Pieces
<1>5. Pieces \in Seq(Letters) /\ Len(Pieces) = m  BY <1>4, SeqDef
<1>6. Full = FlattenSeq(Pieces)  BY DEF Full, Pieces
<1>7. FlattenSeq(Pieces) \in Letters  BY <1>5, FlattenIs DEF Letters
<1>8. QED  BY <1>1, <1>2, <1>5, <1>6, <1>7

(* Where s says t from place p on.                                             *)
Says(s, t, p) == p + Len(t) <= Len(s) /\ SubSeq(s, p + 1, p + Len(t)) = t

LEMMA SaysWhen ==
  ASSUME NEW s \in Letters, NEW t \in Letters, NEW p \in Nat, p + Len(t) <= Len(s),
         \A i \in 1..Len(t) : s[p + i] = t[i]
  PROVE  Says(s, t, p)
<1>1. PICK a \in Nat, b \in Nat : a = Len(s) /\ b = Len(t)  BY DEF Letters
<1>2. \A i \in (p + 1)..(p + b) : s[i] \in Nat
  <2>1. \A i \in 1..a : s[i] \in Nat  BY <1>1 DEF Letters
  <2>2. \A i \in (p + 1)..(p + b) : i \in 1..a  BY <1>1
  <2>3. QED  BY <2>1, <2>2
<1>3. PICK part : part = SubSeq(s, p + 1, p + b)  OBVIOUS
<1>4. /\ part \in Seq(Nat) /\ Len(part) = b
      /\ \A i \in 1..b : part[i] = s[p + i]
  <2>1. p + 1 \in Int /\ p + b \in Int /\ (p + b) - (p + 1) + 1 = b  OBVIOUS
  <2>2. /\ part \in Seq(Nat)
        /\ Len(part) = IF p + 1 <= p + b THEN (p + b) - (p + 1) + 1 ELSE 0
        /\ \A i \in 1..((p + b) - (p + 1) + 1) : part[i] = s[(p + 1) + i - 1]
    BY <1>2, <1>3, <2>1, SubSeqProperties
  <2>3. \A i \in 1..b : (p + 1) + i - 1 = p + i  OBVIOUS
  <2>4. Len(part) = b  BY <2>1, <2>2
  <2>5. QED  BY <2>1, <2>2, <2>3, <2>4
<1>5. \A i \in 1..b : part[i] = t[i]  BY <1>1, <1>4
<1>6. part = t  BY <1>1, <1>4, <1>5, SeqEqual DEF Letters
<1>7. QED  BY <1>1, <1>3, <1>6 DEF Says

(* The sentences stand in the text one after the other.                        *)
Stand(place) ==
  /\ \A i \in 1..Count : place[i] \in Nat /\ Says(Full, text.sentences[i], place[i])
  /\ \A i \in 1..Count : i > 1 => place[i - 1] + Size(i - 1) <= place[i]

LEMMA SentencesStand ==
  ASSUME text \in Texts
  PROVE  \E place : Stand(place)
<1>1. PICK n \in Nat : n = Count  BY TextIs
<1>2. CASE n = 0
  <2>1. \A i \in 1..Count : FALSE  BY <1>1, <1>2
  <2>2. Stand(<<>>)  BY <2>1 DEF Stand
  <2>3. QED  BY <2>2
<1>3. CASE n > 0
  <2>1. PICK m \in Nat : m = 2 * n - 1  BY <1>3
  <2>2. /\ Pieces \in Seq(Letters) /\ Len(Pieces) = m
        /\ Full = FlattenSeq(Pieces) /\ Full \in Letters
    BY <1>1, <1>3, <2>1, FullIs
  <2>3. PICK part : Parts(Pieces, Nat, part)  BY <2>2, FlattenIs DEF Letters
  <2>4. \A k \in 1..m : Sits(Pieces, part, k)  BY <2>2, <2>3, FlattenHas
  <2>5. PICK place : place = [i \in 1..n |-> Len(part[(2 * i) - 2])]  OBVIOUS
  <2>6. ASSUME NEW i \in 1..n
        PROVE  /\ place[i] \in Nat /\ Len(part[2 * i - 1]) = place[i] + Size(i)
               /\ Says(Full, text.sentences[i], place[i])
    <3>1. PICK k \in 1..m : k = 2 * i - 1  BY <2>1
    <3>2. k - 1 = 2 * i - 2 /\ k % 2 = 1 /\ (k + 1) \div 2 = i  BY <3>1
    <3>3. Pieces[k] = text.sentences[i]  BY <1>1, <2>1, <3>2 DEF Pieces
    <3>4. place[i] = Len(part[k - 1])  BY <2>5, <3>2
    <3>5. Sits(Pieces, part, k)  BY <2>4
    <3>6. /\ place[i] \in Nat /\ Len(part[k]) = place[i] + Size(i) /\ Len(part[k]) <= Len(Full)
          /\ \A p \in 1..Size(i) : Full[place[i] + p] = text.sentences[i][p]
      BY <2>2, <3>3, <3>4, <3>5 DEF Sits, Size
    <3>7. text.sentences[i] \in Letters  BY <1>1, TextIs
    <3>8. Says(Full, text.sentences[i], place[i])
      BY <2>2, <3>6, <3>7, SaysWhen DEF Size
    <3>9. QED  BY <3>1, <3>6, <3>8
  <2>7. ASSUME NEW i \in 1..n, i > 1  PROVE place[i - 1] + Size(i - 1) <= place[i]
    <3>1. i - 1 \in 1..n /\ 2 * (i - 1) - 1 = 2 * i - 3  BY <2>7
    <3>2. Len(part[2 * i - 3]) = place[i - 1] + Size(i - 1)  BY <2>6, <3>1
    <3>3. PICK k \in 1..m : k = 2 * i - 2  BY <2>1, <2>7
    <3>4. k - 1 = 2 * i - 3  BY <3>3
    <3>5. k - 1 \in 0..m /\ k \in (k - 1)..m  OBVIOUS
    <3>6. Len(part[k - 1]) <= Len(part[k])  BY <2>2, <2>3, <3>5, PartsGrow
    <3>7. place[i] = Len(part[k])  BY <2>5, <3>3
    <3>8. QED  BY <3>2, <3>4, <3>6, <3>7
  <2>8. Stand(place)  BY <1>1, <2>6, <2>7 DEF Stand
  <2>9. QED  BY <2>8
<1>4. QED  BY <1>2, <1>3

(* What str.find answers: -1 when the quote is not there, or its first place.  *)
LEMMA FindIs ==
  ASSUME NEW s \in Letters, NEW quote \in Letters, NEW from \in Nat
  PROVE  LET p == FindIn(s, quote, from)
         IN  \/ p = -1 /\ \A q \in Nat : q >= from => ~Says(s, quote, q)
             \/ /\ p \in Nat /\ p >= from /\ Says(s, quote, p)
                /\ \A q \in Nat : q >= from /\ Says(s, quote, q) => p <= q
<1> DEFINE places == {p \in from..(Len(s) - Len(quote)) : SubSeq(s, p + 1, p + Len(quote)) = quote}
<1>1. FindIn(s, quote, from) =
        IF places = {} THEN -1 ELSE CHOOSE p \in places : \A q \in places : p <= q
  BY DEF FindIn
<1>2. Len(s) \in Nat /\ Len(quote) \in Nat  BY DEF Letters
<1>3. \A q \in Nat : q >= from /\ Says(s, quote, q) <=> q \in places
  <2> TAKE q \in Nat
  <2>1. q \in from..(Len(s) - Len(quote)) <=> q >= from /\ q + Len(quote) <= Len(s)  BY <1>2
  <2>2. QED  BY <2>1 DEF Says
<1>4. places \in SUBSET Nat  BY <1>2
<1> HIDE DEF places
<1>5. CASE places = {}  BY <1>1, <1>3, <1>5
<1>6. CASE places # {}
  <2>1. PICK p \in places : p = FindIn(s, quote, from) /\ \A q \in places : p <= q
    BY <1>1, <1>4, <1>6, LeastIs
  <2>2. p \in Nat  BY <1>4
  <2>3. QED  BY <1>3, <2>1, <2>2
<1>7. QED  BY <1>5, <1>6

(* Searching each sentence from the end of the one before finds every one, no  *)
(* later than where it stands.                                                 *)
Found == [start : Nat, end : Nat]

NextFound(i, e) ==
  LET p == FindIn(Full, text.sentences[i], e.end)
      s == IF p = -1 THEN e.end ELSE p
  IN  [start |-> s, end |-> s + Size(i)]

LEMMA IndexIs ==
  ASSUME text \in Texts
  PROVE  SentenceIndexExact
<1>1. PICK n \in Nat : n = Count  BY TextIs
<1>2. PICK place : Stand(place)  BY SentencesStand
<1> SUFFICES ASSUME n > 0  PROVE SentenceIndexExact
  <2>1. n = 0 => \A i \in 1..Count : FALSE  BY <1>1
  <2>2. QED  BY <2>1 DEF SentenceIndexExact
<1>3. Full \in Letters  BY <1>1, FullIs
<1>4. \A i \in 1..n : text.sentences[i] \in Letters /\ Size(i) \in Nat  BY <1>1, TextIs
<1> DEFINE Eq(f) == f = [i \in 0..Count |->
                           IF i = 0 THEN [start |-> 0, end |-> 0] ELSE NextFound(i, f[i - 1])]
           at == CHOOSE f : Eq(f)
           base == [start |-> 0, end |-> 0]
           step == [i \in 1..n |-> [e \in Found |-> NextFound(i, e)]]
<1>5. SentenceIndex = [i \in 1..Count |-> at[i].start]
  BY DEF SentenceIndex, NextFound
<1>6. ASSUME NEW i \in 1..n, NEW e \in Found
      PROVE  /\ NextFound(i, e) \in Found
             /\ NextFound(i, e).end = NextFound(i, e).start + Size(i)
             /\ NextFound(i, e).start >= e.end
             /\ e.end <= place[i] => /\ Says(Full, text.sentences[i], NextFound(i, e).start)
                                     /\ NextFound(i, e).start <= place[i]
  <2>1. e.end \in Nat  BY DEF Found
  <2>2. PICK p : p = FindIn(Full, text.sentences[i], e.end)  OBVIOUS
  <2>3. \/ p = -1 /\ \A q \in Nat : q >= e.end => ~Says(Full, text.sentences[i], q)
        \/ /\ p \in Nat /\ p >= e.end /\ Says(Full, text.sentences[i], p)
           /\ \A q \in Nat : q >= e.end /\ Says(Full, text.sentences[i], q) => p <= q
    BY <1>3, <1>4, <2>1, <2>2, FindIs
  <2>4. PICK s \in Nat : s = IF p = -1 THEN e.end ELSE p  BY <2>1, <2>3
  <2>5. NextFound(i, e) = [start |-> s, end |-> s + Size(i)]  BY <2>2, <2>4 DEF NextFound
  <2>6. s >= e.end  BY <2>1, <2>3, <2>4
  <2>7. ASSUME e.end <= place[i]  PROVE Says(Full, text.sentences[i], s) /\ s <= place[i]
    <3>1. place[i] \in Nat /\ Says(Full, text.sentences[i], place[i])  BY <1>1, <1>2 DEF Stand
    <3>2. place[i] >= e.end  BY <2>1, <2>7, <3>1
    <3>3. p # -1  BY <2>3, <3>1, <3>2
    <3>4. QED  BY <2>3, <2>4, <3>1, <3>2, <3>3
  <2>8. NextFound(i, e) \in Found  BY <1>4, <2>5 DEF Found
  <2>9. QED  BY <2>5, <2>6, <2>7, <2>8
<1>7. step \in [1..n -> [Found -> Found]]
  <2> HIDE DEF base
  <2>1. QED  BY <1>6
<1>8. base \in Found  BY DEF Found
<1>9. \E f : Eq(f)
  <2> HIDE DEF step, base
  <2>1. PICK f : Values(n, Found, base, step, f, f[n])  BY <1>7, <1>8, ValuesExist
  <2>2. f \in [0..n -> Found] /\ f[0] = base /\ \A k \in 1..n : f[k] = step[k][f[k - 1]]
    BY <2>1 DEF Values
  <2>3. ASSUME NEW k \in 0..n
        PROVE  f[k] = IF k = 0 THEN base ELSE NextFound(k, f[k - 1])
    <3>1. CASE k = 0  BY <2>2, <3>1
    <3>2. CASE k # 0
      <4>1. k \in 1..n /\ k - 1 \in 0..n  BY <3>2
      <4>2. f[k - 1] \in Found /\ f[k] = step[k][f[k - 1]]  BY <2>2, <4>1
      <4>3. step[k][f[k - 1]] = NextFound(k, f[k - 1])  BY <4>1, <4>2 DEF step
      <4>4. QED  BY <3>2, <4>2, <4>3
    <3>3. QED  BY <3>1, <3>2
  <2>4. f = [k \in 0..n |-> f[k]]  BY <2>2
  <2>5. f = [k \in 0..n |-> IF k = 0 THEN base ELSE NextFound(k, f[k - 1])]  BY <2>3, <2>4
  <2>6. Eq(f)  BY <1>1, <2>5 DEF base
  <2>7. QED  BY <2>6
<1>10. Eq(at)  BY <1>9
<1> HIDE DEF at, step
<1>11. at[0] = base /\ \A i \in 1..n : at[i] = NextFound(i, at[i - 1])
  <2>1. 0 \in 0..Count /\ \A i \in 1..n : i \in 0..Count /\ i # 0  BY <1>1
  <2>2. QED  BY <1>10, <2>1
<1> DEFINE S == {i \in 0..n : /\ at[i] \in Found
                              /\ i > 0 => /\ Says(Full, text.sentences[i], at[i].start)
                                          /\ at[i].end = at[i].start + Size(i)
                                          /\ at[i].start <= place[i]
                                          /\ at[i].start >= at[i - 1].end}
<1>12. 0 \in S  BY <1>8, <1>11
<1>13. ASSUME NEW i \in 0..(n - 1), i \in S  PROVE i + 1 \in S
  <2>1. i + 1 \in 1..n /\ (i + 1) - 1 = i /\ i + 1 \in 0..n /\ i + 1 > 0  OBVIOUS
  <2>2. at[i] \in Found /\ at[i + 1] = NextFound(i + 1, at[i])  BY <1>11, <1>13, <2>1
  <2>3. place[i + 1] \in Nat  BY <1>1, <1>2, <2>1 DEF Stand
  <2>4. at[i].end <= place[i + 1]
    <3>1. CASE i = 0
      <4>1. at[i].end = 0  BY <1>11, <3>1
      <4>2. QED  BY <2>3, <4>1
    <3>2. CASE i # 0
      <4>1. i \in 1..n /\ i > 0  BY <3>2
      <4>2. at[i].end = at[i].start + Size(i) /\ at[i].start <= place[i]  BY <1>13, <4>1
      <4>3. place[i] \in Nat /\ place[(i + 1) - 1] + Size((i + 1) - 1) <= place[i + 1]
        <5>1. i + 1 > 1 /\ i + 1 \in 1..Count /\ i \in 1..Count  BY <1>1, <2>1, <4>1
        <5>2. QED  BY <1>2, <5>1 DEF Stand
      <4>4. at[i].start \in Nat /\ Size(i) \in Nat  BY <1>4, <2>2, <4>1 DEF Found
      <4>5. QED  BY <2>1, <2>3, <4>2, <4>3, <4>4
    <3>3. QED  BY <3>1, <3>2
  <2>5. PICK e \in Found : e = at[i]  BY <2>2
  <2>6. /\ NextFound(i + 1, e) \in Found
        /\ NextFound(i + 1, e).end = NextFound(i + 1, e).start + Size(i + 1)
        /\ NextFound(i + 1, e).start >= e.end
        /\ Says(Full, text.sentences[i + 1], NextFound(i + 1, e).start)
        /\ NextFound(i + 1, e).start <= place[i + 1]
    BY <1>6, <2>1, <2>4, <2>5
  <2>7. QED  BY <2>1, <2>2, <2>5, <2>6
<1>14. \A i \in 0..n : i \in S
  <2> HIDE DEF S
  <2>1. 0..n \subseteq S  BY <1>12, <1>13, UpTo
  <2>2. QED  BY <2>1
<1>15. ASSUME NEW i \in 1..n
       PROVE  /\ SubSeq(Full, SentenceIndex[i] + 1, SentenceIndex[i] + Size(i)) = text.sentences[i]
              /\ i > 1 => SentenceIndex[i - 1] + Size(i - 1) <= SentenceIndex[i]
  <2>1. i \in 0..n /\ i > 0 /\ i \in S  BY <1>14
  <2>2. SentenceIndex[i] = at[i].start  BY <1>1, <1>5
  <2>3. Says(Full, text.sentences[i], at[i].start)  BY <2>1
  <2>4. ASSUME i > 1  PROVE SentenceIndex[i - 1] + Size(i - 1) <= SentenceIndex[i]
    <3>1. i - 1 \in 1..n /\ i - 1 \in 0..n /\ i - 1 > 0  BY <2>4
    <3>2. SentenceIndex[i - 1] = at[i - 1].start  BY <1>1, <1>5, <3>1
    <3>3. at[i - 1].end = at[i - 1].start + Size(i - 1) /\ at[i - 1] \in Found
      BY <1>14, <3>1
    <3>4. at[i].start >= at[i - 1].end /\ at[i] \in Found  BY <2>1
    <3>5. at[i].start \in Nat /\ at[i - 1].end \in Nat  BY <3>3, <3>4 DEF Found
    <3>6. QED  BY <2>2, <3>2, <3>3, <3>4, <3>5
  <2>5. QED  BY <2>2, <2>3, <2>4 DEF Says, Size
<1>16. QED  BY <1>1, <1>15 DEF SentenceIndexExact

(* The limit of a chunk: its longest sentence, or what a prompt may have.      *)
Sizes(t, i, j) == {Len(t.sentences[k]) : k \in i..j} \cup {MaxChars}

Longest(t, i, j) == CHOOSE n \in Sizes(t, i, j) : \A m \in Sizes(t, i, j) : m <= n

LengthIn(t, i, j) ==
  IF i > j THEN 0
  ELSE Len(FlattenSeq([k \in 1..(2 * (j - i + 1) - 1) |->
             IF k % 2 = 1 THEN t.sentences[i + (k \div 2)] ELSE <<Space>>]))

LEMMA SameLength ==
  ASSUME NEW i, NEW j
  PROVE  LengthOf(i, j) = LengthIn(text, i, j)
BY DEF LengthOf, Joined, LengthIn

LEMMA LongestIs ==
  ASSUME text \in Texts, NEW i \in Nat, NEW j \in Nat, i > 0, j <= Count
  PROVE  /\ Longest(text, i, j) \in Nat /\ MaxChars <= Longest(text, i, j)
         /\ \A k \in i..j : Size(k) <= Longest(text, i, j)
<1>1. \A k \in i..j : k \in 1..Count  BY TextIs
<1>2. \A k \in i..j : Size(k) \in Nat  BY <1>1, TextIs
<1>3. PICK f : f = [k \in i..j |-> Size(k)]  OBVIOUS
<1>4. IsFiniteSet(i..j)  BY FS_Interval
<1>5. IsFiniteSet({f[k] : k \in i..j})  BY <1>3, <1>4, ImageFinite
<1>6. {f[k] : k \in i..j} = {Size(k) : k \in i..j}  BY <1>3
<1>7. IsFiniteSet(Sizes(text, i, j))  BY <1>5, <1>6, FS_AddElement DEF Sizes, Size
<1>8. Sizes(text, i, j) \in SUBSET Nat /\ MaxChars \in Sizes(text, i, j)
  BY <1>2, ChunksAssumption DEF Sizes, Size
<1>9. PICK top \in Sizes(text, i, j) : \A y \in Sizes(text, i, j) : y <= top
  BY <1>7, <1>8, GreatestIs
<1>10. /\ Longest(text, i, j) \in Sizes(text, i, j)
       /\ \A y \in Sizes(text, i, j) : y <= Longest(text, i, j)
  BY <1>9 DEF Longest
<1>11. \A k \in i..j : Size(k) \in Sizes(text, i, j)  BY DEF Sizes, Size
<1>12. QED  BY <1>8, <1>10, <1>11

(* What is kept for the next chunk fits in the overlap.                        *)
LEMMA KeptIs ==
  ASSUME text \in Texts, taken \in 1..Count, first \in 1..taken
  PROVE  /\ KeptFrom \in first..(taken + 1) /\ LengthIn(text, KeptFrom, taken) <= OverlapChars
<1>1. PICK n \in Nat : n = Count  BY TextIs
<1>2. PICK i \in Nat, j \in Nat : i = first /\ j = taken /\ i > 0 /\ i <= j /\ j <= n  BY <1>1
<1> DEFINE S == {f \in i..(j + 1) : LengthOf(f, j) <= OverlapChars}
<1>3. LengthOf(j + 1, j) = 0  BY DEF LengthOf
<1>4. S # {}
  <2>1. j + 1 \in i..(j + 1)  BY <1>2
  <2>2. QED  BY <1>3, <2>1, ChunksAssumption
<1>5. S \in SUBSET Nat  OBVIOUS
<1> HIDE DEF S
<1>6. PICK x \in S : \A y \in S : x <= y  BY <1>4, <1>5, LeastIs
<1> USE DEF S
<1>7. ASSUME NEW g \in i..(x - 1)  PROVE LengthOf(g, j) > OverlapChars
  <2>1. g \in i..(j + 1) /\ ~(x <= g) /\ g \in 1..Count /\ j \in g..Count  BY <1>1, <1>2
  <2>2. g \notin S
    <3> HIDE DEF S
    <3>1. QED  BY <1>6, <2>1
  <2>3. LengthOf(g, j) \in Nat  BY <2>1, LengthIs
  <2>4. QED  BY <2>1, <2>2, <2>3, ChunksAssumption
<1>8. \E f \in first..(taken + 1) :
        /\ LengthOf(f, taken) <= OverlapChars
        /\ \A g \in first..(f - 1) : LengthOf(g, taken) > OverlapChars
  BY <1>2, <1>7
<1>9. KeptFrom \in first..(taken + 1) /\ LengthOf(KeptFrom, taken) <= OverlapChars
  BY <1>8 DEF KeptFrom
<1>10. QED  BY <1>9, SameLength

-----------------------------------------------------------------------------
(* The invariant of the cutting: the chunks so far follow one another, the     *)
(* sentences at hand go on from the last of them, and they have room.          *)
Cuts == [first : Nat, last : Nat, start : Int, text : Letters]

AtHand == [first |-> first, last |-> taken]

InOrder(a, b) == /\ a.first <= b.first /\ b.first <= a.last + 1 /\ a.last < b.last
                 /\ LengthIn(text, b.first, a.last) <= OverlapChars

Room(length, i, j) == length <= OverlapChars + 1 + Longest(text, i, j)

CutTyped == /\ text \in Texts /\ taken \in 0..Count /\ first \in 1..(taken + 1)
            /\ chunk_start \in Int /\ chunks \in Seq(Cuts)

Followed == \A k \in 1..(Len(chunks) - 1) : InOrder(chunks[k], chunks[k + 1])

Roomy == /\ \A k \in 1..Len(chunks) : Room(Len(chunks[k].text), chunks[k].first, chunks[k].last)
         /\ first <= taken => Room(LengthIn(text, first, taken), first, taken)

GoesOn == /\ chunks = <<>> => first = 1
          /\ chunks # <<>> =>
               /\ chunks[1].first = 1
               /\ \/ taken = Count /\ first = Count + 1 /\ chunks[Len(chunks)].last = Count
                  \/ first <= taken /\ InOrder(chunks[Len(chunks)], AtHand)

CutInv == CutTyped /\ Followed /\ Roomy /\ GoesOn

LEMMA CutInit == ChunkInit => CutInv
<1> SUFFICES ASSUME ChunkInit  PROVE CutInv  OBVIOUS
<1>1. /\ text \in Texts /\ first = 1 /\ taken = 0 /\ chunk_start = 0 /\ chunks = <<>>
  BY DEF ChunkInit
<1>2. Count \in Nat  BY <1>1, TextIs
<1>3. CutTyped  BY <1>1, <1>2 DEF CutTyped
<1>4. Followed /\ Roomy /\ GoesOn  BY <1>1 DEF Followed, Roomy, GoesOn
<1>5. QED  BY <1>3, <1>4 DEF CutInv

(* Another chunk behind the others.                                            *)
LEMMA AddedIs ==
  ASSUME NEW C, NEW list \in Seq(C), NEW c \in C
  PROVE  /\ Append(list, c) \in Seq(C) /\ Len(list) \in Nat
         /\ Len(Append(list, c)) = Len(list) + 1
         /\ Append(list, c)[Len(list) + 1] = c
         /\ \A k \in 1..Len(list) : Append(list, c)[k] = list[k]
OBVIOUS

LEMMA Added ==
  ASSUME CutInv, NEW c \in Cuts, Room(Len(c.text), c.first, c.last),
         chunks = <<>> => c.first = 1, chunks # <<>> => InOrder(chunks[Len(chunks)], c)
  PROVE  LET list == Append(chunks, c)
         IN  /\ list \in Seq(Cuts) /\ list # <<>> /\ list[Len(list)] = c /\ list[1].first = 1
             /\ \A k \in 1..(Len(list) - 1) : InOrder(list[k], list[k + 1])
             /\ \A k \in 1..Len(list) : Room(Len(list[k].text), list[k].first, list[k].last)
<1>1. chunks \in Seq(Cuts)  BY DEF CutInv, CutTyped
<1>2. PICK n \in Nat : n = Len(chunks)  BY <1>1
<1>3. PICK list : list = Append(chunks, c)  OBVIOUS
<1>4. /\ list \in Seq(Cuts) /\ Len(list) = n + 1 /\ list[n + 1] = c
      /\ \A k \in 1..n : list[k] = chunks[k]
  BY <1>1, <1>2, <1>3, AddedIs
<1>5. list # <<>>  BY <1>4
<1>6. list[1].first = 1
  <2>1. CASE n = 0
    <3>1. chunks = <<>>  BY <1>1, <1>2, <2>1, EmptySeq
    <3>2. QED  BY <1>4, <2>1, <3>1
  <2>2. CASE n # 0
    <3>1. chunks # <<>> /\ 1 \in 1..n  BY <1>2, <2>2
    <3>2. chunks[1].first = 1  BY <3>1 DEF CutInv, GoesOn
    <3>3. QED  BY <1>4, <3>1, <3>2
  <2>3. QED  BY <2>1, <2>2
<1>7. ASSUME NEW k \in 1..n  PROVE InOrder(list[k], list[k + 1])
  <2>1. CASE k = n
    <3>1. chunks # <<>>  BY <1>2, <2>1
    <3>2. InOrder(chunks[n], c)  BY <1>2, <3>1
    <3>3. list[k] = chunks[n] /\ list[k + 1] = c  BY <1>4, <2>1
    <3>4. QED  BY <3>2, <3>3
  <2>2. CASE k # n
    <3>1. k \in 1..(n - 1) /\ k + 1 \in 1..n  BY <2>2
    <3>2. InOrder(chunks[k], chunks[k + 1])  BY <1>2, <3>1 DEF CutInv, Followed
    <3>3. QED  BY <1>4, <3>1, <3>2
  <2>3. QED  BY <2>1, <2>2
<1>8. ASSUME NEW k \in 1..(n + 1)  PROVE Room(Len(list[k].text), list[k].first, list[k].last)
  <2>1. CASE k = n + 1  BY <1>4, <2>1
  <2>2. CASE k # n + 1
    <3>1. k \in 1..n  BY <2>2
    <3>2. Room(Len(chunks[k].text), chunks[k].first, chunks[k].last)
      BY <1>2, <3>1 DEF CutInv, Roomy
    <3>3. QED  BY <1>4, <3>1, <3>2
  <2>3. QED  BY <2>1, <2>2
<1>9. Len(list) - 1 = n  BY <1>4
<1>10. QED  BY <1>3, <1>4, <1>5, <1>6, <1>7, <1>8, <1>9

(* Another sentence at hand has room with those before it, when it fits and    *)
(* when what is before it is the overlap.                                      *)
LEMMA RoomForOne ==
  ASSUME text \in Texts, NEW i \in Nat, NEW j \in Nat, i > 0, i <= j + 1, j < Count,
         \/ i > j
         \/ LengthOf(i, j) + Size(j + 1) <= MaxChars
         \/ LengthOf(i, j) <= OverlapChars
  PROVE  Room(LengthIn(text, i, j + 1), i, j + 1)
<1>1. PICK n \in Nat : n = Count  BY TextIs
<1>2. /\ j + 1 \in 1..Count /\ j + 1 \in i..Count /\ i \in 1..Count
      /\ j + 1 <= Count /\ j + 1 \in i..(j + 1)
  BY <1>1
<1>3. PICK size \in Nat : size = Size(j + 1)  BY <1>2, TextIs
<1>4. PICK top \in Nat : top = Longest(text, i, j + 1) /\ MaxChars <= top /\ size <= top
  BY <1>2, <1>3, LongestIs
<1>5. MaxChars \in Nat /\ OverlapChars \in Nat  BY ChunksAssumption
<1>6. LengthOf(i, j + 1) <= OverlapChars + 1 + top
  <2>1. CASE i > j
    <3>1. j + 1 = i  BY <2>1
    <3>2. LengthOf(i, j + 1) = size  BY <1>2, <1>3, <3>1, LengthIs
    <3>3. QED  BY <1>4, <1>5, <3>2
  <2>2. CASE ~(i > j)
    <3>1. j \in i..Count  BY <1>1, <2>2
    <3>2. PICK length \in Nat : length = LengthOf(i, j)  BY <1>2, <3>1, LengthIs
    <3>3. LengthOf(i, j + 1) = length + 1 + size  BY <1>2, <1>3, <3>1, <3>2, LengthIs
    <3>4. QED  BY <1>3, <1>4, <1>5, <2>2, <3>2, <3>3
  <2>3. QED  BY <2>1, <2>2
<1>7. QED  BY <1>4, <1>6, SameLength DEF Room

LEMMA CutStep == CutInv /\ [ChunkNext]_chunk_vars => CutInv'
<1> SUFFICES ASSUME CutInv, [ChunkNext]_chunk_vars  PROVE CutInv'  OBVIOUS
<1>1. /\ text \in Texts /\ taken \in 0..Count /\ first \in 1..(taken + 1)
      /\ chunk_start \in Int /\ chunks \in Seq(Cuts)
  BY DEF CutInv, CutTyped
<1>2. PICK n \in Nat : n = Count  BY <1>1, TextIs
<1>3. /\ Followed /\ Roomy /\ GoesOn  BY DEF CutInv
<1>4. PICK m \in Nat : m = Len(chunks)  BY <1>1
<1>5. m = 0 <=> chunks = <<>>  BY <1>1, <1>4, EmptySeq
<1>6. CASE UNCHANGED <<text, first, taken, chunk_start, chunks>>
  BY <1>3, <1>1, <1>6
     DEF CutInv, CutTyped, Followed, Roomy, GoesOn, InOrder, AtHand, Room, Count
<1>7. CASE WholeText
  <2>1. PICK c : c = [first |-> 1, last |-> Count, start |-> 0, text |-> Full]  OBVIOUS
  <2>2. /\ IsShort /\ chunks = <<>> /\ Count > 0 /\ chunks' = <<c>>
        /\ taken' = Count /\ first' = Count + 1 /\ text' = text /\ chunk_start' = chunk_start
    BY <1>7, <2>1 DEF WholeText
  <2>3. Full \in Letters  BY <1>1, <2>2, FullIs
  <2>4. c \in Cuts  BY <1>2, <2>1, <2>3 DEF Cuts
  <2>5. Room(Len(c.text), c.first, c.last)
    <3>1. Longest(text, 1, n) \in Nat /\ MaxChars <= Longest(text, 1, n)  BY <1>1, <1>2, LongestIs
    <3>2. Len(Full) \in Nat /\ Len(Full) <= MaxChars  BY <2>2, <2>3 DEF IsShort, Letters
    <3>3. MaxChars \in Nat /\ OverlapChars \in Nat  BY ChunksAssumption
    <3>4. Len(Full) <= OverlapChars + 1 + Longest(text, 1, n)  BY <3>1, <3>2, <3>3
    <3>5. QED  BY <1>2, <2>1, <3>4 DEF Room
  <2>6. Len(chunks') = 1 /\ chunks'[1] = c /\ chunks' \in Seq(Cuts) /\ chunks' # <<>>
    BY <2>2, <2>4
  <2>7. Count' = Count  BY <2>2 DEF Count
  <2>8. CutTyped'  BY <1>1, <1>2, <2>2, <2>6, <2>7 DEF CutTyped
  <2>9. Followed'  BY <2>6 DEF Followed
  <2>10. Roomy'
    <3>1. ~(first' <= taken')  BY <1>2, <2>2
    <3>2. \A k \in 1..Len(chunks') : k = 1  BY <2>6
    <3>3. QED  BY <2>2, <2>5, <2>6, <3>1, <3>2 DEF Roomy, Room
  <2>11. GoesOn'  BY <2>1, <2>2, <2>6, <2>7 DEF GoesOn
  <2>12. QED  BY <2>8, <2>9, <2>10, <2>11 DEF CutInv
<1>8. CASE TakeSentence
  <2>1. /\ taken < Count /\ Fits /\ taken' = taken + 1
        /\ text' = text /\ first' = first /\ chunk_start' = chunk_start /\ chunks' = chunks
    BY <1>8 DEF TakeSentence
  <2>2. Count' = Count  BY <2>1 DEF Count
  <2>3. PICK i \in Nat, j \in Nat : i = first /\ j = taken /\ i > 0 /\ i <= j + 1 /\ j < n
    BY <1>1, <1>2, <2>1
  <2>4. Room(LengthIn(text, i, j + 1), i, j + 1)
    <3>1. i > j \/ LengthOf(i, j) + Size(j + 1) <= MaxChars  BY <2>1, <2>3 DEF Fits
    <3>2. QED  BY <1>1, <1>2, <2>3, <3>1, RoomForOne
  <2>5. CutTyped'  BY <1>1, <1>2, <2>1, <2>2, <2>3 DEF CutTyped
  <2>6. Followed'  BY <1>3, <2>1 DEF Followed, InOrder
  <2>7. Roomy'
    <3>1. Room(LengthIn(text, first, taken), first, taken)'  BY <2>1, <2>3, <2>4 DEF Room
    <3>2. QED  BY <1>3, <2>1, <3>1 DEF Roomy, Room
  <2>8. GoesOn'
    <3>1. first' <= taken'  BY <2>1, <2>3
    <3>2. ASSUME chunks # <<>>  PROVE chunks[1].first = 1 /\ InOrder(chunks[Len(chunks)], AtHand)'
      <4>1. chunks[1].first = 1 /\ InOrder(chunks[m], AtHand)
        BY <1>2, <1>3, <1>4, <2>1, <2>3, <3>2 DEF GoesOn
      <4>2. PICK c \in Cuts : c = chunks[m]  BY <1>1, <1>4, <1>5, <3>2
      <4>3. c.last \in Nat  BY DEF Cuts
      <4>4. c.last < taken + 1  BY <2>3, <4>1, <4>2, <4>3 DEF InOrder, AtHand
      <4>5. chunks'[Len(chunks')] = c  BY <1>4, <2>1, <4>2
      <4>6. QED  BY <2>1, <4>1, <4>2, <4>4, <4>5 DEF InOrder, AtHand
    <3>3. QED  BY <1>3, <2>1, <3>1, <3>2 DEF GoesOn
  <2>9. QED  BY <2>5, <2>6, <2>7, <2>8 DEF CutInv
<1>9. CASE CutChunk
  <2>1. PICK c : c = Chunk(first, taken, chunk_start)  OBVIOUS
  <2>2. /\ taken < Count /\ ~Fits /\ taken' = taken + 1 /\ text' = text
        /\ chunks' = Append(chunks, c) /\ first' = KeptFrom
        /\ chunk_start' =
              EndOf(c) - (IF KeptFrom <= taken THEN LengthOf(KeptFrom, taken) + 1 ELSE 0)
    BY <1>9, <2>1 DEF CutChunk
  <2>3. first <= taken  BY <1>1, <1>2, <2>2 DEF Fits
  <2>4. PICK i \in Nat, j \in Nat : i = first /\ j = taken /\ i > 0 /\ i <= j /\ j < n
    BY <1>1, <1>2, <2>2, <2>3
  <2>5. PICK f \in i..(j + 1) : f = KeptFrom /\ LengthIn(text, f, j) <= OverlapChars
    <3>1. taken \in 1..Count /\ first \in 1..taken  BY <1>2, <2>4
    <3>2. QED  BY <1>1, <2>4, <3>1, KeptIs
  <2>6. /\ c = [first |-> i, last |-> j, start |-> chunk_start, text |-> Joined(i, j)]
        /\ Joined(i, j) \in Letters /\ LengthOf(i, j) = Len(Joined(i, j))
    <3>1. i \in 1..Count /\ j \in i..Count  BY <1>2, <2>4
    <3>2. QED  BY <1>1, <2>1, <2>4, <3>1, RunIs, LengthIs DEF Chunk
  <2>7. c \in Cuts  BY <1>1, <2>6 DEF Cuts
  <2>8. Room(Len(c.text), c.first, c.last)
    <3>1. Room(LengthIn(text, i, j), i, j)  BY <1>3, <2>4 DEF Roomy
    <3>2. Len(c.text) = LengthIn(text, i, j)  BY <2>6, SameLength
    <3>3. QED  BY <2>6, <3>1, <3>2
  <2>9. ASSUME chunks # <<>>  PROVE InOrder(chunks[Len(chunks)], c)
    <3>1. InOrder(chunks[Len(chunks)], AtHand)  BY <1>2, <1>3, <2>4, <2>9 DEF GoesOn
    <3>2. QED  BY <2>4, <2>6, <3>1 DEF InOrder, AtHand
  <2>10. chunks = <<>> => c.first = 1  BY <1>3, <2>4, <2>6 DEF GoesOn
  <2>11. /\ chunks' \in Seq(Cuts) /\ chunks' # <<>>
         /\ chunks'[Len(chunks')] = c /\ chunks'[1].first = 1
         /\ \A k \in 1..(Len(chunks') - 1) : InOrder(chunks'[k], chunks'[k + 1])
         /\ \A k \in 1..Len(chunks') : Room(Len(chunks'[k].text), chunks'[k].first, chunks'[k].last)
    BY <2>2, <2>7, <2>8, <2>9, <2>10, Added
  <2>12. Room(LengthIn(text, f, j + 1), f, j + 1)
    <3>1. LengthOf(f, j) <= OverlapChars  BY <2>5, SameLength
    <3>2. f \in Nat /\ f > 0 /\ f <= j + 1 /\ j < Count  BY <1>2, <2>4, <2>5
    <3>3. QED  BY <1>1, <3>1, <3>2, RoomForOne
  <2>13. Count' = Count  BY <2>2 DEF Count
  <2>14. chunk_start' \in Int
    <3>1. EndOf(c) \in Int
      <4>1. Len(c.text) \in Nat /\ c.start \in Int  BY <2>7 DEF Cuts, Letters
      <4>2. QED  BY <4>1 DEF EndOf
    <3>2. f <= j => LengthOf(f, j) \in Nat
      <4>1. f <= j => f \in 1..Count /\ j \in f..Count  BY <1>2, <2>4, <2>5
      <4>2. QED  BY <1>1, <4>1, LengthIs
    <3>3. QED  BY <2>2, <2>4, <2>5, <3>1, <3>2
  <2>15. CutTyped'  BY <1>1, <1>2, <2>2, <2>4, <2>5, <2>11, <2>13, <2>14 DEF CutTyped
  <2>16. Followed'  BY <2>2, <2>11 DEF Followed, InOrder
  <2>17. Roomy'  BY <2>2, <2>4, <2>5, <2>11, <2>12 DEF Roomy, Room
  <2>18. GoesOn'
    <3>1. first' <= taken'  BY <2>2, <2>4, <2>5
    <3>2. InOrder(c, AtHand')
      <4>1. AtHand' = [first |-> f, last |-> j + 1]  BY <2>2, <2>4, <2>5 DEF AtHand
      <4>2. QED  BY <2>4, <2>5, <2>6, <4>1 DEF InOrder
    <3>3. InOrder(chunks[Len(chunks)], AtHand)'  BY <2>2, <2>11, <3>2 DEF InOrder
    <3>4. QED  BY <2>11, <3>1, <3>3 DEF GoesOn
  <2>19. QED  BY <2>15, <2>16, <2>17, <2>18 DEF CutInv
<1>10. CASE LastChunk
  <2>1. PICK c : c = Chunk(first, taken, chunk_start)  OBVIOUS
  <2>2. /\ taken = Count /\ first <= taken /\ taken' = taken /\ text' = text
        /\ chunks' = Append(chunks, c) /\ first' = taken + 1 /\ chunk_start' = chunk_start
    BY <1>10, <2>1 DEF LastChunk
  <2>3. PICK i \in Nat : i = first /\ i > 0 /\ i <= n  BY <1>1, <1>2, <2>2
  <2>4. /\ c = [first |-> i, last |-> n, start |-> chunk_start, text |-> Joined(i, n)]
        /\ Joined(i, n) \in Letters /\ LengthOf(i, n) = Len(Joined(i, n))
    <3>1. i \in 1..Count /\ n \in i..Count  BY <1>2, <2>3
    <3>2. QED  BY <1>1, <1>2, <2>1, <2>2, <2>3, <3>1, RunIs, LengthIs DEF Chunk
  <2>5. c \in Cuts  BY <1>1, <2>4 DEF Cuts
  <2>6. Room(Len(c.text), c.first, c.last)
    <3>1. Room(LengthIn(text, i, n), i, n)  BY <1>2, <1>3, <2>2, <2>3 DEF Roomy
    <3>2. Len(c.text) = LengthIn(text, i, n)  BY <2>4, SameLength
    <3>3. QED  BY <2>4, <3>1, <3>2
  <2>7. ASSUME chunks # <<>>  PROVE InOrder(chunks[Len(chunks)], c)
    <3>1. ~(first = Count + 1)  BY <1>2, <2>3
    <3>2. InOrder(chunks[Len(chunks)], AtHand)  BY <1>3, <2>7, <3>1 DEF GoesOn
    <3>3. QED  BY <1>2, <2>2, <2>3, <2>4, <3>2 DEF InOrder, AtHand
  <2>8. chunks = <<>> => c.first = 1  BY <1>3, <2>3, <2>4 DEF GoesOn
  <2>9. /\ chunks' \in Seq(Cuts) /\ chunks' # <<>>
         /\ chunks'[Len(chunks')] = c /\ chunks'[1].first = 1
        /\ \A k \in 1..(Len(chunks') - 1) : InOrder(chunks'[k], chunks'[k + 1])
        /\ \A k \in 1..Len(chunks') : Room(Len(chunks'[k].text), chunks'[k].first, chunks'[k].last)
    BY <2>2, <2>5, <2>6, <2>7, <2>8, Added
  <2>10. Count' = Count  BY <2>2 DEF Count
  <2>11. CutTyped'  BY <1>1, <1>2, <2>2, <2>9, <2>10 DEF CutTyped
  <2>12. Followed'  BY <2>2, <2>9 DEF Followed, InOrder
  <2>13. Roomy'
    <3>1. ~(first' <= taken')  BY <1>2, <2>2
    <3>2. QED  BY <2>2, <2>9, <3>1 DEF Roomy, Room
  <2>14. GoesOn'  BY <1>2, <2>2, <2>4, <2>9, <2>10 DEF GoesOn
  <2>15. QED  BY <2>11, <2>12, <2>13, <2>14 DEF CutInv
<1>11. CASE NameIndividuals
  BY <1>6, <1>11 DEF NameIndividuals, Names, NamesNothing
<1>12. CASE NameProperties
  BY <1>6, <1>12 DEF NameProperties, Names, NamesNothing
<1>13. CASE UNCHANGED chunk_vars  BY <1>6, <1>13 DEF chunk_vars
<1>14. QED
  BY <1>7, <1>8, <1>9, <1>10, <1>11, <1>12, <1>13 DEF ChunkNext, ChunkStep

LEMMA CutsSound == CutInv => ChunksSound
<1> SUFFICES ASSUME CutInv  PROVE ChunksSound  OBVIOUS
<1>1. /\ text \in Texts /\ taken \in 0..Count /\ first \in 1..(taken + 1) /\ chunks \in Seq(Cuts)
      /\ Followed /\ Roomy /\ GoesOn
  BY DEF CutInv, CutTyped
<1>2. PICK n \in Nat : n = Count  BY <1>1, TextIs
<1>3. ChunksCover
  <2>1. ASSUME NEW k \in 1..(Len(chunks) - 1)
        PROVE  /\ chunks[k].first <= chunks[k + 1].first
                /\ chunks[k + 1].first <= chunks[k].last + 1
               /\ chunks[k].last < chunks[k + 1].last
               /\ LengthOf(chunks[k + 1].first, chunks[k].last) <= OverlapChars
    BY <1>1, SameLength DEF Followed, InOrder
  <2>2. ASSUME AllCut  PROVE chunks[1].first = 1 /\ Last(chunks).last = Count
    <3>1. Count > 0 /\ taken = Count /\ ~(first <= taken)  BY <1>1, <1>2, <2>2 DEF AllCut
    <3>2. chunks # <<>>  BY <1>1, <1>2, <2>2, <3>1 DEF AllCut, GoesOn
    <3>3. QED  BY <1>1, <3>1, <3>2 DEF GoesOn, Last
  <2>3. QED  BY <2>1, <2>2 DEF ChunksCover
<1>4. ChunksBounded
  <2> SUFFICES ASSUME NEW k \in 1..Len(chunks)
               PROVE  LET sizes == {Size(i) : i \in chunks[k].first..chunks[k].last} \cup {MaxChars}
                      IN  Len(chunks[k].text)
                            <= OverlapChars + 1 + (CHOOSE x \in sizes : \A y \in sizes : y <= x)
    BY DEF ChunksBounded
  <2>1. Room(Len(chunks[k].text), chunks[k].first, chunks[k].last)  BY <1>1 DEF Roomy
  <2>2. QED  BY <2>1 DEF Room, Longest, Sizes, Size
<1>5. SentenceIndexExact  BY <1>1, IndexIs
<1>6. QED  BY <1>3, <1>4, <1>5 DEF ChunksSound

(* Every document is cut without loss and within the limits, and its sentences *)
(* are where the index says, whatever is said twice, whatever separates the    *)
(* sentences and however long they are (chunk_text, build_sentence_index).     *)
THEOREM CutWithoutLoss == ChunkSpec => []ChunksSound
<1>1. CutInv /\ [ChunkNext]_chunk_vars => CutInv'  BY CutStep
<1>2. QED  BY CutInit, CutsSound, <1>1, PTL DEF ChunkSpec

-----------------------------------------------------------------------------
(* Exports.  What every reachable state says of the job and of the last file.  *)
ExportInv ==
  /\ job \in FinishedJobs /\ Linking(job)
  /\ answer.status = 200 => /\ answer.format \in Formats /\ answer.dismissed \in BOOLEAN
                            /\ answer.says = Export(answer.format, Exported)
  /\ answer.status # 200 => answer.format = ""

LEMMA OtherStatus == \A s : s = 0 \/ s = 400 => s # 200
OBVIOUS

LEMMA ReviewedIs ==
  ASSUME NEW j \in FinishedJobs, NEW a \in DOMAIN j.annotations, NEW state \in States
  PROVE  /\ [j EXCEPT !.annotations[a].state = state] \in FinishedJobs
         /\ [j EXCEPT !.annotations[a].state = state].triples = j.triples
         /\ [j EXCEPT !.annotations[a].state = state].individuals = j.individuals
<1>1. PICK list : list = [j.annotations EXCEPT ![a].state = state]  OBVIOUS
<1>2. j.annotations \in Seq(Annotations)  BY DEF FinishedJobs
<1>3. list \in Seq(Annotations)
  <2>0. PICK x \in Annotations : x = j.annotations[a]  BY <1>2
  <2>1. [j.annotations[a] EXCEPT !.state = state] \in Annotations  BY <2>0 DEF Annotations
  <2>2. list = [j.annotations EXCEPT ![a] = [j.annotations[a] EXCEPT !.state = state]]  BY <1>1
  <2>3. QED  BY <1>2, <2>1, <2>2
<1>4. [j EXCEPT !.annotations[a].state = state] = [j EXCEPT !.annotations = list]  BY <1>1
<1>5. QED  BY <1>3, <1>4 DEF FinishedJobs

LEMMA ExportInit1 == ExportInit => ExportInv
<1> SUFFICES ASSUME ExportInit  PROVE ExportInv  OBVIOUS
<1>1. job \in FinishedJobs /\ Linking(job)  BY JobsAssumption DEF ExportInit
<1>2. answer.status = 0 /\ answer.format = ""  BY DEF ExportInit, NoAnswer
<1>3. answer.status # 200  BY <1>2, OtherStatus, Zenon
<1>4. QED  BY <1>1, <1>2, <1>3, Zenon DEF ExportInv

LEMMA ExportStep == ExportInv /\ [ExportNext]_export_vars => ExportInv'
<1> SUFFICES ASSUME ExportInv, [ExportNext]_export_vars  PROVE ExportInv'  OBVIOUS
<1>1. job \in FinishedJobs /\ Linking(job)  BY DEF ExportInv
<1>2. ASSUME NEW f \in Formats \cup {"docx"}, NEW dismissed \in BOOLEAN, ExportJob(f, dismissed)
      PROVE  ExportInv'
  <2>1. job' = job  BY <1>2 DEF ExportJob
  <2>2. CASE f \in Formats
    <3>1. answer' = [status |-> 200, format |-> f, dismissed |-> dismissed,
                     says |-> Export(f, Copy(job, dismissed))]
      BY <1>2, <2>2 DEF ExportJob
    <3>2. Exported' = Copy(job, dismissed)  BY <2>1, <3>1 DEF Exported
    <3>3. answer'.says = Export(answer'.format, Exported')  BY <3>1, <3>2
    <3>4. QED  BY <1>1, <2>1, <2>2, <3>1, <3>3 DEF ExportInv, Linking
  <2>3. CASE f \notin Formats
    <3>1. answer' = [NoAnswer EXCEPT !.status = 400]  BY <1>2, <2>3 DEF ExportJob
    <3>2. answer'.status = 400 /\ answer'.format = ""  BY <3>1 DEF NoAnswer
    <3>3. answer'.status # 200  BY <3>2, OtherStatus, Zenon
    <3>4. job' \in FinishedJobs /\ Linking(job')  BY <1>1, <2>1
    <3>5. QED  BY <3>2, <3>3, <3>4, Zenon DEF ExportInv, Linking
  <2>4. QED  BY <2>2, <2>3
<1>3. ASSUME NEW a \in DOMAIN job.annotations, NEW state \in {"confirmed", "rejected"},
             SetState(a, state)
      PROVE  ExportInv'
  <2>1. job' = [job EXCEPT !.annotations[a].state = state] /\ answer' = NoAnswer
    BY <1>3 DEF SetState
  <2>2. job' \in FinishedJobs /\ job'.triples = job.triples /\ job'.individuals = job.individuals
    <3>1. PICK j \in FinishedJobs : j = job  BY <1>1
    <3>2. a \in DOMAIN j.annotations /\ state \in States  BY <3>1 DEF States
    <3>3. QED  BY <2>1, <3>1, <3>2, ReviewedIs
  <2>3. answer'.status = 0 /\ answer'.format = ""  BY <2>1 DEF NoAnswer
  <2>4. answer'.status # 200  BY <2>3, OtherStatus, Zenon
  <2>5. QED  BY <1>1, <2>2, <2>3, <2>4 DEF ExportInv, Linking
<1>4. CASE UNCHANGED export_vars
  BY <1>1, <1>4 DEF ExportInv, Linking, Exported, export_vars
<1>5. QED  BY <1>2, <1>3, <1>4 DEF ExportNext

LEMMA ExportInvariant == ExportSpec => []ExportInv
BY ExportInit1, ExportStep, PTL DEF ExportSpec

-----------------------------------------------------------------------------
(* The formats.  What a file says of the concepts, the links and the triples.  *)
IsSaid(s, rows, refs, linked, bridges) ==
  s.rows = rows /\ s.refs = refs /\ s.linked = linked /\ s.bridges = bridges

\* What every file keeps to
Within(s, j) ==
  /\ s.rows \subseteq Rows(j) /\ s.refs \subseteq AllRefs(j)
  /\ s.linked # {} => s.linked = Linked(j)
  /\ s.bridges => j.both

LEMMA FirstIsKnown ==
  ASSUME NEW links \in Seq(Links), KnownIris(links) # <<>>
  PROVE  KnownIris(links)[1] \in ToSet(KnownIris(links))
<1> DEFINE iris   == IrisOf(links)
           places == {l \in DOMAIN links : links[l].iri # NoIri}
<1>1. iris \in Seq(STRING)
  <2>1. \A l \in DOMAIN links : links[l].iri \in STRING
    <3> SUFFICES ASSUME NEW l \in DOMAIN links  PROVE links[l].iri \in STRING  OBVIOUS
    <3>1. PICK x \in Links : x = links[l]  OBVIOUS
    <3>2. QED  BY <3>1 DEF Links
  <2>2. iris = [l \in 1..Len(links) |-> links[l].iri]  BY DEF IrisOf
  <2>3. QED  BY <2>1, <2>2
<1>2. DOMAIN iris = DOMAIN links  BY DEF IrisOf
<1>3. places \in SUBSET (DOMAIN iris)  BY <1>2
<1> HIDE DEF places, iris
<1>4. PICK order \in Seq(places) :
        /\ Cardinality(places) \in Nat
        /\ Picked(iris, places) = [k \in 1..Cardinality(places) |-> iris[order[k]]]
  BY <1>1, <1>3, PickedIs
<1>5. KnownIris(links) = Picked(iris, places)  BY DEF KnownIris, iris, places
<1>6. Cardinality(places) # 0  BY <1>4, <1>5
<1>7. 1 \in DOMAIN KnownIris(links)  BY <1>4, <1>5, <1>6
<1>8. QED  BY <1>7 DEF ToSet

LEMMA FirstAmongAll ==
  ASSUME NEW j \in FinishedJobs, NEW e, e.triples = j.triples
  PROVE  FirstRefs(e) \subseteq AllRefs(e)
<1> SUFFICES ASSUME NEW t \in 1..Len(e.triples), NEW role \in Roles,
                    KnownIris(e.triples[t][role]) # <<>>
             PROVE  <<t, role, KnownIris(e.triples[t][role])[1]>> \in AllRefs(e)
  BY DEF FirstRefs
<1>1. e.triples \in Seq(Triples)  BY DEF FinishedJobs
<1>2. PICK triple \in Triples : triple = e.triples[t]  BY <1>1
<1>3. triple[role] \in Seq(Links)  BY DEF Triples, Roles
<1>4. KnownIris(e.triples[t][role])[1] \in ToSet(KnownIris(e.triples[t][role]))
  BY <1>2, <1>3, FirstIsKnown
<1> DEFINE Refs(u, r) == {<<u, r, i>> : i \in ToSet(KnownIris(e.triples[u][r]))}
<1>5. <<t, role, KnownIris(e.triples[t][role])[1]>> \in Refs(t, role)  BY <1>4
<1>6. Refs(t, role) \subseteq AllRefs(e)
  <2>1. AllRefs(e) = UNION {Refs(u, r) : u \in 1..Len(e.triples), r \in Roles}  BY DEF AllRefs
  <2> HIDE DEF Refs
  <2>2. QED  BY <2>1
<1>7. QED  BY <1>5, <1>6

\* The bodies of a graph, as FormatsAgree has them
RowsOf(j, rows) == {r \in rows : {ConceptAt(j, q).iri : q \in {r}} # {NoIri}}

LEMMA BodiesAre ==
  ASSUME NEW j
  PROVE  /\ Bodies(j) = RowsOf(j, Rows(j))
         /\ Cardinality({ConceptAt(j, r).iri : r \in Bodies(j)}) = UniqueConcepts(j)
<1>1. \A r : {ConceptAt(j, q).iri : q \in {r}} = {ConceptAt(j, r).iri}  OBVIOUS
<1>2. {ConceptAt(j, r).iri : r \in Bodies(j)} = {ConceptAt(j, r).iri : r \in Rows(j)} \ {NoIri}
  BY DEF Bodies
<1>3. QED  BY <1>1, <1>2 DEF Bodies, UniqueConcepts, RowsOf

LEMMA RecordFormatsSay ==
  ASSUME NEW j
  PROVE  /\ IsSaid(Json(j), Rows(j), AllRefs(j), Linked(j), j.both)
         /\ IsSaid(Jsonl(j), Rows(j), {}, Linked(j), j.both)
         /\ IsSaid(Jsonld(j), Rows(j), FirstRefs(j), {}, j.both)
         /\ IsSaid(Xml(j), Rows(j), XmlRefs(j), {}, j.both)
         /\ IsSaid(Csv(j), Rows(j), FirstRefs(j), Linked(j), j.both)
         /\ IsSaid(ExcelSheets(j), Rows(j), FirstRefs(j), Linked(j), j.both)
         /\ IsSaid(Parquet(j), Rows(j), FirstRefs(j), Linked(j), j.both)
BY DEF IsSaid, Nothing, Json, Jsonl, Jsonld, Xml, Csv, ExcelSheet, ExcelSheets, Parquet

LEMMA OtherFormatsSay ==
  ASSUME NEW j
  PROVE  /\ IsSaid(PropositionRecords(j), IF j.both THEN Rows(j) ELSE {}, {}, {}, j.both)
         /\ IsSaid(Rdf(j), Bodies(j), AllRefs(j), {}, j.both)
         /\ IsSaid(Rag(j), UNION {InChunk(j, c) : c \in ToSet(j.chunks)}, {}, {},
                 j.both /\ j.chunks # <<>>)
         /\ IsSaid(Html(j), IF j.length = 0 THEN {} ELSE {r \in Rows(j) : r[2] = 1}, {},
                 IF j.length = 0 THEN {} ELSE Linked(j), j.both /\ j.length > 0)
         /\ IsSaid(Neo4j(j), Rows(j), {}, {}, j.both)
         /\ IsSaid(BratSays(j), Bodies(j), {}, {}, j.both)
BY DEF IsSaid, Nothing, PropositionRecords, Rdf, Rag, Html, Neo4j, BratSays

LEMMA ExportIs ==
  ASSUME NEW j
  PROVE  /\ Export("json", j) = Json(j) /\ Export("jsonl", j) = Jsonl(j)
         /\ Export("jsonld", j) = Jsonld(j) /\ Export("xml", j) = Xml(j)
         /\ Export("csv", j) = Csv(j) /\ Export("excel", j) = ExcelSheets(j)
         /\ Export("parquet", j) = Parquet(j) /\ Export("elasticsearch", j) = Parquet(j)
         /\ Export("rdf", j) = Rdf(j) /\ Export("rag", j) = Rag(j)
         /\ Export("html", j) = Html(j) /\ Export("neo4j", j) = Neo4j(j)
         /\ Export("brat", j) = BratSays(j)
         /\ Export("propositions", j) = PropositionRecords(j)
         /\ Export("propositions-ndjson", j) = PropositionRecords(j)
BY DEF Export, Elasticsearch

(* What FormatsAgree says of one file, by its format                          *)
Agrees(f, s, j) ==
  /\ Within(s, j)
  /\ f \in {"rdf", "brat"} => s.rows = Bodies(j)
  /\ f = "html" => (j.length > 0 => s.rows = {r \in Rows(j) : r[2] = 1})
  /\ f \notin {"rdf", "brat", "html", "rag", "propositions", "propositions-ndjson"}
       => s.rows = Rows(j)

LEMMA FormatsKeep ==
  ASSUME NEW f \in Formats, NEW j, j.length \in Nat, FirstRefs(j) \subseteq AllRefs(j)
  PROVE  Agrees(f, Export(f, j), j)
<1>1. ASSUME NEW s, f \notin {"rdf", "brat", "html", "rag", "propositions", "propositions-ndjson"},
             NEW refs \in SUBSET AllRefs(j), NEW linked \in {{}, Linked(j)},
             IsSaid(s, Rows(j), refs, linked, j.both)
      PROVE  Agrees(f, s, j)
  <2>1. Within(s, j)  BY <1>1 DEF IsSaid, Within
  <2>2. s.rows = Rows(j)  BY <1>1 DEF IsSaid
  <2>3. QED  BY <1>1, <2>1, <2>2 DEF Agrees
<1>2. CASE f \in {"json", "jsonl", "jsonld", "xml"}
  <2>1. XmlRefs(j) \in SUBSET AllRefs(j)  BY DEF XmlRefs
  <2>2. QED  BY <1>1, <1>2, <2>1, RecordFormatsSay, ExportIs
<1>3. CASE f \in {"csv", "excel", "parquet", "elasticsearch"}
  BY <1>1, <1>3, RecordFormatsSay, ExportIs
<1>4. CASE f = "neo4j"
  BY <1>1, <1>4, OtherFormatsSay, ExportIs
<1>5. CASE f \in {"rdf", "brat"}
  <2>1. Bodies(j) \subseteq Rows(j)  BY DEF Bodies
  <2>2. PICK s : s = Export(f, j)  OBVIOUS
  <2>3. PICK refs \in {{}, AllRefs(j)} : IsSaid(s, Bodies(j), refs, {}, j.both)
    BY <1>5, <2>2, OtherFormatsSay, ExportIs
  <2>4. Within(s, j) /\ s.rows = Bodies(j)  BY <2>1, <2>3 DEF IsSaid, Within
  <2>5. QED  BY <1>5, <2>2, <2>4 DEF Agrees
<1>6. CASE f = "html"
  <2>1. PICK s : s = Export(f, j)  OBVIOUS
  <2>2. PICK linked \in {{}, Linked(j)} :
          IsSaid(s, IF j.length = 0 THEN {} ELSE {r \in Rows(j) : r[2] = 1}, {}, linked,
               j.both /\ j.length > 0)
    BY <1>6, <2>1, OtherFormatsSay, ExportIs
  <2>3. Within(s, j)  BY <2>2 DEF IsSaid, Within
  <2>4. j.length > 0 => s.rows = {r \in Rows(j) : r[2] = 1}  BY <2>2 DEF IsSaid
  <2>5. QED  BY <1>6, <2>1, <2>3, <2>4 DEF Agrees
<1>7. CASE f = "rag"
  <2>1. PICK s : s = Export(f, j)  OBVIOUS
  <2>2. UNION {InChunk(j, c) : c \in ToSet(j.chunks)} \subseteq Rows(j)  BY DEF InChunk
  <2>3. IsSaid(s, UNION {InChunk(j, c) : c \in ToSet(j.chunks)}, {}, {}, j.both /\ j.chunks # <<>>)
    BY <1>7, <2>1, OtherFormatsSay, ExportIs
  <2>4. Within(s, j)  BY <2>2, <2>3 DEF IsSaid, Within
  <2>5. QED  BY <1>7, <2>1, <2>4 DEF Agrees
<1>8. CASE f \in {"propositions", "propositions-ndjson"}
  <2>1. PICK s : s = Export(f, j)  OBVIOUS
  <2>2. IsSaid(s, IF j.both THEN Rows(j) ELSE {}, {}, {}, j.both)
    BY <1>8, <2>1, OtherFormatsSay, ExportIs
  <2>3. Within(s, j)  BY <2>2 DEF IsSaid, Within
  <2>4. QED  BY <1>8, <2>1, <2>3 DEF Agrees
<1>9. QED  BY <1>2, <1>3, <1>4, <1>5, <1>6, <1>7, <1>8 DEF Formats

LEMMA InvAgree == ExportInv => FormatsAgree
<1> SUFFICES ASSUME ExportInv, answer.status = 200
             PROVE  FormatsAgree
  BY DEF FormatsAgree
<1> DEFINE e == Exported
           f == answer.format
<1>1. job \in FinishedJobs /\ f \in Formats /\ answer.says = Export(f, e)
  BY DEF ExportInv
<1>2. /\ e.triples = job.triples /\ e.length = job.length /\ e.both = job.both
      /\ e.annotations = job.annotations /\ e.shown = Shown(job, answer.dismissed)
  BY DEF Exported, Copy
<1>3. job.length \in Nat
  <2>1. PICK k \in FinishedJobs : k = job  BY <1>1
  <2>2. QED  BY <2>1 DEF FinishedJobs
<1> HIDE DEF e, f
<1>4. FirstRefs(e) \subseteq AllRefs(e)  BY <1>1, <1>2, FirstAmongAll
<1>5. Agrees(f, answer.says, e)  BY <1>1, <1>2, <1>3, <1>4, FormatsKeep
<1> DEFINE s == answer.says
           json == Json(e)
<1>6. json.rows = Rows(e) /\ json.refs = AllRefs(e) /\ json.linked = Linked(e)
  BY RecordFormatsSay DEF IsSaid
<1> HIDE DEF s, json
<1>7. s.refs \subseteq json.refs /\ (s.linked # {} => s.linked = json.linked)
        /\ (s.bridges => job.both) /\ s.rows \subseteq Rows(e)
  BY <1>2, <1>5, <1>6 DEF Agrees, Within, s
<1>8. ASSUME NEW r \in s.rows
      PROVE  answer.dismissed \/ job.annotations[r[1]].state # "rejected"
  <2>1. PICK a \in e.shown : r \in {a} \X DOMAIN e.annotations[a].concepts
    BY <1>7, <1>8 DEF Rows
  <2>2. r[1] \in e.shown  BY <2>1
  <2>3. QED  BY <1>2, <2>2 DEF Shown
<1>9. CASE f \in {"rdf", "brat"}
  <2>1. s.rows = Bodies(e)  BY <1>5, <1>9 DEF Agrees, s
  <2>2. s.rows = {r \in json.rows : {ConceptAt(e, q).iri : q \in {r}} # {NoIri}}
    <3>1. Bodies(e) = RowsOf(e, Rows(e))  BY BodiesAre
    <3>2. s.rows = RowsOf(e, json.rows)  BY <3>1, <2>1, <1>6
    <3>3. QED  BY <3>2 DEF RowsOf
  <2>3. Cardinality({ConceptAt(e, r).iri : r \in s.rows}) = UniqueConcepts(e)
    BY <2>1, BodiesAre
  <2>4. QED  BY <1>7, <1>8, <1>9, <2>2, <2>3 DEF FormatsAgree, e, f, s, json
<1>10. CASE f = "html"
  <2>1. job.length > 0 => s.rows = {r \in json.rows : r[2] = 1}
    BY <1>2, <1>5, <1>6, <1>10 DEF Agrees, s
  <2>2. QED  BY <1>7, <1>8, <1>10, <2>1 DEF FormatsAgree, e, f, s, json
<1>11. CASE f \in {"rag", "propositions", "propositions-ndjson"}
  BY <1>6, <1>7, <1>8, <1>11 DEF FormatsAgree, e, f, s, json
<1>12. CASE f \notin {"rdf", "brat", "html", "rag", "propositions", "propositions-ndjson"}
  <2>1. s.rows = json.rows  BY <1>5, <1>6, <1>12 DEF Agrees, s
  <2>2. QED  BY <1>7, <1>8, <1>12, <2>1 DEF FormatsAgree, e, f, s, json
<1>13. QED  BY <1>9, <1>10, <1>11, <1>12

(* Whoever reads one format of a job is told what the reader of another is     *)
(* told, whatever is reviewed between the two: for every set of finished jobs. *)
THEOREM FilesAgree == ExportSpec => []FormatsAgree
BY ExportInvariant, InvAgree, PTL

-----------------------------------------------------------------------------
(* Brat.  What has been written of a file: each line has a number below the    *)
(* next one of its kind and no other line of the kind has it, and it is about  *)
(* text lines before it.                                                       *)
Kinds == {"T", "A", "R"}
Lines == [kind : Kinds, n : Nat, about : SUBSET Nat]

NextNumber(kind, t, a, r) == IF kind = "T" THEN t ELSE IF kind = "A" THEN a ELSE r

Numbered(lines, t, a, r) ==
  /\ \A k \in DOMAIN lines : lines[k].n < NextNumber(lines[k].kind, t, a, r)
  /\ \A k, l \in DOMAIN lines :
       k # l => lines[k].kind # lines[l].kind \/ lines[k].n # lines[l].n

IsText(line, n) == line.kind = "T" /\ line.n = n

Backwards(lines) ==
  \A k \in DOMAIN lines : \A n \in lines[k].about : \E l \in 1..(k - 1) : IsText(lines[l], n)

\* The first text line, once there is one, is T1.
FirstIsOne(lines, t) ==
  \/ t = 1 /\ \A k \in DOMAIN lines : lines[k].kind # "T"
  \/ t > 1 /\ \E k \in DOMAIN lines : IsText(lines[k], 1)

SoundLines(lines, t, a, r) ==
  /\ lines \in Seq(Lines) /\ t \in Nat /\ a \in Nat /\ r \in Nat
  /\ Numbered(lines, t, a, r) /\ Backwards(lines) /\ FirstIsOne(lines, t)

Outs == {out \in [lines : Seq(Lines), t : Nat, a : Nat, r : Nat] :
           SoundLines(out.lines, out.t, out.a, out.r)}

\* Lines of one kind, with the next numbers, about the same text lines
Row(more, kind, next, about) ==
  /\ more \in Seq(Lines)
  /\ \A k \in DOMAIN more : more[k].kind = kind /\ more[k].n = next + k - 1 /\ more[k].about = about

LEMMA RowKeepsSound ==
  ASSUME NEW lines, NEW t, NEW a, NEW r, SoundLines(lines, t, a, r),
         NEW kind \in Kinds, NEW about \in SUBSET Nat,
         \A n \in about : \E l \in DOMAIN lines : IsText(lines[l], n),
         NEW more, Row(more, kind, NextNumber(kind, t, a, r), about),
         NEW t2 \in Nat, NEW a2 \in Nat, NEW r2 \in Nat,
         t2 = IF kind = "T" THEN t + Len(more) ELSE t,
         a2 = IF kind = "A" THEN a + Len(more) ELSE a,
         r2 = IF kind = "R" THEN r + Len(more) ELSE r
  PROVE  SoundLines(lines \o more, t2, a2, r2)
<1> DEFINE both == lines \o more
           old  == Len(lines)
<1>1. lines \in Seq(Lines) /\ more \in Seq(Lines) /\ t \in Nat /\ a \in Nat /\ r \in Nat
  BY DEF SoundLines, Row
<1>2. /\ both \in Seq(Lines) /\ old \in Nat /\ Len(more) \in Nat /\ Len(both) = old + Len(more)
      /\ \A p \in 1..old : both[p] = lines[p]
      /\ \A i \in 1..Len(more) : both[old + i] = more[i]
  BY <1>1, JoinIs
<1> HIDE DEF both, old
<1>3. DOMAIN lines = 1..old /\ DOMAIN both = 1..(old + Len(more)) /\ DOMAIN more = 1..Len(more)
  BY <1>1, <1>2 DEF old
<1> DEFINE next == NextNumber(kind, t, a, r)
           Next2(k) == NextNumber(k, t2, a2, r2)
           Next1(k) == NextNumber(k, t, a, r)
<1>4. /\ next \in Nat /\ Next2(kind) = next + Len(more)
      /\ \A k \in Kinds : Next1(k) \in Nat /\ Next2(k) \in Nat /\ Next1(k) <= Next2(k)
  BY <1>1, <1>2 DEF NextNumber, Kinds
<1>5. ASSUME NEW k \in DOMAIN both
      PROVE  \/ k \in DOMAIN lines /\ both[k] = lines[k]
             \/ /\ k > old
                /\ k - old \in DOMAIN more /\ both[k] = more[k - old]
                /\ both[k].kind = kind /\ both[k].n = next + (k - old) - 1
                /\ both[k].about = about
  <2>1. CASE k <= old  BY <1>2, <1>3, <2>1
  <2>2. CASE k > old
    <3>1. PICK i \in 1..Len(more) : k = old + i
      <4>1. k - old \in 1..Len(more) /\ k = old + (k - old)  BY <1>2, <1>3, <2>2
      <4>2. QED  BY <4>1
    <3>2. k - old = i  BY <1>2, <3>1
    <3>3. QED  BY <1>2, <1>3, <2>2, <3>1, <3>2 DEF Row
  <2>3. QED  BY <1>2, <1>3, <2>1, <2>2
<1>6. ASSUME NEW k \in DOMAIN lines
      PROVE  /\ lines[k].kind \in Kinds /\ lines[k].n \in Nat
             /\ lines[k].n < Next1(lines[k].kind)
  <2>1. PICK x \in Lines : x = lines[k]  BY <1>1, <1>6
  <2>2. QED  BY <1>6, <2>1 DEF SoundLines, Numbered, Lines
<1> HIDE DEF next, Next1, Next2
<1>7. \A k \in DOMAIN both : both[k].n < Next2(both[k].kind)
  <2> SUFFICES ASSUME NEW k \in DOMAIN both  PROVE both[k].n < Next2(both[k].kind)  OBVIOUS
  <2>1. CASE k \in DOMAIN lines /\ both[k] = lines[k]  BY <1>4, <1>6, <2>1
  <2>2. CASE k > old /\ k - old \in DOMAIN more /\ both[k].kind = kind
               /\ both[k].n = next + (k - old) - 1
    <3>1. k - old <= Len(more) /\ k \in Nat  BY <1>2, <1>3, <2>2
    <3>2. QED  BY <1>2, <1>4, <2>2, <3>1
  <2>3. QED  BY <1>5, <2>1, <2>2
<1>8. \A k, l \in DOMAIN both : k # l => both[k].kind # both[l].kind \/ both[k].n # both[l].n
  <2>1. ASSUME NEW k \in DOMAIN both, NEW l \in DOMAIN both, k < l
        PROVE  both[k].kind # both[l].kind \/ both[k].n # both[l].n
    <3>0. k \in Nat /\ l \in Nat  BY <1>2, <1>3
    <3>1. CASE l \in DOMAIN lines /\ both[l] = lines[l]
      <4>1. k \in DOMAIN lines /\ both[k] = lines[k]  BY <1>2, <1>3, <2>1, <3>1
      <4>2. QED  BY <2>1, <3>1, <4>1 DEF SoundLines, Numbered
    <3>2. CASE l > old /\ both[l].kind = kind /\ both[l].n = next + (l - old) - 1
      <4>1. CASE k \in DOMAIN lines /\ both[k] = lines[k]
        <5>1. CASE lines[k].kind = kind
          <6>1. lines[k].n < next /\ lines[k].n \in Nat  BY <1>6, <4>1, <5>1 DEF next, Next1
          <6>2. QED  BY <1>2, <1>4, <3>0, <3>2, <4>1, <6>1
        <5>2. CASE lines[k].kind # kind  BY <3>2, <4>1, <5>2
        <5>3. QED  BY <5>1, <5>2
      <4>2. CASE k > old /\ both[k].n = next + (k - old) - 1
        BY <1>2, <1>4, <2>1, <3>0, <3>2, <4>2
      <4>3. QED  BY <1>5, <4>1, <4>2
    <3>3. QED  BY <1>5, <3>1, <3>2
  <2>2. \A k, l \in DOMAIN both : k # l => k < l \/ l < k  BY <1>2, <1>3
  <2>3. QED  BY <2>1, <2>2
<1>9. Backwards(both)
  <2> SUFFICES ASSUME NEW k \in DOMAIN both, NEW n \in both[k].about
               PROVE  \E l \in 1..(k - 1) : IsText(both[l], n)
    BY DEF Backwards
  <2>1. CASE k \in DOMAIN lines /\ both[k] = lines[k]
    <3>1. PICK l \in 1..(k - 1) : IsText(lines[l], n)  BY <2>1 DEF SoundLines, Backwards
    <3>2. both[l] = lines[l]  BY <1>2, <1>3, <2>1, <3>1
    <3>3. QED  BY <3>1, <3>2
  <2>2. CASE k > old /\ both[k].about = about
    <3>1. PICK l \in DOMAIN lines : IsText(lines[l], n)  BY <2>2
    <3>2. l \in 1..(k - 1) /\ both[l] = lines[l]  BY <1>2, <1>3, <2>2
    <3>3. QED  BY <3>1, <3>2
  <2>3. QED  BY <1>5, <2>1, <2>2
<1>10. Numbered(both, t2, a2, r2)  BY <1>7, <1>8 DEF Numbered, Next2
<1>11. FirstIsOne(both, t2)
  <2>0. FirstIsOne(lines, t)  BY DEF SoundLines
  <2>1. CASE t > 1
    <3>1. PICK k \in DOMAIN lines : IsText(lines[k], 1)  BY <1>1, <2>0, <2>1 DEF FirstIsOne
    <3>2. k \in DOMAIN both /\ both[k] = lines[k]  BY <1>2, <1>3
    <3>3. t2 > 1  BY <1>1, <1>2, <2>1
    <3>4. QED  BY <3>1, <3>2, <3>3 DEF FirstIsOne
  <2>2. CASE t = 1 /\ \A k \in DOMAIN lines : lines[k].kind # "T"
    <3>1. CASE kind # "T" \/ Len(more) = 0
      <4>1. t2 = 1  BY <1>2, <2>2, <3>1
      <4>2. ASSUME NEW k \in DOMAIN both  PROVE both[k].kind # "T"
        <5>1. CASE k \in DOMAIN lines /\ both[k] = lines[k]  BY <2>2, <5>1
        <5>2. CASE k - old \in DOMAIN more /\ both[k].kind = kind
          <6>1. Len(more) # 0  BY <1>2, <1>3, <5>2
          <6>2. QED  BY <3>1, <5>2, <6>1
        <5>3. QED  BY <1>5, <4>2, <5>1, <5>2
      <4>3. QED  BY <4>1, <4>2 DEF FirstIsOne
    <3>2. CASE kind = "T" /\ Len(more) # 0
      <4>1. 1 \in 1..Len(more) /\ 1 \in DOMAIN more  BY <1>2, <1>3, <3>2
      <4>2. old + 1 \in DOMAIN both /\ both[old + 1] = more[1]  BY <1>2, <1>3, <4>1
      <4>3. next = 1  BY <2>2, <3>2 DEF next, NextNumber
      <4>4. more[1].kind = "T" /\ more[1].n = next + 1 - 1
        BY <3>2, <4>1 DEF Row, next
      <4>5. IsText(both[old + 1], 1)  BY <4>2, <4>3, <4>4 DEF IsText
      <4>6. t2 > 1  BY <1>2, <2>2, <3>2
      <4>7. QED  BY <4>2, <4>5, <4>6 DEF FirstIsOne
    <3>3. QED  BY <3>1, <3>2
  <2>3. QED  BY <2>0, <2>1, <2>2 DEF FirstIsOne
<1>12. QED  BY <1>2, <1>9, <1>10, <1>11 DEF SoundLines, both

LEMMA LineIs ==
  ASSUME NEW kind \in Kinds, NEW n \in Nat, NEW about \in SUBSET Nat
  PROVE  /\ Line(kind, n, about) \in Lines /\ Line(kind, n, about).kind = kind
         /\ Line(kind, n, about).n = n /\ Line(kind, n, about).about = about
BY DEF Line, Lines

LEMMA OutIs ==
  ASSUME NEW lines, NEW t, NEW a, NEW r, SoundLines(lines, t, a, r)
  PROVE  [lines |-> lines, t |-> t, a |-> a, r |-> r] \in Outs
BY DEF SoundLines, Outs

LEMMA EntityKeepsSound ==
  ASSUME NEW out \in Outs, NEW attributes \in Nat
  PROVE  AddEntity(out, attributes) \in Outs
<1> DEFINE ls == out.lines  t == out.t  a == out.a  r == out.r
           heading == <<Line("T", t, {})>>
           marks == [k \in 1..attributes |-> Line("A", a + k - 1, {t})]
<1>1. SoundLines(ls, t, a, r)  BY DEF Outs
<1>2. ls \in Seq(Lines) /\ t \in Nat /\ a \in Nat /\ r \in Nat  BY DEF Outs
<1>3. AddEntity(out, attributes) =
        [lines |-> (ls \o heading) \o marks, t |-> t + 1, a |-> a + attributes, r |-> r]
  BY DEF AddEntity
<1> HIDE DEF ls, t, a, r
<1>4. Row(heading, "T", NextNumber("T", t, a, r), {}) /\ Len(heading) = 1
  <2>1. Line("T", t, {}) \in Lines /\ Line("T", t, {}).kind = "T"
        /\ Line("T", t, {}).n = t /\ Line("T", t, {}).about = {}
    BY <1>2, LineIs DEF Kinds
  <2>2. NextNumber("T", t, a, r) = t  BY DEF NextNumber
  <2>3. heading \in Seq(Lines) /\ DOMAIN heading = {1} /\ heading[1] = Line("T", t, {})  BY <2>1
  <2>4. QED  BY <1>2, <2>1, <2>2, <2>3 DEF Row
<1>5. Row(marks, "A", NextNumber("A", t, a, r), {t}) /\ Len(marks) = attributes
  <2>1. ASSUME NEW k \in 1..attributes
        PROVE  /\ marks[k] \in Lines /\ marks[k].kind = "A" /\ marks[k].n = a + k - 1
               /\ marks[k].about = {t}
    <3>1. a + k - 1 \in Nat /\ {t} \in SUBSET Nat /\ "A" \in Kinds  BY <1>2 DEF Kinds
    <3>2. QED  BY <3>1, LineIs
  <2>2. NextNumber("A", t, a, r) = a  BY DEF NextNumber
  <2>3. marks = [k \in 1..attributes |-> marks[k]]  OBVIOUS
  <2> HIDE DEF marks
  <2>4. DOMAIN marks = 1..attributes /\ marks \in Seq(Lines) /\ Len(marks) = attributes
    BY <2>1, <2>3, ListIs
  <2>5. QED  BY <2>1, <2>2, <2>4 DEF Row
<1>6. /\ ls \o heading \in Seq(Lines)
      /\ \E l \in DOMAIN (ls \o heading) : IsText((ls \o heading)[l], t)
  <2>1. heading \in Seq(Lines) /\ heading[1] = Line("T", t, {})  BY <1>4 DEF Row
  <2>2. /\ ls \o heading \in Seq(Lines) /\ Len(ls) \in Nat /\ Len(ls \o heading) = Len(ls) + 1
        /\ (ls \o heading)[Len(ls) + 1] = heading[1]
    <3>1. PICK new \in Seq(Lines) : new = heading  BY <2>1
    <3> HIDE DEF heading
    <3>2. PICK m, n : m = Len(ls) /\ n = Len(new)  OBVIOUS
    <3>3. n = 1  BY <1>4, <3>1, <3>2
    <3>4. /\ ls \o new \in Seq(Lines) /\ m \in Nat /\ Len(ls \o new) = m + n
          /\ \A i \in 1..n : (ls \o new)[m + i] = new[i]
      BY <1>2, <3>2, JoinFrom
    <3>5. QED  BY <3>1, <3>2, <3>3, <3>4
  <2>3. IsText(heading[1], t)  BY <1>2, <2>1, LineIs DEF IsText, Kinds
  <2> HIDE DEF heading
  <2>4. Len(ls) + 1 \in DOMAIN (ls \o heading)  BY <2>2
  <2>5. QED  BY <2>2, <2>3, <2>4
<1> HIDE DEF heading, marks
<1>7. SoundLines(ls \o heading, t + 1, a, r)
  <2>1. \A n \in {} : \E l \in DOMAIN ls : IsText(ls[l], n)  OBVIOUS
  <2>2. t + 1 \in Nat /\ "T" \in Kinds  BY <1>2 DEF Kinds
  <2>3. QED  BY <1>1, <1>2, <1>4, <2>1, <2>2, RowKeepsSound
<1>8. SoundLines((ls \o heading) \o marks, t + 1, a + attributes, r)
  <2>1. NextNumber("A", t, a, r) = NextNumber("A", t + 1, a, r)  BY DEF NextNumber
  <2>2. Row(marks, "A", NextNumber("A", t + 1, a, r), {t})  BY <1>5, <2>1
  <2>3. \A n \in {t} : \E l \in DOMAIN (ls \o heading) : IsText((ls \o heading)[l], n)  BY <1>6
  <2>4. t + 1 \in Nat /\ a + attributes \in Nat /\ {t} \in SUBSET Nat /\ "A" \in Kinds
    BY <1>2 DEF Kinds
  <2>5. QED  BY <1>2, <1>5, <1>7, <2>2, <2>3, <2>4, RowKeepsSound
<1>9. QED  BY <1>3, <1>8, OutIs

LEMMA ThreeJoined ==
  ASSUME NEW D, NEW a \in Seq(D), NEW b \in Seq(D), NEW c \in Seq(D)
  PROVE  a \o (b \o c) = (a \o b) \o c
BY ConcatAssociative

LEMMA RelationKeepsSound ==
  ASSUME NEW out \in Outs
  PROVE  AddRelation(out) \in Outs
<1> DEFINE ls == out.lines  t == out.t  a == out.a  r == out.r
           x == Line("T", t, {})  y == Line("T", t + 1, {})  z == Line("R", r, {t, t + 1})
           ends == <<x, y>>
           link == <<z>>
<1>1. SoundLines(ls, t, a, r)  BY DEF Outs
<1>2. ls \in Seq(Lines) /\ t \in Nat /\ a \in Nat /\ r \in Nat  BY DEF Outs
<1>3. AddRelation(out) = [lines |-> ls \o <<x, y, z>>, t |-> t + 2, a |-> a, r |-> r + 1]
  BY DEF AddRelation
<1> HIDE DEF ls, t, a, r
<1>4. /\ x \in Lines /\ x.kind = "T" /\ x.n = t /\ x.about = {}
      /\ y \in Lines /\ y.kind = "T" /\ y.n = t + 1 /\ y.about = {}
      /\ z \in Lines /\ z.kind = "R" /\ z.n = r /\ z.about = {t, t + 1}
  <2>1. t + 1 \in Nat /\ {t, t + 1} \in SUBSET Nat  BY <1>2
  <2>2. QED  BY <1>2, <2>1, LineIs DEF Kinds
<1> HIDE DEF x, y, z
<1>5. ls \o <<x, y, z>> = (ls \o ends) \o link
  <2>1. ends \in Seq(Lines) /\ link \in Seq(Lines) /\ <<x, y, z>> = ends \o link
        /\ <<x, y, z>> \in Seq(Lines)
    BY <1>4
  <2> HIDE DEF ends, link
  <2>2. ls \o (ends \o link) = (ls \o ends) \o link
    <3>1. PICK p \in Seq(Lines), q \in Seq(Lines) : p = ends /\ q = link  BY <2>1
    <3>2. ls \in Seq(Lines)  BY <1>2
    <3>3. ls \o (p \o q) = (ls \o p) \o q  BY <3>2, ThreeJoined
    <3>4. QED  BY <3>1, <3>3, Zenon
  <2>3. QED  BY <2>1, <2>2, Zenon
<1>6. Row(ends, "T", NextNumber("T", t, a, r), {}) /\ Len(ends) = 2
  <2>1. NextNumber("T", t, a, r) = t  BY DEF NextNumber
  <2>2. ends \in Seq(Lines) /\ DOMAIN ends = {1, 2} /\ ends[1] = x /\ ends[2] = y /\ Len(ends) = 2
    BY <1>4
  <2> HIDE DEF ends
  <2>3. QED  BY <1>2, <1>4, <2>1, <2>2 DEF Row
<1>7. Row(link, "R", NextNumber("R", t + 2, a, r), {t, t + 1}) /\ Len(link) = 1
  <2>1. NextNumber("R", t + 2, a, r) = r  BY DEF NextNumber
  <2>2. link \in Seq(Lines) /\ DOMAIN link = {1} /\ link[1] = z /\ Len(link) = 1
    BY <1>4
  <2> HIDE DEF link
  <2>3. QED  BY <1>2, <1>4, <2>1, <2>2 DEF Row
<1>8. \A n \in {t, t + 1} : \E l \in DOMAIN (ls \o ends) : IsText((ls \o ends)[l], n)
  <2>0. IsText(ends[1], t) /\ IsText(ends[2], t + 1)  BY <1>4 DEF IsText
  <2>1. ends \in Seq(Lines) /\ Len(ends) = 2  BY <1>4
  <2> HIDE DEF ends
  <2>2. /\ ls \o ends \in Seq(Lines) /\ Len(ls) \in Nat /\ Len(ls \o ends) = Len(ls) + 2
        /\ (ls \o ends)[Len(ls) + 1] = ends[1] /\ (ls \o ends)[Len(ls) + 2] = ends[2]
    <3>1. PICK new \in Seq(Lines) : new = ends  BY <2>1
    <3>2. PICK m, n : m = Len(ls) /\ n = Len(new)  OBVIOUS
    <3>3. n = 2  BY <2>1, <3>1, <3>2
    <3>4. /\ ls \o new \in Seq(Lines) /\ m \in Nat /\ Len(ls \o new) = m + n
          /\ \A i \in 1..n : (ls \o new)[m + i] = new[i]
      BY <1>2, <3>2, JoinFrom
    <3>5. QED  BY <3>1, <3>2, <3>3, <3>4
  <2>3. Len(ls) + 1 \in DOMAIN (ls \o ends) /\ Len(ls) + 2 \in DOMAIN (ls \o ends)  BY <2>2
  <2>4. QED  BY <2>0, <2>2, <2>3
<1> HIDE DEF ends, link
<1>9. SoundLines(ls \o ends, t + 2, a, r)
  <2>1. \A n \in {} : \E l \in DOMAIN ls : IsText(ls[l], n)  OBVIOUS
  <2>2. t + 2 \in Nat /\ "T" \in Kinds  BY <1>2 DEF Kinds
  <2>3. QED  BY <1>1, <1>2, <1>6, <2>1, <2>2, RowKeepsSound
<1>10. SoundLines((ls \o ends) \o link, t + 2, a, r + 1)
  <2>1. t + 2 \in Nat /\ r + 1 \in Nat /\ {t, t + 1} \in SUBSET Nat /\ "R" \in Kinds
    BY <1>2 DEF Kinds
  <2>2. QED  BY <1>2, <1>7, <1>8, <1>9, <2>1, RowKeepsSound
<1>11. QED  BY <1>3, <1>5, <1>10, OutIs

\* What is written in turn
ItemsToWrite == [kind : {"entity", "relation", "unplaced"}, attributes : Nat]

LEMMA ItemKeepsSound ==
  ASSUME NEW out \in Outs, NEW item \in ItemsToWrite
  PROVE  AddItem(out, item) \in Outs
<1>1. item.attributes \in Nat  BY DEF ItemsToWrite
<1>2. CASE item.kind = "entity"    BY <1>1, <1>2, EntityKeepsSound DEF AddItem
<1>3. CASE item.kind = "relation"  BY <1>3, RelationKeepsSound DEF AddItem
<1>4. CASE item.kind \notin {"entity", "relation"}  BY <1>4 DEF AddItem
<1>5. QED  BY <1>2, <1>3, <1>4

LEMMA WrittenIsSound ==
  ASSUME NEW out \in Outs, NEW items \in Seq(ItemsToWrite)
  PROVE  Written(out, items) \in Outs
<1>1. PICK n \in Nat : n = Len(items)  OBVIOUS
<1>2. DOMAIN items = 1..n  BY <1>1
<1> DEFINE Eq(f) == f = [s \in SUBSET (DOMAIN items) |->
                           IF s = {} THEN out ELSE AddItem(f[s \ {Max(s)}], items[Max(s)])]
           f0 == CHOOSE f : Eq(f)
           step == [k \in 1..n |-> [o \in Outs |-> AddItem(o, items[k])]]
<1>3. Written(out, items) = f0[DOMAIN items]  BY DEF Written, FoldLeft, MapThenFoldSet
<1>4. step \in [1..n -> [Outs -> Outs]]
  <2>1. \A k \in 1..n : items[k] \in ItemsToWrite  BY <1>2
  <2>2. QED  BY <2>1, ItemKeepsSound
<1>5. \A s \in SUBSET (1..n) : s # {} => Max(s) \in 1..n /\ s \ {Max(s)} \in SUBSET (1..n)
  <2> SUFFICES ASSUME NEW s \in SUBSET (1..n), s # {}  PROVE Max(s) \in s  OBVIOUS
  <2>1. s \in SUBSET (0..n)  OBVIOUS
  <2>2. QED  BY <2>1, MaxIs
<1>6. \E f : Eq(f)
  <2> HIDE DEF step
  <2>1. PICK g : Folds(n, Outs, out, step, g)  BY <1>4, FoldExists
  <2> USE DEF step
  <2>2. g = [s \in SUBSET (1..n) |-> g[s]]  BY <2>1 DEF Folds
  <2>3. \A s \in SUBSET (1..n) : g[s] = IF s = {} THEN out
                                        ELSE AddItem(g[s \ {Max(s)}], items[Max(s)])
    BY <1>5, <2>1 DEF Folds
  <2>4. QED  BY <1>2, <2>2, <2>3
<1>7. Eq(f0)  BY <1>6
<1>8. PICK F : Values(n, Outs, out, step, F, f0[1..n])
  <2>1. f0[{}] = out  BY <1>2, <1>7
  <2>2. ASSUME NEW s \in SUBSET (1..n), s # {}, f0[s \ {Max(s)}] \in Outs
        PROVE  f0[s] = step[Max(s)][f0[s \ {Max(s)}]]
    <3>1. f0[s] = AddItem(f0[s \ {Max(s)}], items[Max(s)])  BY <1>2, <1>7, <2>2
    <3>2. Max(s) \in 1..n  BY <1>5, <2>2
    <3> HIDE DEF f0
    <3>3. QED  BY <2>2, <3>1, <3>2
  <2> HIDE DEF step, f0
  <2>3. QED  BY <1>4, <2>1, <2>2, FoldValues
<1> HIDE DEF f0, step
<1>9. f0[1..n] \in Outs  BY <1>8 DEF Values
<1>10. QED  BY <1>2, <1>3, <1>9

LEMMA EntityIs ==
  ASSUME NEW n \in Nat
  PROVE  Entity(n) \in ItemsToWrite /\ Relation \in ItemsToWrite /\ Unplaced \in ItemsToWrite
BY DEF Entity, Relation, Unplaced, ItemsToWrite

LEMMA AttributesIs ==
  ASSUME NEW a \in Annotations, NEW both
  PROVE  Attributes(a, both) \in Nat
<1> DEFINE known == {c \in DOMAIN a.concepts : a.concepts[c].iri # NoIri}
<1>1. PICK n \in Nat : n = Len(a.concepts) /\ DOMAIN a.concepts = 1..n  BY DEF Annotations
<1>2. Cardinality(known) \in Nat
  <2>1. IsFiniteSet(1..n)  BY FS_Interval
  <2>2. known \subseteq 1..n  BY <1>1
  <2>3. QED  BY <2>1, <2>2, FS_Subset, FS_CardinalityType
<1> HIDE DEF known
<1>3. Attributes(a, both) = 2 * Cardinality(known) + (IF both THEN n ELSE 0)
  BY <1>1 DEF Attributes, known
<1>4. PICK k \in Nat : k = Cardinality(known)  BY <1>2
<1>5. 2 * k + (IF both THEN n ELSE 0) \in Nat  OBVIOUS
<1>6. QED  BY <1>3, <1>4, <1>5

LEMMA KnownIs ==
  ASSUME NEW classes \in Seq(STRING)
  PROVE  Known(classes) \in Nat
<1> DEFINE known == {c \in DOMAIN classes : classes[c] # NoIri}
<1>1. PICK n \in Nat : DOMAIN classes = 1..n  OBVIOUS
<1>2. IsFiniteSet(1..n)  BY FS_Interval
<1>3. known \subseteq 1..n  BY <1>1
<1>4. QED  BY <1>2, <1>3, FS_Subset, FS_CardinalityType DEF Known

LEMMA ItemsTyped ==
  ASSUME NEW j \in FinishedJobs, NEW dismissed
  PROVE  /\ Items(Copy(j, dismissed)) \in Seq(ItemsToWrite)
         /\ PropositionItems(Copy(j, dismissed)) \in Seq(ItemsToWrite)
<1> DEFINE e == Copy(j, dismissed)
           shown == Picked(e.annotations, e.shown)
<1>1. /\ e.annotations = j.annotations /\ e.shown = Shown(j, dismissed)
      /\ e.individuals = j.individuals /\ e.properties = j.properties
      /\ e.triples = j.triples /\ e.propositions = j.propositions
  BY DEF Copy
<1> HIDE DEF e
<1>2. /\ j.annotations \in Seq(Annotations) /\ j.individuals \in Seq(Individuals)
      /\ j.properties \in Seq(Properties) /\ j.triples \in Seq(Triples)
      /\ j.propositions \in Seq(Propositions)
  BY DEF FinishedJobs
<1>3. shown \in Seq(Annotations)
  <2>1. Shown(j, dismissed) \in SUBSET (DOMAIN j.annotations)  BY DEF Shown
  <2>2. QED  BY <1>1, <1>2, <2>1, PickedIn
<1> HIDE DEF shown
<1>4. [a \in DOMAIN shown |-> Entity(Attributes(shown[a], e.both))] \in Seq(ItemsToWrite)
  <2>1. \A a \in DOMAIN shown : Entity(Attributes(shown[a], e.both)) \in ItemsToWrite
    BY <1>3, AttributesIs, EntityIs
  <2>2. QED  BY <1>3, <2>1
<1>5. [i \in DOMAIN e.individuals |-> Entity(OfIndividual(e.individuals[i]))] \in Seq(ItemsToWrite)
  <2>1. ASSUME NEW i \in DOMAIN e.individuals
        PROVE  Entity(OfIndividual(e.individuals[i])) \in ItemsToWrite
    <3>1. PICK x \in Individuals : x = e.individuals[i]  BY <1>1, <1>2
    <3>2. x.classes \in Seq(STRING)  BY DEF Individuals
    <3>3. PICK k \in Nat : k = Known(x.classes)  BY <3>2, KnownIs
    <3>4. OfIndividual(x) \in Nat  BY <3>3 DEF OfIndividual
    <3>5. QED  BY <3>1, <3>4, EntityIs
  <2>2. QED  BY <1>1, <1>2, <2>1
<1>6. [p \in DOMAIN e.properties |-> Entity(IF e.properties[p].iri = NoIri THEN 0 ELSE 1)]
        \in Seq(ItemsToWrite)
  <2>1. \A p \in DOMAIN e.properties :
          Entity(IF e.properties[p].iri = NoIri THEN 0 ELSE 1) \in ItemsToWrite
    BY EntityIs
  <2>2. e.properties \in Seq(Properties)  BY <1>1, <1>2
  <2> DEFINE list == [p \in DOMAIN e.properties |->
                       Entity(IF e.properties[p].iri = NoIri THEN 0 ELSE 1)]
  <2>3. \A p \in DOMAIN e.properties : list[p] \in ItemsToWrite  BY <2>1
  <2>4. list = [p \in DOMAIN e.properties |-> list[p]]  OBVIOUS
  <2> HIDE DEF list
  <2>5. list \in Seq(ItemsToWrite)  BY <2>2, <2>3, <2>4, ListOver
  <2>6. QED  BY <2>5 DEF list
<1>7. [t \in DOMAIN e.triples |-> IF e.triples[t].placed THEN Relation ELSE Unplaced]
        \in Seq(ItemsToWrite)
  <2>1. Relation \in ItemsToWrite /\ Unplaced \in ItemsToWrite  BY EntityIs
  <2>2. e.triples \in Seq(Triples)  BY <1>1, <1>2
  <2> DEFINE list == [t \in DOMAIN e.triples |->
                       IF e.triples[t].placed THEN Relation ELSE Unplaced]
  <2>3. \A t \in DOMAIN e.triples : list[t] \in ItemsToWrite  BY <2>1
  <2>4. list = [t \in DOMAIN e.triples |-> list[t]]  OBVIOUS
  <2> HIDE DEF list
  <2>5. list \in Seq(ItemsToWrite)  BY <2>2, <2>3, <2>4, ListOver
  <2>6. QED  BY <2>5 DEF list
<1>8. [p \in DOMAIN e.propositions |->
         IF e.propositions[p].placed THEN Entity(e.propositions[p].roles + 1) ELSE Unplaced]
        \in Seq(ItemsToWrite)
  <2>1. ASSUME NEW p \in DOMAIN e.propositions
        PROVE  Entity(e.propositions[p].roles + 1) \in ItemsToWrite /\ Unplaced \in ItemsToWrite
    <3>1. PICK x \in Propositions : x = e.propositions[p]  BY <1>1, <1>2
    <3>2. x.roles + 1 \in Nat  BY DEF Propositions
    <3>3. QED  BY <3>1, <3>2, EntityIs
  <2>2. QED  BY <1>1, <1>2, <2>1
<1> DEFINE one == [a \in DOMAIN shown |-> Entity(Attributes(shown[a], e.both))]
           two == [i \in DOMAIN e.individuals |-> Entity(OfIndividual(e.individuals[i]))]
           three == [p \in DOMAIN e.properties |->
                       Entity(IF e.properties[p].iri = NoIri THEN 0 ELSE 1)]
           four == [t \in DOMAIN e.triples |-> IF e.triples[t].placed THEN Relation ELSE Unplaced]
<1>9. Items(e) = one \o two \o three \o four  BY DEF Items, shown
<1>10. one \in Seq(ItemsToWrite) /\ two \in Seq(ItemsToWrite) /\ three \in Seq(ItemsToWrite)
         /\ four \in Seq(ItemsToWrite)
  BY <1>4, <1>5, <1>6, <1>7
<1> HIDE DEF one, two, three, four
<1>11. Items(e) \in Seq(ItemsToWrite)  BY <1>9, <1>10
<1>12. QED  BY <1>8, <1>11 DEF PropositionItems, e

LEMMA StartIsSound == Start \in Outs
<1> DEFINE none == <<>>
<1>1. none \in Seq(Lines) /\ DOMAIN none = {}  OBVIOUS
<1>2. Start = [lines |-> none, t |-> 1, a |-> 1, r |-> 1]  BY DEF Start
<1> HIDE DEF none
<1>3. SoundLines(none, 1, 1, 1)  BY <1>1 DEF SoundLines, Numbered, Backwards, FirstIsOne
<1>4. QED  BY <1>2, <1>3, OutIs

\* What RefersBack says of the lines of a file
BratRefers(lines) ==
  LET NoText == \A l \in DOMAIN lines : lines[l].kind # "T"
  IN  /\ \A k \in DOMAIN lines : \A n \in lines[k].about :
           \/ \E l \in 1..(k - 1) : lines[l].kind = "T" /\ lines[l].n = n
           \/ lines[k].kind = "#" /\ NoText
      /\ \A k, l \in DOMAIN lines :
           k # l => lines[k].kind # lines[l].kind \/ lines[k].n # lines[l].n

LEMMA SoundRefers ==
  ASSUME NEW lines, NEW t, NEW a, NEW r, SoundLines(lines, t, a, r), NEW both
  PROVE  BratRefers(lines \o (IF both THEN <<Line("#", 1, {1})>> ELSE <<>>))
<1> DEFINE file == lines \o (IF both THEN <<Line("#", 1, {1})>> ELSE <<>>)
           old  == Len(lines)
<1>1. lines \in Seq(Lines)  BY DEF SoundLines
<1>2. /\ old \in Nat /\ DOMAIN lines = 1..old
      /\ \A k \in 1..old : lines[k].kind # "#"
  <2>1. \A k \in 1..old : lines[k].kind # "#"
    <3> SUFFICES ASSUME NEW k \in 1..old  PROVE lines[k].kind # "#"  OBVIOUS
    <3>1. PICK x \in Lines : x = lines[k]  BY <1>1
    <3>2. QED  BY <3>1 DEF Lines, Kinds
  <2>2. QED  BY <1>1, <2>1
<1>3. BratRefers(lines)  BY DEF SoundLines, Numbered, Backwards, IsText, BratRefers
<1>4. CASE ~both
  <2>1. file = lines  BY <1>1, <1>4
  <2>2. QED  BY <1>3, <2>1
<1>5. CASE both
  <2>1. PICK note : note = Line("#", 1, {1})  OBVIOUS
  <2>2. note.kind = "#" /\ note.about = {1}  BY <2>1 DEF Line
  <2>3. /\ DOMAIN file = 1..(old + 1) /\ file[old + 1] = note
        /\ \A k \in 1..old : file[k] = lines[k]
    <3>1. file = Append(lines, note)
      <4>1. file = lines \o <<note>>  BY <1>5, <2>1
      <4>2. lines \in Seq(Lines \cup {note}) /\ note \in Lines \cup {note}  BY <1>1
      <4>3. QED  BY <4>1, <4>2
    <3> HIDE DEF file
    <3>2. QED  BY <1>1, <1>2, <3>1
  <2> HIDE DEF file, old
  <2>4. ASSUME NEW k \in DOMAIN file, NEW n \in file[k].about
        PROVE  \/ \E l \in 1..(k - 1) : file[l].kind = "T" /\ file[l].n = n
               \/ file[k].kind = "#" /\ \A l \in DOMAIN file : file[l].kind # "T"
    <3>1. CASE k \in 1..old
      <4>1. PICK l \in 1..(k - 1) : IsText(lines[l], n)
        BY <1>2, <2>3, <2>4, <3>1 DEF SoundLines, Backwards
      <4>2. file[l] = lines[l]  BY <1>2, <2>3, <3>1
      <4>3. QED  BY <4>1, <4>2 DEF IsText
    <3>2. CASE k = old + 1
      <4>1. file[k] = note /\ n = 1  BY <2>2, <2>3, <2>4, <3>2
      <4>2. CASE \E l \in DOMAIN lines : IsText(lines[l], 1)
        <5>1. PICK l \in 1..old : IsText(lines[l], 1)  BY <1>2, <4>2
        <5>2. l \in 1..(k - 1) /\ file[l] = lines[l]  BY <1>2, <2>3, <3>2
        <5>3. QED  BY <4>1, <5>1, <5>2 DEF IsText
      <4>3. CASE \A l \in DOMAIN lines : lines[l].kind # "T"
        <5>1. ASSUME NEW l \in DOMAIN file  PROVE file[l].kind # "T"
          <6>1. CASE l \in 1..old   BY <1>2, <2>3, <4>3, <6>1
          <6>2. CASE l = old + 1     BY <2>2, <2>3, <6>2
          <6>3. QED  BY <1>2, <2>3, <5>1, <6>1, <6>2
        <5>2. QED  BY <2>2, <4>1, <5>1
      <4>4. QED  BY <4>2, <4>3 DEF SoundLines, FirstIsOne
    <3>3. QED  BY <1>2, <2>3, <2>4, <3>1, <3>2
  <2>5. ASSUME NEW k \in DOMAIN file, NEW l \in DOMAIN file, k # l
        PROVE  file[k].kind # file[l].kind \/ file[k].n # file[l].n
    <3>1. CASE k \in 1..old /\ l \in 1..old  BY <1>2, <1>3, <2>3, <2>5, <3>1 DEF BratRefers
    <3>2. CASE k = old + 1 /\ l \in 1..old   BY <1>2, <2>2, <2>3, <3>2
    <3>3. CASE l = old + 1 /\ k \in 1..old   BY <1>2, <2>2, <2>3, <3>3
    <3>4. QED  BY <1>2, <2>3, <2>5, <3>1, <3>2, <3>3
  <2>6. QED  BY <2>4, <2>5 DEF BratRefers, file
<1>6. QED  BY <1>4, <1>5

LEMMA BratSound ==
  ASSUME NEW j \in FinishedJobs, NEW dismissed
  PROVE  BratRefers(Brat(Copy(j, dismissed)))
<1> DEFINE e == Copy(j, dismissed)
<1>1. Items(e) \in Seq(ItemsToWrite) /\ PropositionItems(e) \in Seq(ItemsToWrite)
  BY ItemsTyped
<1> HIDE DEF e
<1>2. Written(Start, Items(e)) \in Outs  BY <1>1, StartIsSound, WrittenIsSound
<1>3. PICK out \in Outs : out = AddPropositions(e, Written(Start, Items(e)))
  BY <1>1, <1>2, WrittenIsSound DEF AddPropositions
<1>4. SoundLines(out.lines, out.t, out.a, out.r)  BY DEF Outs
<1>5. Brat(e) = out.lines \o (IF e.both THEN <<Line("#", 1, {1})>> ELSE <<>>)  BY <1>3 DEF Brat
<1>6. QED  BY <1>4, <1>5, SoundRefers DEF e

-----------------------------------------------------------------------------
(* A graph.  The ends of its edges.                                           *)
LEMMA EndPointIs ==
  ASSUME NEW links \in Seq(Links)
  PROVE  \/ EndPoint(links) = <<"none", 0>>
         \/ \E l \in DOMAIN links :
               links[l].type = "individual" /\ EndPoint(links) = <<"ind", links[l].id>>
         \/ \E iri : EndPoint(links) = <<"concept", iri>>
<1> DEFINE places == {l \in DOMAIN links : Usable(links[l])}
           usable == Picked(links, places)
<1>1. EndPoint(links) = IF usable = <<>> THEN <<"none", 0>>
                        ELSE IF usable[1].type = "individual" THEN <<"ind", usable[1].id>>
                        ELSE <<"concept", usable[1].iri>>
  BY DEF EndPoint
<1>2. places \in SUBSET (DOMAIN links)  OBVIOUS
<1> HIDE DEF places
<1>3. PICK order \in Seq(places) :
        /\ Len(order) = Cardinality(places) /\ Cardinality(places) \in Nat
        /\ usable = [k \in 1..Cardinality(places) |-> links[order[k]]]
  BY <1>2, PickedIs
<1>4. CASE usable = <<>>  BY <1>1, <1>4
<1>5. CASE usable # <<>>
  <2>1. Cardinality(places) # 0  BY <1>3, <1>5
  <2>2. 1 \in DOMAIN order /\ usable[1] = links[order[1]]  BY <1>3, <2>1
  <2>3. order[1] \in DOMAIN links  BY <1>2, <2>2
  <2> HIDE DEF usable
  <2>4. QED  BY <1>1, <1>5, <2>2, <2>3
<1>6. QED  BY <1>4, <1>5

LEMMA TripleEndsIn ==
  ASSUME NEW j \in FinishedJobs, Linking(j), NEW e,
         e.triples = j.triples, e.individuals = j.individuals,
         NEW t \in DOMAIN j.triples, NEW role \in Roles
  PROVE  LET n == EndPoint(j.triples[t][role])
         IN  n[1] = "none" \/ n[1] = "concept" \/ n \in Nodes(e)
<1> DEFINE links == j.triples[t][role]
<1>1. links \in Seq(Links)
  <2>1. PICK triple \in Triples : triple = j.triples[t]  BY DEF FinishedJobs
  <2>2. QED  BY <2>1 DEF Triples, Roles
<1>2. \A l \in DOMAIN links : links[l].type = "individual" => links[l].id \in DOMAIN j.individuals
  BY DEF Linking
<1>3. PICK n : n = EndPoint(links)  OBVIOUS
<1> HIDE DEF links
<1>4. CASE n = <<"none", 0>>  BY <1>3, <1>4 DEF links
<1>5. CASE \E l \in DOMAIN links : links[l].type = "individual" /\ n = <<"ind", links[l].id>>
  <2>1. PICK i \in DOMAIN e.individuals : n = <<"ind", i>>  BY <1>2, <1>5
  <2>2. n \in Nodes(e)  BY <2>1 DEF Nodes
  <2>3. QED  BY <1>3, <2>2 DEF links
<1>6. CASE \E iri : n = <<"concept", iri>>  BY <1>3, <1>6 DEF links
<1>7. QED  BY <1>1, <1>3, <1>4, <1>5, <1>6, EndPointIs

LEMMA EdgesEndIn ==
  ASSUME NEW j, NEW e \in InDocument(j) \cup ClassEdges(j) \cup PropertyEdges(j)
  PROVE  {e[1], e[2]} \subseteq Nodes(j)
<1>1. CASE e \in InDocument(j)
  <2>1. PICK n \in Nodes(j) : e = <<<<"doc", 0>>, n>>  BY <1>1 DEF InDocument
  <2>2. <<"doc", 0>> \in Nodes(j)  BY DEF Nodes
  <2>3. QED  BY <2>1, <2>2
<1>2. CASE e \in ClassEdges(j)
  <2>1. PICK x \in ClassIris(j) : /\ <<"concept", x[2]>> \in ConceptNodes(j)
                                  /\ e = <<<<"ind", x[1]>>, <<"concept", x[2]>>>>
    BY <1>2 DEF ClassEdges
  <2>2. PICK i \in DOMAIN j.individuals : x \in {i} \X (ToSet(j.individuals[i].classes) \ {NoIri})
    BY <2>1 DEF ClassIris
  <2>3. x[1] = i  BY <2>2
  <2>4. <<"ind", x[1]>> \in Nodes(j) /\ <<"concept", x[2]>> \in Nodes(j)  BY <2>1, <2>3 DEF Nodes
  <2>5. QED  BY <2>1, <2>4
<1>3. CASE e \in PropertyEdges(j)
  <2>0. PICK p \in DOMAIN j.properties :
          \E i : <<"concept", i>> \in ConceptNodes(j) /\ e = <<<<"prop", p>>, <<"concept", i>>>>
    BY <1>3 DEF PropertyEdges
  <2>1. PICK i : <<"concept", i>> \in ConceptNodes(j) /\ e = <<<<"prop", p>>, <<"concept", i>>>>
    BY <2>0
  <2>2. <<"prop", p>> \in Nodes(j) /\ <<"concept", i>> \in Nodes(j)  BY <2>1 DEF Nodes
  <2>3. QED  BY <2>1, <2>2
<1>4. QED  BY <1>1, <1>2, <1>3

LEMMA InvRefersBack == ExportInv => RefersBack
<1> SUFFICES ASSUME ExportInv  PROVE RefersBack  OBVIOUS
<1> DEFINE e == Exported
<1>1. job \in FinishedJobs /\ Linking(job)  BY DEF ExportInv
<1>2. BratRefers(Brat(e))  BY <1>1, BratSound DEF Exported
<1>3. e.triples = job.triples /\ e.individuals = job.individuals  BY DEF Exported, Copy
<1> HIDE DEF e
<1>4. \A x \in InDocument(e) \cup ClassEdges(e) \cup PropertyEdges(e) :
        {x[1], x[2]} \subseteq Nodes(e)
  BY EdgesEndIn
<1>5. ASSUME NEW x \in TripleEdges(e), NEW n \in {x[1], x[2]}, n[1] # "concept"
      PROVE  n \in Nodes(e)
  <2>1. PICK t \in DOMAIN job.triples :
          /\ x = <<EndPoint(job.triples[t].subject), EndPoint(job.triples[t].object)>>
          /\ x[1][1] # "none" /\ x[2][1] # "none"
    BY <1>3, <1>5 DEF TripleEdges, ToSet
  <2>2. PICK role \in Roles : n = EndPoint(job.triples[t][role])  BY <1>5, <2>1 DEF Roles
  <2>3. n[1] # "none"  BY <1>5, <2>1
  <2>4. QED  BY <1>1, <1>3, <1>5, <2>2, <2>3, TripleEndsIn
<1>6. QED  BY <1>2, <1>4, <1>5 DEF RefersBack, BratRefers, e

(* Nothing a file refers to is missing from it, however many annotations,      *)
(* attributes, triples and propositions a job has, and whatever was dismissed. *)
THEOREM FilesReferBack == ExportSpec => []RefersBack
BY ExportInvariant, InvRefersBack, PTL

-----------------------------------------------------------------------------
(* HTML.  The tags woven into a text: each opens once and closes once, in the  *)
(* order of their places, the closing ones of a place first.                   *)
Places(length) == [start : 0..length, end : 0..length]

Positioned(tags, length) == length \in Nat /\ tags \in Seq(Places(length))

Events(tags) == {"open", "close"} \X DOMAIN tags

Position(tags, f) == IF f[1] = "close" THEN tags[f[2]].end ELSE tags[f[2]].start

SamePlace(tags, f, g) ==
  \/ f[1] = "close" /\ g[1] = "open"
  \/ f[1] = "close" /\ g[1] = "close" /\ ClosesFirst(tags, f[2], g[2])
  \/ f[1] = "open" /\ g[1] = "open" /\ OpensFirst(tags, f[2], g[2])

Precedes(tags, f, g) ==
  \/ Position(tags, f) < Position(tags, g)
  \/ Position(tags, f) = Position(tags, g) /\ SamePlace(tags, f, g)

LEMMA EndsAre ==
  ASSUME NEW length, NEW tags, Positioned(tags, length), NEW x \in DOMAIN tags
  PROVE  /\ tags[x].start \in 0..length /\ tags[x].end \in 0..length /\ x \in Nat
         /\ tags[x].start \in Nat /\ tags[x].end \in Nat
<1>1. x \in Nat /\ length \in Nat  BY DEF Positioned
<1>2. PICK tag \in Places(length) : tag = tags[x]  BY DEF Positioned
<1>3. tag.start \in 0..length /\ tag.end \in 0..length  BY DEF Places
<1>4. QED  BY <1>1, <1>2, <1>3

LEMMA PrecedesIs ==
  ASSUME NEW length, NEW tags, Positioned(tags, length),
         NEW f \in Events(tags), NEW g \in Events(tags)
  PROVE  /\ ~Precedes(tags, f, f)
         /\ Precedes(tags, f, g) => ~Precedes(tags, g, f)
<1>1. f[2] \in DOMAIN tags /\ g[2] \in DOMAIN tags  BY DEF Events
<1>2. /\ tags[f[2]].start \in Nat /\ tags[f[2]].end \in Nat /\ f[2] \in Nat
      /\ tags[g[2]].start \in Nat /\ tags[g[2]].end \in Nat /\ g[2] \in Nat
  BY <1>1, EndsAre
<1>3. Position(tags, f) \in Nat /\ Position(tags, g) \in Nat  BY <1>2 DEF Position
<1>4. ~SamePlace(tags, f, f)  BY <1>2 DEF SamePlace, ClosesFirst, OpensFirst
<1>5. SamePlace(tags, f, g) => ~SamePlace(tags, g, f)
  BY <1>2 DEF SamePlace, ClosesFirst, OpensFirst
<1>6. QED  BY <1>3, <1>4, <1>5 DEF Precedes

-----------------------------------------------------------------------------
(* One place.                                                                  *)
Ending(tags, p)   == {x \in DOMAIN tags : tags[x].end = p}
Starting(tags, p) == {x \in DOMAIN tags : tags[x].start = p}
Closes(tags, p) ==
  Ranked(Ending(tags, p),
         {xy \in Ending(tags, p) \X Ending(tags, p) : ClosesFirst(tags, xy[1], xy[2])})
Opens(tags, p) ==
  Ranked(Starting(tags, p),
         {xy \in Starting(tags, p) \X Starting(tags, p) : OpensFirst(tags, xy[1], xy[2])})

LEMMA ClosesAre ==
  ASSUME NEW length, NEW tags, Positioned(tags, length), NEW p
  PROVE  /\ Closes(tags, p) \in Seq(Ending(tags, p))
         /\ \A i, k \in DOMAIN Closes(tags, p) :
              i < k => ClosesFirst(tags, Closes(tags, p)[i], Closes(tags, p)[k])
         /\ \A x \in Ending(tags, p) : \E i \in DOMAIN Closes(tags, p) : Closes(tags, p)[i] = x
<1> DEFINE S == Ending(tags, p)
           R == {xy \in S \X S : ClosesFirst(tags, xy[1], xy[2])}
<1>1. \A x, y \in S : <<x, y>> \in R <=> ClosesFirst(tags, x, y)  OBVIOUS
<1>2. \A x \in S : x \in Nat /\ tags[x].start \in Nat  BY EndsAre DEF Ending
<1>3. IsFiniteSet(S)
  <2>1. PICK n \in Nat : DOMAIN tags = 1..n  BY DEF Positioned
  <2>2. QED  BY <2>1, FS_Interval, FS_Subset DEF Ending
<1> HIDE DEF R, S
<1>4. Orders(R, S)
  <2>1. \A x, y \in S :
          ClosesFirst(tags, x, y) <=> (\/ tags[x].start > tags[y].start
                                       \/ tags[x].start = tags[y].start /\ x < y)
    BY Zenon DEF ClosesFirst
  <2>2. \A x \in S : <<x, x>> \notin R  BY <1>1, <1>2, <2>1
  <2>3. \A x, y \in S : x # y => <<x, y>> \in R \/ <<y, x>> \in R  BY <1>1, <1>2, <2>1
  <2>4. \A x, y, z \in S : <<x, y>> \in R /\ <<y, z>> \in R => <<x, z>> \in R
    <3> SUFFICES ASSUME NEW x \in S, NEW y \in S, NEW z \in S,
                        <<x, y>> \in R, <<y, z>> \in R
                 PROVE  <<x, z>> \in R
      OBVIOUS
    <3>1. ClosesFirst(tags, x, y) /\ ClosesFirst(tags, y, z)  BY <1>1
    <3>2. PICK i \in Nat, j \in Nat, k \in Nat :
            i = tags[x].start /\ j = tags[y].start /\ k = tags[z].start
      BY <1>2
    <3>3. ClosesFirst(tags, x, z)  BY <1>2, <2>1, <3>1, <3>2
    <3>4. QED  BY <1>1, <3>3
  <2>5. QED  BY <2>2, <2>3, <2>4 DEF Orders
<1>5. Closes(tags, p) = Ranked(S, R)  BY DEF Closes, R, S
<1>6. /\ \A i, k \in DOMAIN Ranked(S, R) : i < k => <<Ranked(S, R)[i], Ranked(S, R)[k]>> \in R
      /\ \A x \in S : \E i \in DOMAIN Ranked(S, R) : Ranked(S, R)[i] = x
  BY <1>3, <1>4, RankedInOrder
<1>7. Ranked(S, R) \in Seq(S)  BY <1>3, <1>4, RankedIs
<1>8. \A i \in DOMAIN Ranked(S, R) : Ranked(S, R)[i] \in S  BY <1>7
<1>9. QED  BY <1>1, <1>5, <1>6, <1>7, <1>8 DEF S

LEMMA OpensAre ==
  ASSUME NEW length, NEW tags, Positioned(tags, length), NEW p
  PROVE  /\ Opens(tags, p) \in Seq(Starting(tags, p))
         /\ \A i, k \in DOMAIN Opens(tags, p) :
              i < k => OpensFirst(tags, Opens(tags, p)[i], Opens(tags, p)[k])
         /\ \A x \in Starting(tags, p) : \E i \in DOMAIN Opens(tags, p) : Opens(tags, p)[i] = x
<1> DEFINE S == Starting(tags, p)
           R == {xy \in S \X S : OpensFirst(tags, xy[1], xy[2])}
<1>1. \A x, y \in S : <<x, y>> \in R <=> OpensFirst(tags, x, y)  OBVIOUS
<1>2. \A x \in S : x \in Nat /\ tags[x].end \in Nat  BY EndsAre DEF Starting
<1>3. IsFiniteSet(S)
  <2>1. PICK n \in Nat : DOMAIN tags = 1..n  BY DEF Positioned
  <2>2. QED  BY <2>1, FS_Interval, FS_Subset DEF Starting
<1> HIDE DEF R, S
<1>4. Orders(R, S)
  <2>1. \A x, y \in S :
          OpensFirst(tags, x, y) <=> (\/ tags[x].end > tags[y].end
                                      \/ tags[x].end = tags[y].end /\ x > y)
    BY Zenon DEF OpensFirst
  <2>2. \A x \in S : <<x, x>> \notin R  BY <1>1, <1>2, <2>1
  <2>3. \A x, y \in S : x # y => <<x, y>> \in R \/ <<y, x>> \in R  BY <1>1, <1>2, <2>1
  <2>4. \A x, y, z \in S : <<x, y>> \in R /\ <<y, z>> \in R => <<x, z>> \in R
    <3> SUFFICES ASSUME NEW x \in S, NEW y \in S, NEW z \in S,
                        <<x, y>> \in R, <<y, z>> \in R
                 PROVE  <<x, z>> \in R
      OBVIOUS
    <3>1. OpensFirst(tags, x, y) /\ OpensFirst(tags, y, z)  BY <1>1
    <3>2. PICK i \in Nat, j \in Nat, k \in Nat :
            i = tags[x].end /\ j = tags[y].end /\ k = tags[z].end
      BY <1>2
    <3>3. OpensFirst(tags, x, z)  BY <1>2, <2>1, <3>1, <3>2
    <3>4. QED  BY <1>1, <3>3
  <2>5. QED  BY <2>2, <2>3, <2>4 DEF Orders
<1>5. Opens(tags, p) = Ranked(S, R)  BY DEF Opens, R, S
<1>6. /\ \A i, k \in DOMAIN Ranked(S, R) : i < k => <<Ranked(S, R)[i], Ranked(S, R)[k]>> \in R
      /\ \A x \in S : \E i \in DOMAIN Ranked(S, R) : Ranked(S, R)[i] = x
  BY <1>3, <1>4, RankedInOrder
<1>7. Ranked(S, R) \in Seq(S)  BY <1>3, <1>4, RankedIs
<1>8. \A i \in DOMAIN Ranked(S, R) : Ranked(S, R)[i] \in S  BY <1>7
<1>9. QED  BY <1>1, <1>5, <1>6, <1>7, <1>8 DEF S

\* What is woven in at one place: its events, in their order
Sorted(tags, woven) ==
  \A i, k \in DOMAIN woven : i < k => Precedes(tags, woven[i], woven[k])

AllOf(tags, p, woven) ==
  /\ woven \in Seq(Events(tags))
  /\ \A i \in DOMAIN woven : Position(tags, woven[i]) = p
  /\ \A f \in Events(tags) : Position(tags, f) = p => \E i \in DOMAIN woven : woven[i] = f

LEMMA WovenAtIs ==
  ASSUME NEW length, NEW tags, Positioned(tags, length), NEW p
  PROVE  AllOf(tags, p, WovenAt(tags, p)) /\ Sorted(tags, WovenAt(tags, p))
<1> DEFINE cs == Closes(tags, p)
           os == Opens(tags, p)
           closing == [i \in DOMAIN cs |-> <<"close", cs[i]>>]
           opening == [i \in DOMAIN os |-> <<"open", os[i]>>]
           woven == closing \o opening
<1>1. WovenAt(tags, p) = woven  BY DEF WovenAt, Closes, Opens, Ending, Starting
<1>2. /\ cs \in Seq(Ending(tags, p))
      /\ \A i, k \in DOMAIN cs : i < k => ClosesFirst(tags, cs[i], cs[k])
      /\ \A x \in Ending(tags, p) : \E i \in DOMAIN cs : cs[i] = x
  BY ClosesAre
<1>3. /\ os \in Seq(Starting(tags, p))
      /\ \A i, k \in DOMAIN os : i < k => OpensFirst(tags, os[i], os[k])
      /\ \A x \in Starting(tags, p) : \E i \in DOMAIN os : os[i] = x
  BY OpensAre
<1> HIDE DEF cs, os
<1>4. PICK m \in Nat : m = Len(cs) /\ DOMAIN cs = 1..m  BY <1>2
<1>5. PICK n \in Nat : n = Len(os) /\ DOMAIN os = 1..n  BY <1>3
<1>6. ASSUME NEW i \in 1..m
      PROVE  /\ closing[i] \in Events(tags) /\ closing[i] = <<"close", cs[i]>>
             /\ Position(tags, closing[i]) = p
  <2>1. cs[i] \in Ending(tags, p)  BY <1>2, <1>4
  <2>2. closing[i] = <<"close", cs[i]>>  BY <1>4
  <2>3. QED  BY <2>1, <2>2 DEF Events, Position, Ending
<1>7. ASSUME NEW i \in 1..n
      PROVE  /\ opening[i] \in Events(tags) /\ opening[i] = <<"open", os[i]>>
             /\ Position(tags, opening[i]) = p
  <2>1. os[i] \in Starting(tags, p)  BY <1>3, <1>5
  <2>2. opening[i] = <<"open", os[i]>>  BY <1>5
  <2>3. QED  BY <2>1, <2>2 DEF Events, Position, Starting
<1>8. closing \in Seq(Events(tags)) /\ Len(closing) = m  BY <1>4, <1>6
<1>9. opening \in Seq(Events(tags)) /\ Len(opening) = n  BY <1>5, <1>7
<1> HIDE DEF closing, opening
<1>10. /\ woven \in Seq(Events(tags)) /\ Len(woven) = m + n /\ DOMAIN woven = 1..(m + n)
       /\ \A i \in 1..m : woven[i] = closing[i]
       /\ \A i \in 1..n : woven[m + i] = opening[i]
  BY <1>8, <1>9, JoinFrom
<1> HIDE DEF woven
<1>11. ASSUME NEW i \in DOMAIN woven
       PROVE  \/ i \in 1..m /\ woven[i] = <<"close", cs[i]>> /\ Position(tags, woven[i]) = p
              \/ /\ i > m
                 /\ i - m \in 1..n /\ woven[i] = <<"open", os[i - m]>>
                 /\ Position(tags, woven[i]) = p
  <2>1. CASE i <= m  BY <1>6, <1>10, <2>1
  <2>2. CASE i > m
    <3>1. PICK k \in 1..n : i = m + k
      <4>1. i - m \in 1..n /\ i = m + (i - m)  BY <1>10, <2>2
      <4>2. QED  BY <4>1
    <3>2. i - m = k  BY <3>1
    <3>3. QED  BY <1>7, <1>10, <2>2, <3>1, <3>2
  <2>3. QED  BY <1>10, <2>1, <2>2
<1>12. ASSUME NEW f \in Events(tags), Position(tags, f) = p
       PROVE  \E i \in DOMAIN woven : woven[i] = f
  <2>1. PICK x \in DOMAIN tags : f = <<"close", x>> \/ f = <<"open", x>>  BY DEF Events
  <2>2. CASE f = <<"close", x>>
    <3>1. x \in Ending(tags, p)  BY <1>12, <2>2 DEF Ending, Position
    <3>2. PICK i \in 1..m : cs[i] = x  BY <1>2, <1>4, <3>1
    <3>3. i \in DOMAIN woven /\ woven[i] = f  BY <1>6, <1>10, <2>2, <3>2
    <3>4. QED  BY <3>3
  <2>3. CASE f = <<"open", x>>
    <3>1. x \in Starting(tags, p)  BY <1>12, <2>3 DEF Starting, Position
    <3>2. PICK i \in 1..n : os[i] = x  BY <1>3, <1>5, <3>1
    <3>3. m + i \in DOMAIN woven /\ woven[m + i] = opening[i]  BY <1>10
    <3>4. opening[i] = f  BY <1>7, <2>3, <3>2
    <3>5. QED  BY <3>3, <3>4
  <2>4. QED  BY <2>1, <2>2, <2>3
<1>13. ASSUME NEW i \in DOMAIN woven, NEW k \in DOMAIN woven, i < k
       PROVE  Precedes(tags, woven[i], woven[k])
  <2>0. i \in Nat /\ k \in Nat  BY <1>10
  <2>1. Position(tags, woven[i]) = Position(tags, woven[k])  BY <1>11
  <2>2. CASE i \in 1..m /\ woven[i] = <<"close", cs[i]>>
    <3>1. CASE k \in 1..m /\ woven[k] = <<"close", cs[k]>>
      <4>1. ClosesFirst(tags, cs[i], cs[k])  BY <1>2, <1>4, <1>13, <2>2, <3>1
      <4>2. SamePlace(tags, woven[i], woven[k])  BY <2>2, <3>1, <4>1 DEF SamePlace
      <4>3. QED  BY <2>1, <4>2 DEF Precedes
    <3>2. CASE k > m /\ woven[k] = <<"open", os[k - m]>>
      <4>1. SamePlace(tags, woven[i], woven[k])  BY <2>2, <3>2 DEF SamePlace
      <4>2. QED  BY <2>1, <4>1 DEF Precedes
    <3>3. QED  BY <1>11, <3>1, <3>2
  <2>3. CASE i > m /\ i - m \in 1..n /\ woven[i] = <<"open", os[i - m]>>
    <3>1. k - m \in 1..n /\ woven[k] = <<"open", os[k - m]>>  BY <1>11, <1>13, <2>0, <2>3
    <3>2. i - m < k - m  BY <1>13, <2>0
    <3>3. OpensFirst(tags, os[i - m], os[k - m])  BY <1>3, <1>5, <2>3, <3>1, <3>2
    <3>4. SamePlace(tags, woven[i], woven[k])  BY <2>3, <3>1, <3>3 DEF SamePlace
    <3>5. QED  BY <2>1, <3>4 DEF Precedes
  <2>4. QED  BY <1>11, <2>2, <2>3
<1>14. AllOf(tags, p, woven)  BY <1>10, <1>11, <1>12 DEF AllOf
<1>15. Sorted(tags, woven)  BY <1>13 DEF Sorted
<1>16. QED  BY <1>1, <1>14, <1>15

-----------------------------------------------------------------------------
(* All places.                                                                 *)
WovenIn(tags, length) == [p \in 1..(length + 1) |-> WovenAt(tags, p - 1)]

LEMMA WovenPartsAre ==
  ASSUME NEW length, NEW tags, Positioned(tags, length)
  PROVE  /\ WovenIn(tags, length) \in Seq(Seq(Events(tags)))
         /\ Len(WovenIn(tags, length)) = length + 1
         /\ \A p \in 1..(length + 1) : /\ AllOf(tags, p - 1, WovenIn(tags, length)[p])
                                       /\ Sorted(tags, WovenIn(tags, length)[p])
<1> DEFINE seqs == WovenIn(tags, length)
<1>1. length \in Nat  BY DEF Positioned
<1>2. \A p \in 1..(length + 1) : seqs[p] = WovenAt(tags, p - 1)  BY DEF WovenIn
<1>3. \A p \in 1..(length + 1) : AllOf(tags, p - 1, seqs[p]) /\ Sorted(tags, seqs[p])
  BY <1>2, WovenAtIs
<1>4. \A p \in 1..(length + 1) : seqs[p] \in Seq(Events(tags))  BY <1>3 DEF AllOf
<1>5. seqs = [p \in 1..(length + 1) |-> seqs[p]]  BY DEF WovenIn
<1> HIDE DEF seqs
<1>6. seqs \in Seq(Seq(Events(tags))) /\ Len(seqs) = length + 1  BY <1>1, <1>4, <1>5
<1>7. QED  BY <1>3, <1>6 DEF seqs

\* What is woven is sorted and has every event.
LEMMA WovenIsSorted ==
  ASSUME NEW length, NEW tags, Positioned(tags, length),
         NEW woven, woven = FlattenSeq(WovenIn(tags, length))
  PROVE  /\ woven \in Seq(Events(tags)) /\ Sorted(tags, woven)
         /\ \A f \in Events(tags) : \E i \in DOMAIN woven : woven[i] = f
<1> DEFINE seqs == WovenIn(tags, length)
           D == Events(tags)
<1>1. PICK n \in Nat : n = length + 1  BY DEF Positioned
<1>2. /\ seqs \in Seq(Seq(D)) /\ Len(seqs) = n
      /\ \A p \in 1..n : AllOf(tags, p - 1, seqs[p]) /\ Sorted(tags, seqs[p])
  BY <1>1, WovenPartsAre
<1> HIDE DEF seqs, D
<1>3. woven \in Seq(D) /\ \E part : Parts(seqs, D, part)  BY <1>2, FlattenIs DEF seqs
<1>4. PICK part : Parts(seqs, D, part)  BY <1>3
<1>5. woven = FlattenSeq(seqs)  BY DEF seqs
<1>6. ASSUME NEW p \in 1..n
      PROVE  /\ Len(part[p - 1]) \in Nat /\ Len(part[p]) = Len(part[p - 1]) + Len(seqs[p])
             /\ Len(part[p]) <= Len(woven) /\ Len(seqs[p]) \in Nat
             /\ DOMAIN seqs[p] = 1..Len(seqs[p])
             /\ \A i \in 1..Len(seqs[p]) : woven[Len(part[p - 1]) + i] = seqs[p][i]
  <2>1. p \in 1..Len(seqs)  BY <1>2
  <2>2. Sits(seqs, part, p)  BY <1>4, <2>1, FlattenHas
  <2>3. PICK list \in Seq(D) : list = seqs[p]  BY <1>2
  <2>4. Len(seqs[p]) \in Nat /\ DOMAIN seqs[p] = 1..Len(seqs[p])  BY <2>3
  <2>5. QED  BY <1>5, <2>2, <2>4 DEF Sits
<1>7. ASSUME NEW i \in DOMAIN woven
      PROVE  \E p \in 1..n : \E k \in 1..Len(seqs[p]) : i = Len(part[p - 1]) + k
  <2>1. i \in 1..Len(FlattenSeq(seqs))  BY <1>3, <1>5
  <2>2. FoundIn(seqs, part, i)  BY <1>4, <2>1, FlattenHasOnly
  <2>3. QED  BY <1>2, <2>2 DEF FoundIn
<1>8. ASSUME NEW p \in 1..n, NEW q \in 1..n, p < q
      PROVE  Len(part[p]) \in Nat /\ Len(part[q - 1]) \in Nat /\ Len(part[p]) <= Len(part[q - 1])
  <2>1. p \in 0..Len(seqs) /\ q - 1 \in p..Len(seqs)  BY <1>2, <1>8
  <2>2. QED  BY <1>4, <2>1, PartsGrow
<1>9. ASSUME NEW f \in D  PROVE \E i \in DOMAIN woven : woven[i] = f
  <2>1. Position(tags, f) \in 0..length
    <3>1. f[2] \in DOMAIN tags  BY DEF D, Events
    <3>2. QED  BY <3>1, EndsAre DEF Position
  <2>2. PICK p \in 1..n : p - 1 = Position(tags, f)
    <3>1. Position(tags, f) + 1 \in 1..n /\ (Position(tags, f) + 1) - 1 = Position(tags, f)
      BY <1>1, <2>1 DEF Positioned
    <3>2. QED  BY <3>1
  <2>3. PICK k \in DOMAIN seqs[p] : seqs[p][k] = f  BY <1>2, <2>2 DEF AllOf, D
  <2>4. k \in 1..Len(seqs[p])  BY <1>6
  <2>5. Len(part[p - 1]) + k \in 1..Len(woven)
    <3>1. /\ Len(part[p - 1]) \in Nat /\ Len(part[p - 1]) + Len(seqs[p]) <= Len(woven)
          /\ Len(seqs[p]) \in Nat
      BY <1>6
    <3>2. Len(woven) \in Nat  BY <1>3
    <3>3. PICK base \in Nat, size \in Nat : base = Len(part[p - 1]) /\ size = Len(seqs[p])  BY <3>1
    <3>4. k \in 1..size /\ base + size <= Len(woven)  BY <2>4, <3>1, <3>3
    <3>5. PICK all \in Nat : all = Len(woven)  BY <3>2
    <3>6. base + k \in 1..all  BY <3>4, <3>5
    <3>7. QED  BY <3>3, <3>5, <3>6
  <2>6. woven[Len(part[p - 1]) + k] = f  BY <1>6, <2>3, <2>4
  <2>7. QED  BY <1>3, <2>5, <2>6
<1>10. ASSUME NEW i \in DOMAIN woven, NEW j \in DOMAIN woven, i < j
       PROVE  Precedes(tags, woven[i], woven[j])
  <2>1. PICK p \in 1..n : \E k \in 1..Len(seqs[p]) : i = Len(part[p - 1]) + k  BY <1>7
  <2>2. PICK k \in 1..Len(seqs[p]) : i = Len(part[p - 1]) + k  BY <2>1
  <2>3. PICK q \in 1..n : \E l \in 1..Len(seqs[q]) : j = Len(part[q - 1]) + l  BY <1>7
  <2>4. PICK l \in 1..Len(seqs[q]) : j = Len(part[q - 1]) + l  BY <2>3
  <2>0. /\ Len(part[p - 1]) \in Nat /\ Len(part[p]) = Len(part[p - 1]) + Len(seqs[p])
        /\ Len(part[q - 1]) \in Nat /\ Len(part[q]) = Len(part[q - 1]) + Len(seqs[q])
        /\ Len(seqs[p]) \in Nat /\ Len(seqs[q]) \in Nat
    BY <1>6
  <2>5. /\ woven[i] = seqs[p][k] /\ woven[j] = seqs[q][l]
        /\ k \in DOMAIN seqs[p] /\ l \in DOMAIN seqs[q]
    BY <1>6, <2>2, <2>4
  <2>6. CASE p < q
    <3>1. Position(tags, woven[i]) = p - 1 /\ Position(tags, woven[j]) = q - 1
      BY <1>2, <2>5 DEF AllOf
    <3>2. QED  BY <2>6, <3>1 DEF Precedes
  <2>7. CASE q < p
    <3>1. j <= Len(part[q])  BY <2>0, <2>4
    <3>2. i > Len(part[p - 1])  BY <2>0, <2>2
    <3>3. i \in Nat /\ j \in Nat  BY <1>3
    <3>4. QED  BY <1>8, <1>10, <2>7, <3>1, <3>2, <3>3
  <2>8. CASE p = q
    <3>1. k < l  BY <2>0, <1>10, <2>2, <2>4, <2>8
    <3>2. QED  BY <1>2, <2>5, <2>8, <3>1 DEF Sorted
  <2>9. QED  BY <2>6, <2>7, <2>8
<1>11. QED  BY <1>3, <1>9, <1>10 DEF D, Sorted

\* In a sorted list an event is before another one if it precedes it.
LEMMA SortedIs ==
  ASSUME NEW length, NEW tags, Positioned(tags, length),
         NEW woven \in Seq(Events(tags)), Sorted(tags, woven),
         NEW i \in DOMAIN woven, NEW k \in DOMAIN woven
  PROVE  i < k <=> Precedes(tags, woven[i], woven[k])
<1>1. i \in Nat /\ k \in Nat /\ woven[i] \in Events(tags) /\ woven[k] \in Events(tags)  OBVIOUS
<1>2. i < k => Precedes(tags, woven[i], woven[k])  BY DEF Sorted
<1>3. k < i => Precedes(tags, woven[k], woven[i])  BY DEF Sorted
<1>4. i = k => ~Precedes(tags, woven[i], woven[k])  BY <1>1, PrecedesIs
<1>5. ASSUME k < i  PROVE ~Precedes(tags, woven[i], woven[k])
  BY <1>1, <1>3, <1>5, PrecedesIs
<1>6. QED  BY <1>1, <1>2, <1>4, <1>5

LEMMA SortedNests ==
  ASSUME NEW length, NEW tags, Positioned(tags, length),
         NEW woven \in Seq(Events(tags)), Sorted(tags, woven),
         \A f \in Events(tags) : \E i \in DOMAIN woven : woven[i] = f,
         \A x, y \in DOMAIN tags : ~Crossing(tags[x], tags[y]),
         \A x \in DOMAIN tags : tags[x].start < tags[x].end
  PROVE  Nested(woven, tags)
<1>1. \A i, k \in DOMAIN woven : i < k <=> Precedes(tags, woven[i], woven[k])  BY SortedIs
<1>2. \A i, k \in DOMAIN woven : woven[i] = woven[k] => i = k
  <2> SUFFICES ASSUME NEW i \in DOMAIN woven, NEW k \in DOMAIN woven, woven[i] = woven[k], i < k
               PROVE  FALSE
    <3>1. \A i, k \in DOMAIN woven : i # k => i < k \/ k < i  OBVIOUS
    <3>2. QED  BY <3>1
  <2>1. Precedes(tags, woven[i], woven[i])  BY <1>1
  <2>2. woven[i] \in Events(tags)  OBVIOUS
  <2>3. QED  BY <2>1, <2>2, PrecedesIs
<1> DEFINE At(kind, x) == {k \in DOMAIN woven : woven[k] = <<kind, x>>}
<1>3. ASSUME NEW kind \in {"open", "close"}, NEW x \in DOMAIN tags
      PROVE  \E k \in DOMAIN woven : At(kind, x) = {k} /\ woven[k] = <<kind, x>>
  <2>1. <<kind, x>> \in Events(tags)  BY DEF Events
  <2>2. PICK k \in DOMAIN woven : woven[k] = <<kind, x>>  BY <2>1
  <2>3. At(kind, x) = {k}  BY <1>2, <2>2
  <2>4. QED  BY <2>2, <2>3
<1>4. ASSUME NEW x \in DOMAIN tags
      PROVE  \E o, c \in DOMAIN woven : o < c /\ At("open", x) = {o} /\ At("close", x) = {c}
  <2>1. PICK o \in DOMAIN woven : At("open", x) = {o} /\ woven[o] = <<"open", x>>  BY <1>3
  <2>2. PICK c \in DOMAIN woven : At("close", x) = {c} /\ woven[c] = <<"close", x>>  BY <1>3
  <2>3. Precedes(tags, <<"open", x>>, <<"close", x>>)
    <3>1. tags[x].start < tags[x].end  OBVIOUS
    <3>2. QED  BY <3>1 DEF Precedes, Position
  <2>4. o < c  BY <1>1, <2>1, <2>2, <2>3
  <2>5. QED  BY <2>1, <2>2, <2>4
<1>5. ASSUME NEW x \in DOMAIN tags, NEW y \in DOMAIN tags,
             NEW o \in At("open", x), NEW c \in At("close", x), NEW p \in At("open", y),
             o < p, p < c, NEW d \in At("close", y)
      PROVE  d < c
  <2>1. /\ o \in DOMAIN woven /\ woven[o] = <<"open", x>>
        /\ c \in DOMAIN woven /\ woven[c] = <<"close", x>>
        /\ p \in DOMAIN woven /\ woven[p] = <<"open", y>>
        /\ d \in DOMAIN woven /\ woven[d] = <<"close", y>>
    OBVIOUS
  <2>2. /\ tags[x].start \in Nat /\ tags[x].end \in Nat /\ x \in Nat
        /\ tags[y].start \in Nat /\ tags[y].end \in Nat /\ y \in Nat
    BY EndsAre
  <2>3. Precedes(tags, <<"open", x>>, <<"open", y>>)  BY <1>1, <1>5, <2>1
  <2>4. Precedes(tags, <<"open", y>>, <<"close", x>>)  BY <1>1, <1>5, <2>1
  <2> HIDE DEF At
  <2>5. \/ tags[x].start < tags[y].start
        \/ tags[x].start = tags[y].start /\ OpensFirst(tags, x, y)
    BY <2>3 DEF Precedes, Position, SamePlace
  <2>6. tags[y].start < tags[x].end
    BY <2>4 DEF Precedes, Position, SamePlace
  <2>7. ~Crossing(tags[x], tags[y])  OBVIOUS
  <2>8. \/ tags[y].end < tags[x].end
        \/ tags[y].end = tags[x].end /\ ClosesFirst(tags, y, x)
    BY <2>2, <2>5, <2>6, <2>7 DEF Crossing, OpensFirst, ClosesFirst
  <2>9. Precedes(tags, <<"close", y>>, <<"close", x>>)
    BY <2>8 DEF Precedes, Position, SamePlace
  <2>10. QED  BY <1>1, <2>1, <2>9
<1>6. QED  BY <1>4, <1>5 DEF Nested

-----------------------------------------------------------------------------
(* The tags of a job lie inside its text.                                      *)
LEMMA ClampIn ==
  ASSUME NEW j, j.length \in Nat, NEW x, x.start \in Int, x.end \in Int
  PROVE  Clamp(j, x) \in Places(j.length)
<1> DEFINE Between(least, n) == IF n > j.length THEN j.length ELSE IF n < least THEN least ELSE n
           s == Between(0, x.start)
<1>1. s \in 0..j.length  OBVIOUS
<1>2. Clamp(j, x) = [start |-> s, end |-> Between(s, x.end)]  BY DEF Clamp
<1> HIDE DEF s
<1>3. Between(s, x.end) \in 0..j.length  BY <1>1
<1>4. QED  BY <1>1, <1>2, <1>3 DEF Places

Spanned == [start : Int, end : Int]

LEMMA SpansIn ==
  ASSUME NEW D, NEW xs \in Seq(D), \A x \in D : x.start \in Int /\ x.end \in Int
  PROVE  Spans(xs) \in Seq(Spanned)
<1>1. \A i \in DOMAIN xs : [start |-> xs[i].start, end |-> xs[i].end] \in Spanned
  <2> SUFFICES ASSUME NEW i \in DOMAIN xs
               PROVE  [start |-> xs[i].start, end |-> xs[i].end] \in Spanned
    OBVIOUS
  <2>1. PICK x \in D : x = xs[i]  OBVIOUS
  <2>2. QED  BY <2>1 DEF Spanned
<1>2. QED  BY <1>1 DEF Spans

LEMMA TagsIn ==
  ASSUME NEW j \in FinishedJobs, NEW dismissed
  PROVE  Positioned(Tags(Copy(j, dismissed)), j.length) /\ Copy(j, dismissed).length = j.length
<1> DEFINE e == Copy(j, dismissed)
           tagged == {a \in e.shown : e.annotations[a].concepts # <<>>}
           picked == Picked(e.annotations, tagged)
           spans == Spans(picked) \o Spans(e.individuals) \o Spans(e.properties)
<1>1. /\ e.annotations = j.annotations /\ e.shown = Shown(j, dismissed)
      /\ e.individuals = j.individuals /\ e.properties = j.properties /\ e.length = j.length
  BY DEF Copy
<1>2. Tags(e) = [i \in DOMAIN spans |-> Clamp(e, spans[i])]  BY DEF Tags
<1> HIDE DEF e
<1>3. /\ j.annotations \in Seq(Annotations) /\ j.individuals \in Seq(Individuals)
      /\ j.properties \in Seq(Properties) /\ j.length \in Nat
  BY DEF FinishedJobs
<1>4. picked \in Seq(Annotations)
  <2>1. tagged \in SUBSET (DOMAIN j.annotations)  BY <1>1 DEF Shown
  <2> HIDE DEF tagged
  <2>2. QED  BY <1>1, <1>3, <2>1, PickedIn
<1> HIDE DEF picked
<1>5. /\ Spans(picked) \in Seq(Spanned) /\ Spans(e.individuals) \in Seq(Spanned)
      /\ Spans(e.properties) \in Seq(Spanned)
  <2>1. \A x \in Annotations : x.start \in Int /\ x.end \in Int  BY DEF Annotations
  <2>2. \A x \in Individuals : x.start \in Int /\ x.end \in Int  BY DEF Individuals
  <2>3. \A x \in Properties : x.start \in Int /\ x.end \in Int  BY DEF Properties
  <2>4. QED  BY <1>1, <1>3, <1>4, <2>1, <2>2, <2>3, SpansIn
<1>6. spans \in Seq(Spanned)  BY <1>5
<1> HIDE DEF spans
<1>7. \A i \in DOMAIN spans : Clamp(e, spans[i]) \in Places(j.length)
  <2> SUFFICES ASSUME NEW i \in DOMAIN spans  PROVE Clamp(e, spans[i]) \in Places(j.length)
    OBVIOUS
  <2>1. PICK x \in Spanned : x = spans[i]  BY <1>6
  <2>2. x.start \in Int /\ x.end \in Int  BY DEF Spanned
  <2>3. QED  BY <1>1, <1>3, <2>1, <2>2, ClampIn
<1>8. Tags(e) \in Seq(Places(j.length))  BY <1>2, <1>6, <1>7
<1>9. QED  BY <1>1, <1>3, <1>8 DEF Positioned, e

LEMMA InvTagsNest == ExportInv => TagsNest
<1> SUFFICES ASSUME ExportInv, NEW tags, tags = Tags(Exported),
                    \A x, y \in DOMAIN tags : ~Crossing(tags[x], tags[y]),
                    \A x \in DOMAIN tags : tags[x].start < tags[x].end
             PROVE  Nested(Woven(Exported), tags)
  BY DEF TagsNest
<1>1. job \in FinishedJobs  BY DEF ExportInv
<1>2. Positioned(tags, job.length) /\ Exported.length = job.length
  BY <1>1, TagsIn DEF Exported
<1>3. PICK woven : woven = FlattenSeq(WovenIn(tags, job.length))  OBVIOUS
<1>4. Woven(Exported) = woven  BY <1>2, <1>3 DEF Woven, WovenIn
<1>5. /\ woven \in Seq(Events(tags)) /\ Sorted(tags, woven)
      /\ \A f \in Events(tags) : \E i \in DOMAIN woven : woven[i] = f
  BY <1>2, <1>3, WovenIsSorted
<1>6. Nested(woven, tags)  BY <1>2, <1>5, SortedNests
<1>7. QED  BY <1>4, <1>6

(* The tags of a page nest, for any number of annotations, individuals and     *)
(* properties, wherever they start and end.                                    *)
THEOREM PagesNest == ExportSpec => []TagsNest
BY ExportInvariant, InvTagsNest, PTL
=============================================================================
