----------------------------- MODULE ListProofs -----------------------------
(* Facts about lists that the proofs of several components need: induction     *)
(* over numbers, the greatest of a set, folds, orders, what is picked from a   *)
(* list and what a list of lists is joined to.                                 *)
EXTENDS Orders, SequencesExt, WellFoundedInduction, SequenceTheorems, FiniteSetTheorems, TLAPS

-----------------------------------------------------------------------------
(* Folds.  Induction over the numbers up to n, as a fact about a set of them. *)
LEMMA UpTo ==
  ASSUME NEW n \in Nat, NEW S, 0 \in S, \A k \in 0..(n - 1) : k \in S => k + 1 \in S
  PROVE  0..n \subseteq S
<1> DEFINE T == {k \in 0..n : k \notin S}
<1> SUFFICES ASSUME T # {}  PROVE FALSE  OBVIOUS
<1>1. PICK x \in T : \A y \in T : ~(<<y, x>> \in OpToRel(<, Nat))
  <2>1. T \subseteq Nat  OBVIOUS
  <2>2. QED  BY <2>1, NatLessThanWellFounded, WFMin
<1>2. x \in 0..n /\ x \notin S  BY <1>1
<1> HIDE DEF T
<1>3. x # 0  BY <1>2
<1>4. x \in Nat /\ x - 1 \in 0..(n - 1) /\ (x - 1) + 1 = x  BY <1>2, <1>3
<1>5. PICK y \in Nat : y = x - 1  BY <1>4
<1>6. y < x /\ y \in 0..n  BY <1>4, <1>5
<1>7. <<y, x>> \in OpToRel(<, Nat) <=> y < x
  BY <1>4, Zenon DEF OpToRel
<1>8. y \notin T  BY <1>1, <1>6, <1>7
<1>9. y \in S  BY <1>6, <1>8 DEF T
<1>10. QED  BY <1>2, <1>4, <1>5, <1>9

(* The greatest of numbers up to n is one of them.                            *)
LEMMA MaxIs ==
  ASSUME NEW n \in Nat, NEW s \in SUBSET (0..n), s # {}
  PROVE  Max(s) \in s /\ \A y \in s : y <= Max(s)
<1> DEFINE S == {k \in Nat : \A t \in SUBSET (0..k) : t # {} => \E m \in t : \A y \in t : m >= y}
<1>1. 0 \in S
  <2>1. ASSUME NEW t \in SUBSET (0..0), t # {}  PROVE \E m \in t : \A y \in t : m >= y
    <3>1. PICK x \in t : TRUE  BY <2>1
    <3>2. x = 0 /\ \A y \in t : y = 0  OBVIOUS
    <3>3. QED  BY <3>1, <3>2
  <2>2. QED  BY <2>1
<1>2. ASSUME NEW k \in Nat, k \in S  PROVE k + 1 \in S
  <2> SUFFICES ASSUME NEW t \in SUBSET (0..(k + 1)), t # {}
               PROVE  \E m \in t : \A y \in t : m >= y
    <3>1. k + 1 \in Nat  OBVIOUS
    <3>2. QED  BY <3>1
  <2>1. CASE k + 1 \in t
    <3>1. \A y \in t : k + 1 >= y  OBVIOUS
    <3>2. QED  BY <2>1, <3>1
  <2>2. CASE k + 1 \notin t
    <3>1. t \in SUBSET (0..k)  BY <2>2
    <3>2. QED  BY <1>2, <3>1
  <2>3. QED  BY <2>1, <2>2
<1>3. n \in S
  <2> HIDE DEF S
  <2>1. \A k \in 0..(n - 1) : k \in S => k + 1 \in S  BY <1>2
  <2>2. 0..n \subseteq S  BY <1>1, <2>1, UpTo
  <2>3. QED  BY <2>2
<1>4. \E m \in s : \A y \in s : m >= y  BY <1>3
<1>5. QED  BY <1>4 DEF Max

(* So is the greatest of any finite set of numbers.                           *)
LEMMA GreatestIs ==
  ASSUME NEW set \in SUBSET Nat, IsFiniteSet(set), set # {}
  PROVE  Max(set) \in set /\ \A y \in set : y <= Max(set)
<1>1. PICK list \in Seq(set) : \A s \in set : \E k \in 1..Len(list) : list[k] = s
  BY DEF IsFiniteSet
<1>2. PICK n \in Nat : n = Len(list)  OBVIOUS
<1>3. \A k \in 1..n : list[k] \in Nat
  <2>1. DOMAIN list = 1..n  BY <1>2
  <2>2. \A k \in DOMAIN list : list[k] \in set  OBVIOUS
  <2>3. QED  BY <2>1, <2>2
<1> DEFINE S == {k \in 0..n : \E top \in Nat : \A i \in 1..k : list[i] <= top}
<1>4. 0 \in S  OBVIOUS
<1>5. ASSUME NEW k \in 0..(n - 1), k \in S  PROVE k + 1 \in S
  <2>1. PICK top \in Nat : \A i \in 1..k : list[i] <= top  BY <1>5
  <2>2. k + 1 \in 1..n /\ \A i \in 1..(k + 1) : i \in 1..k \/ i = k + 1  OBVIOUS
  <2>3. list[k + 1] \in Nat /\ \A i \in 1..k : list[i] \in Nat  BY <1>3, <2>2
  <2>4. PICK more \in Nat : more = top + list[k + 1]  BY <2>1, <2>3
  <2>5. \A i \in 1..(k + 1) : list[i] <= more  BY <2>1, <2>2, <2>3, <2>4
  <2>6. QED  BY <2>2, <2>5
<1>6. n \in S
  <2> HIDE DEF S
  <2>1. 0..n \subseteq S  BY <1>4, <1>5, UpTo
  <2>2. QED  BY <2>1
<1>7. PICK top \in Nat : \A i \in 1..n : list[i] <= top  BY <1>6
<1>8. set \in SUBSET (0..top)
  <2> SUFFICES ASSUME NEW s \in set  PROVE s \in 0..top  OBVIOUS
  <2>1. PICK k \in 1..n : list[k] = s  BY <1>1, <1>2
  <2>2. QED  BY <1>3, <1>7, <2>1
<1>9. QED  BY <1>8, MaxIs

LEMMA ImageFinite ==
  ASSUME NEW S, IsFiniteSet(S), NEW f, DOMAIN f = S, f = [x \in S |-> f[x]]
  PROVE  IsFiniteSet({f[x] : x \in S})
<1>1. f \in Surjection(S, {f[x] : x \in S})  BY DEF Surjection
<1>2. QED  BY <1>1, FS_Surjection

LEMMA MaxUpTo ==
  ASSUME NEW n \in Nat, NEW k \in 1..n
  PROVE  /\ Max(1..k) = k /\ (1..k) \ {k} = 1..(k - 1)
         /\ 1..k \in SUBSET (1..n) /\ 1..(k - 1) \in SUBSET (1..n) /\ 1..k # {}
<1>1. 1..k \in SUBSET (0..n) /\ k \in 1..k  OBVIOUS
<1>2. Max(1..k) \in 1..k /\ k <= Max(1..k)  BY <1>1, MaxIs
<1>3. QED  BY <1>2

(* A fold whose steps stay in D is defined: it is the function g that         *)
(* MapThenFoldSet chooses; and its values are f, one element after the other. *)
Folds(n, D, base, step, g) ==
  /\ g \in [SUBSET (1..n) -> D]
  /\ \A s \in SUBSET (1..n) :
       g[s] = IF s = {} THEN base ELSE step[Max(s)][g[s \ {Max(s)}]]

Values(n, D, base, step, f, result) ==
  /\ f \in [0..n -> D] /\ f[0] = base /\ f[n] = result
  /\ \A k \in 1..n : f[k] = step[k][f[k - 1]]

LEMMA FoldExists ==
  ASSUME NEW n \in Nat, NEW D, NEW base \in D, NEW step \in [1..n -> [D -> D]]
  PROVE  \E g : Folds(n, D, base, step, g)
<1> DEFINE S == {k \in 0..n : \E g : Folds(k, D, base, step, g)}
<1>1. 0 \in S
  <2> DEFINE g == [s \in SUBSET (1..0) |-> base]
  <2>1. Folds(0, D, base, step, g)  BY DEF Folds
  <2> HIDE DEF g
  <2>2. QED  BY <2>1
<1>2. ASSUME NEW k \in 0..(n - 1), k \in S  PROVE k + 1 \in S
  <2>1. PICK g : Folds(k, D, base, step, g)  BY <1>2
  <2> DEFINE h == [s \in SUBSET (1..(k + 1)) |->
                     IF k + 1 \in s THEN step[k + 1][g[s \ {k + 1}]] ELSE g[s]]
  <2>2. \A s \in SUBSET (1..(k + 1)) :
          /\ s \ {k + 1} \in SUBSET (1..k)
          /\ k + 1 \notin s => s \in SUBSET (1..k)
    OBVIOUS
  <2>3. step[k + 1] \in [D -> D]  OBVIOUS
  <2>4. h \in [SUBSET (1..(k + 1)) -> D]
    <3>1. ASSUME NEW s \in SUBSET (1..(k + 1))
          PROVE  (IF k + 1 \in s THEN step[k + 1][g[s \ {k + 1}]] ELSE g[s]) \in D
      <4>1. g[s \ {k + 1}] \in D  BY <2>1, <2>2 DEF Folds
      <4>2. k + 1 \notin s => g[s] \in D  BY <2>1, <2>2 DEF Folds
      <4>3. QED  BY <2>3, <4>1, <4>2
    <3>2. QED  BY <3>1
  <2>5. ASSUME NEW s \in SUBSET (1..(k + 1))
        PROVE  h[s] = IF s = {} THEN base ELSE step[Max(s)][h[s \ {Max(s)}]]
    <3>1. CASE k + 1 \in s
      <4>1. s \in SUBSET (0..(k + 1)) /\ k + 1 \in Nat  OBVIOUS
      <4>2. Max(s) \in s /\ k + 1 <= Max(s)  BY <3>1, <4>1, MaxIs
      <4>3. Max(s) = k + 1
        <5>1. PICK m \in s : m = Max(s)  BY <4>2
        <5>2. m \in 0..(k + 1) /\ k + 1 <= m  BY <4>1, <4>2, <5>1
        <5>3. QED  BY <5>1, <5>2
      <4>4. h[s] = step[k + 1][g[s \ {k + 1}]]  BY <3>1
      <4>5. h[s \ {k + 1}] = g[s \ {k + 1}]  OBVIOUS
      <4>6. QED  BY <3>1, <4>3, <4>4, <4>5
    <3>2. CASE k + 1 \notin s
      <4>1. s \in SUBSET (1..k)  BY <2>2, <3>2
      <4>2. h[s] = g[s] /\ h[s \ {Max(s)}] = g[s \ {Max(s)}]  BY <3>2
      <4>3. QED  BY <2>1, <4>1, <4>2 DEF Folds
    <3>3. QED  BY <3>1, <3>2
  <2>6. k + 1 \in 0..n  OBVIOUS
  <2> HIDE DEF h
  <2>7. Folds(k + 1, D, base, step, h)  BY <2>4, <2>5 DEF Folds
  <2>8. QED  BY <2>6, <2>7
<1>3. n \in S
  <2> HIDE DEF S
  <2>1. 0..n \subseteq S  BY <1>1, <1>2, UpTo
  <2>2. QED  BY <2>1
<1>4. QED  BY <1>3

LEMMA FoldValues ==
  ASSUME NEW n \in Nat, NEW D, NEW base \in D, NEW step \in [1..n -> [D -> D]], NEW g,
         g[{}] = base,
         \A s \in SUBSET (1..n) : s # {} /\ g[s \ {Max(s)}] \in D
           => g[s] = step[Max(s)][g[s \ {Max(s)}]]
  PROVE  \E f : Values(n, D, base, step, f, g[1..n])
<1> DEFINE F == [k \in 0..n |-> g[1..k]]
           S == {k \in 0..n : g[1..k] \in D}
<1>1. ASSUME NEW k \in 1..n, g[1..(k - 1)] \in D
      PROVE  g[1..k] = step[k][g[1..(k - 1)]] /\ g[1..k] \in D
  <2>1. g[1..k] = step[k][g[1..(k - 1)]]
    <3>1. PICK s : s = 1..k  OBVIOUS
    <3>2. s \in SUBSET (1..n) /\ s # {} /\ Max(s) = k /\ s \ {k} = 1..(k - 1)
      BY <3>1, MaxUpTo
    <3>3. QED  BY <1>1, <3>1, <3>2
  <2>2. step[k] \in [D -> D]  OBVIOUS
  <2>3. QED  BY <1>1, <2>1, <2>2
<1>2. 1..0 = {}  OBVIOUS
<1>3. 0 \in S  BY <1>2
<1>4. ASSUME NEW k \in 0..(n - 1), k \in S  PROVE k + 1 \in S
  <2>1. k + 1 \in 1..n /\ (k + 1) - 1 = k  OBVIOUS
  <2>2. QED  BY <1>1, <1>4, <2>1
<1>5. 0..n \subseteq S
  <2> HIDE DEF S
  <2>1. QED  BY <1>3, <1>4, UpTo
<1>6. F \in [0..n -> D]  BY <1>5
<1>7. \A k \in 1..n : F[k] = step[k][F[k - 1]]
  <2> TAKE k \in 1..n
  <2>1. k \in 0..n /\ k - 1 \in 0..n  OBVIOUS
  <2>2. F[k] = g[1..k] /\ F[k - 1] = g[1..(k - 1)]  BY <2>1
  <2>3. g[1..(k - 1)] \in D  BY <1>5, <2>1
  <2>4. QED  BY <1>1, <2>2, <2>3
<1>8. F[0] = base /\ F[n] = g[1..n]  BY <1>2
<1> HIDE DEF F
<1>9. Values(n, D, base, step, F, g[1..n])  BY <1>6, <1>7, <1>8 DEF Values
<1>10. QED  BY <1>9

-----------------------------------------------------------------------------
(* Orders.  In a finite set that R orders, every place is taken.              *)
Below(S, R, x) == {y \in S : <<y, x>> \in R}

LEMMA Ranks ==
  ASSUME NEW S, IsFiniteSet(S), NEW R,
         \A x \in S : <<x, x>> \notin R,
         \A x, y \in S : x # y => <<x, y>> \in R \/ <<y, x>> \in R,
         \A x, y, z \in S : <<x, y>> \in R /\ <<y, z>> \in R => <<x, z>> \in R,
         NEW n \in 1..Cardinality(S)
  PROVE  \E x \in S : Cardinality(Below(S, R, x)) = n - 1
<1> DEFINE place == [x \in S |-> Cardinality(Below(S, R, x)) + 1]
<1>1. PICK size \in Nat : size = Cardinality(S)  BY FS_CardinalityType
<1>2. ASSUME NEW x \in S
      PROVE  /\ IsFiniteSet(Below(S, R, x)) /\ Cardinality(Below(S, R, x)) \in Nat
             /\ Cardinality(Below(S, R, x)) < size
  <2>1. Below(S, R, x) \in SUBSET (S \ {x})  BY DEF Below
  <2>2. IsFiniteSet(S \ {x}) /\ Cardinality(S \ {x}) = size - 1  BY <1>1, FS_RemoveElement
  <2>3. IsFiniteSet(Below(S, R, x)) /\ Cardinality(Below(S, R, x)) <= size - 1
    BY <2>1, <2>2, FS_Subset
  <2>4. Cardinality(Below(S, R, x)) \in Nat  BY <2>3, FS_CardinalityType
  <2>5. QED  BY <1>1, <2>3, <2>4
<1>3. ASSUME NEW x \in S, NEW y \in S, <<x, y>> \in R
      PROVE  Cardinality(Below(S, R, x)) # Cardinality(Below(S, R, y))
  <2>1. Below(S, R, x) \in SUBSET Below(S, R, y)  BY <1>3 DEF Below
  <2>2. x \in Below(S, R, y) /\ x \notin Below(S, R, x)  BY <1>3 DEF Below
  <2>3. QED  BY <1>2, <2>1, <2>2, FS_Subset
<1>4. place \in [S -> 1..size]  BY <1>1, <1>2
<1>5. \A x, y \in S : place[x] = place[y] => x = y
  <2> SUFFICES ASSUME NEW x \in S, NEW y \in S, x # y  PROVE place[x] # place[y]  OBVIOUS
  <2>1. Cardinality(Below(S, R, x)) # Cardinality(Below(S, R, y))  BY <1>3
  <2>2. Cardinality(Below(S, R, x)) \in Nat /\ Cardinality(Below(S, R, y)) \in Nat  BY <1>2
  <2>3. QED  BY <2>1, <2>2
<1>6. IsFiniteSet(1..size) /\ Cardinality(1..size) = size  BY <1>1, FS_Interval
<1>7. place \in Injection(S, 1..size)  BY <1>4, <1>5 DEF Injection, IsInjective
<1>8. place \in Surjection(S, 1..size)  BY <1>1, <1>6, <1>7, FS_Injection
<1>9. PICK x \in S : place[x] = n  BY <1>1, <1>8 DEF Surjection
<1>10. QED  BY <1>2, <1>9

Orders(R, S) ==
  /\ \A x \in S : <<x, x>> \notin R
  /\ \A x, y \in S : x # y => <<x, y>> \in R \/ <<y, x>> \in R
  /\ \A x, y, z \in S : <<x, y>> \in R /\ <<y, z>> \in R => <<x, z>> \in R

LEMMA RankedIs ==
  ASSUME NEW S, IsFiniteSet(S), NEW R, Orders(R, S)
  PROVE  /\ Ranked(S, R) \in Seq(S) /\ Len(Ranked(S, R)) = Cardinality(S)
         /\ \A n \in DOMAIN Ranked(S, R) : Cardinality(Below(S, R, Ranked(S, R)[n])) = n - 1
         /\ \A i, j \in DOMAIN Ranked(S, R) : Ranked(S, R)[i] = Ranked(S, R)[j] => i = j
<1>1. PICK size \in Nat : size = Cardinality(S)  BY FS_CardinalityType
<1>2. PICK list : list = Ranked(S, R)  OBVIOUS
<1>3. list = [n \in 1..size |-> CHOOSE x \in S : Cardinality(Below(S, R, x)) = n - 1]
  BY <1>1, <1>2 DEF Ranked, Below
<1>4. ASSUME NEW n \in 1..size  PROVE \E x \in S : Cardinality(Below(S, R, x)) = n - 1
  BY <1>1, Ranks DEF Orders
<1>5. \A n \in 1..size : list[n] \in S /\ Cardinality(Below(S, R, list[n])) = n - 1
  BY <1>3, <1>4
<1>6. list \in [1..size -> S]  BY <1>3, <1>5
<1>7. list \in Seq(S) /\ Len(list) = size  BY <1>6, SeqDef
<1>8. ASSUME NEW i \in DOMAIN list, NEW j \in DOMAIN list, list[i] = list[j]  PROVE i = j
  <2>1. i \in 1..size /\ j \in 1..size  BY <1>6
  <2>2. i - 1 = j - 1  BY <1>5, <1>8, <2>1
  <2>3. QED  BY <2>1, <2>2
<1>9. \A n \in DOMAIN list : Cardinality(Below(S, R, list[n])) = n - 1  BY <1>5, <1>6
<1>10. QED  BY <1>1, <1>2, <1>7, <1>8, <1>9

(* The list made from a set is in its order and has all of it.                 *)
LEMMA RanksRise ==
  ASSUME NEW S, IsFiniteSet(S), NEW R, Orders(R, S), NEW x \in S, NEW y \in S, <<x, y>> \in R
  PROVE  /\ Cardinality(Below(S, R, x)) \in Nat /\ Cardinality(Below(S, R, y)) \in Nat
         /\ Cardinality(Below(S, R, x)) < Cardinality(Below(S, R, y))
<1>1. Below(S, R, x) \subseteq S /\ Below(S, R, y) \subseteq S  BY DEF Below
<1>2. /\ IsFiniteSet(Below(S, R, x)) /\ Cardinality(Below(S, R, x)) \in Nat
      /\ IsFiniteSet(Below(S, R, y)) /\ Cardinality(Below(S, R, y)) \in Nat
  BY <1>1, FS_Subset, FS_CardinalityType
<1>3. Below(S, R, x) \subseteq Below(S, R, y)  BY DEF Below, Orders
<1>4. x \in Below(S, R, y) /\ x \notin Below(S, R, x)  BY DEF Below, Orders
<1>5. Cardinality(Below(S, R, x)) <= Cardinality(Below(S, R, y))
        /\ Cardinality(Below(S, R, x)) # Cardinality(Below(S, R, y))
  BY <1>2, <1>3, <1>4, FS_Subset
<1>6. QED  BY <1>2, <1>5

LEMMA RankedInOrder ==
  ASSUME NEW S, IsFiniteSet(S), NEW R, Orders(R, S)
  PROVE  /\ \A i, j \in DOMAIN Ranked(S, R) : i < j => <<Ranked(S, R)[i], Ranked(S, R)[j]>> \in R
         /\ \A x \in S : \E i \in DOMAIN Ranked(S, R) : Ranked(S, R)[i] = x
<1> DEFINE list == Ranked(S, R)
           Rank(x) == Cardinality(Below(S, R, x))
<1>1. /\ list \in Seq(S) /\ Len(list) = Cardinality(S)
      /\ \A n \in DOMAIN list : Rank(list[n]) = n - 1
      /\ \A i, j \in DOMAIN list : list[i] = list[j] => i = j
  BY RankedIs
<1>2. \A x, y \in S : <<x, y>> \in R => Rank(x) \in Nat /\ Rank(y) \in Nat /\ Rank(x) < Rank(y)
  BY RanksRise
<1> HIDE DEF list, Rank
<1>3. ASSUME NEW i \in DOMAIN list, NEW j \in DOMAIN list, i < j
      PROVE  <<list[i], list[j]>> \in R
  <2>1. list[i] \in S /\ list[j] \in S /\ list[i] # list[j] /\ i \in Nat /\ j \in Nat
    BY <1>1, <1>3
  <2>2. CASE <<list[j], list[i]>> \in R
    <3>1. Rank(list[j]) < Rank(list[i])  BY <1>2, <2>1, <2>2
    <3>2. QED  BY <1>1, <1>3, <2>1, <3>1
  <2>3. QED  BY <2>1, <2>2 DEF Orders
<1>4. ASSUME NEW x \in S  PROVE \E i \in DOMAIN list : list[i] = x
  <2>1. Rank(x) \in Nat /\ Rank(x) < Cardinality(S) /\ Cardinality(S) \in Nat
    <3>1. Below(S, R, x) \subseteq S /\ x \notin Below(S, R, x)  BY DEF Below, Orders
    <3>2. QED  BY <3>1, FS_Subset, FS_CardinalityType DEF Rank
  <2>2. PICK n \in DOMAIN list : n = Rank(x) + 1  BY <1>1, <2>1
  <2>3. Rank(list[n]) = Rank(x) /\ list[n] \in S  BY <1>1, <2>1, <2>2
  <2>4. CASE list[n] # x
    <3>1. <<list[n], x>> \in R \/ <<x, list[n]>> \in R  BY <2>3, <2>4 DEF Orders
    <3>2. QED  BY <1>2, <2>1, <2>3, <3>1
  <2>5. QED  BY <2>4
<1>5. QED  BY <1>3, <1>4 DEF list

(* What is picked from a list are elements of it, each place once; all of it  *)
(* is the list, and a part with its first element begins with that.           *)
LEMMA PickedIs ==
  ASSUME NEW D, NEW list \in Seq(D), NEW places \in SUBSET (DOMAIN list)
  PROVE  \E order \in Seq(places) :
           /\ Len(order) = Cardinality(places) /\ Cardinality(places) \in Nat
           /\ \A i, j \in DOMAIN order : order[i] = order[j] => i = j
           /\ Picked(list, places) = [k \in 1..Cardinality(places) |-> list[order[k]]]
           /\ places = DOMAIN list => Picked(list, places) = list
           /\ 1 \in places => Cardinality(places) > 0 /\ Picked(list, places)[1] = list[1]
<1> DEFINE R == {p \in places \X places : p[1] < p[2]}
           order == Ranked(places, R)
<1>1. \A x, y \in places : <<x, y>> \in R <=> x < y  OBVIOUS
<1>2. PICK n \in Nat : n = Len(list) /\ DOMAIN list = 1..n  OBVIOUS
<1>3. IsFiniteSet(places)
  <2>1. IsFiniteSet(1..n) /\ places \in SUBSET (1..n)  BY <1>2, FS_Interval
  <2>2. QED  BY <2>1, FS_Subset
<1>4. PICK size \in Nat : size = Cardinality(places)  BY <1>3, FS_CardinalityType
<1>5. Picked(list, places) = [k \in DOMAIN order |-> list[order[k]]]  BY DEF Picked
<1> HIDE DEF R
<1>6. Orders(R, places)
  <2>1. \A x \in places : x \in Int  BY <1>2
  <2>2. QED  BY <1>1, <2>1 DEF Orders
<1>7. /\ order \in Seq(places) /\ Len(order) = size
      /\ \A k \in DOMAIN order : Cardinality(Below(places, R, order[k])) = k - 1
      /\ \A i, j \in DOMAIN order : order[i] = order[j] => i = j
  BY <1>3, <1>4, <1>6, RankedIs
<1>8. DOMAIN order = 1..size  BY <1>7
<1>9. ASSUME places = DOMAIN list  PROVE Picked(list, places) = list
  <2>1. places = 1..n  BY <1>2, <1>9
  <2>2. size = n  BY <1>4, <2>1, FS_Interval
  <2>3. ASSUME NEW x \in 1..n
        PROVE  Cardinality({y \in places : <<y, x>> \in R}) = x - 1
    <3>1. {y \in places : <<y, x>> \in R} = 1..(x - 1)  BY <1>1, <2>1
    <3>2. x - 1 \in Int /\ (x - 1) - 1 + 1 = x - 1 /\ (1 > x - 1 => x - 1 = 0)  OBVIOUS
    <3>3. Cardinality(1..(x - 1)) = x - 1  BY <3>2, FS_Interval
    <3>4. QED  BY <3>1, <3>3
  <2>4. \A k \in 1..n : order[k] = k
    <3> TAKE k \in 1..n
    <3>1. order[k] = CHOOSE x \in places : Cardinality({y \in places : <<y, x>> \in R}) = k - 1
      BY <1>4, <2>2 DEF Ranked
    <3>2. \A x \in places : Cardinality({y \in places : <<y, x>> \in R}) = k - 1 <=> x = k
      BY <2>1, <2>3
    <3> HIDE DEF order
    <3>3. QED  BY <2>1, <3>1, <3>2
  <2> HIDE DEF order
  <2>5. Picked(list, places) = [k \in 1..n |-> list[k]]  BY <1>5, <1>8, <2>2, <2>4
  <2>6. QED  BY <1>2, <2>5
<1> HIDE DEF order
<1>10. ASSUME 1 \in places  PROVE size > 0 /\ Picked(list, places)[1] = list[1]
  <2>1. size > 0  BY <1>3, <1>4, <1>10, FS_EmptySet
  <2>2. 1 \in DOMAIN order /\ order[1] \in places  BY <1>7, <1>8, <2>1
  <2>3. Below(places, R, order[1]) \in SUBSET places  BY DEF Below
  <2>4. Cardinality(Below(places, R, order[1])) = 0  BY <1>7, <2>2
  <2>5. Below(places, R, order[1]) = {}  BY <1>3, <2>3, <2>4, FS_Subset, FS_EmptySet
  <2>6. ~(1 < order[1])  BY <1>1, <1>10, <2>2, <2>5 DEF Below
  <2>7. order[1] = 1  BY <1>2, <2>2, <2>6
  <2>8. QED  BY <1>5, <2>1, <2>2, <2>7
<1>11. QED  BY <1>4, <1>5, <1>7, <1>8, <1>9, <1>10

LEMMA SetToSeqIn ==
  ASSUME NEW S, IsFiniteSet(S)
  PROVE  SetToSeq(S) \in Seq(S)
<1>1. PICK f : f \in Bijection(1..Cardinality(S), S)  BY FS_CardinalityType DEF ExistsBijection
<1>2. f \in [1..Cardinality(S) -> S] /\ IsInjective(f)
  BY <1>1 DEF Bijection, Injection, IsInjective
<1>3. SetToSeq(S) \in [1..Cardinality(S) -> S]  BY <1>2 DEF SetToSeq
<1>4. Cardinality(S) \in Nat  BY FS_CardinalityType
<1>5. QED  BY <1>3, <1>4, SeqDef

LEMMA SeqWider ==
  ASSUME NEW S, NEW T, S \subseteq T, NEW list \in Seq(S)
  PROVE  list \in Seq(T)
<1>1. list \in [1..Len(list) -> S] /\ Len(list) \in Nat  OBVIOUS
<1>2. list \in [1..Len(list) -> T]  BY <1>1
<1>3. QED  BY <1>1, <1>2, SeqDef

-----------------------------------------------------------------------------
(* Recursion over the numbers up to n: there is a function that follows the    *)
(* steps, and any that does has its values.                                    *)
LEMMA ValuesExist ==
  ASSUME NEW n \in Nat, NEW D, NEW base \in D, NEW step \in [1..n -> [D -> D]]
  PROVE  \E f : Values(n, D, base, step, f, f[n])
<1>1. PICK g : Folds(n, D, base, step, g)  BY FoldExists
<1>2. g[{}] = base  BY <1>1 DEF Folds
<1>3. \A s \in SUBSET (1..n) : s # {} => g[s] = step[Max(s)][g[s \ {Max(s)}]]
  BY <1>1 DEF Folds
<1>4. PICK f : Values(n, D, base, step, f, g[1..n])  BY <1>2, <1>3, FoldValues
<1>5. Values(n, D, base, step, f, f[n])  BY <1>4 DEF Values
<1>6. QED  BY <1>5

LEMMA ValuesAre ==
  ASSUME NEW n \in Nat, NEW D, NEW base \in D, NEW step \in [1..n -> [D -> D]], NEW h,
         h[0] = base, \A k \in 1..n : h[k - 1] \in D => h[k] = step[k][h[k - 1]]
  PROVE  \A k \in 0..n : h[k] \in D
<1> DEFINE S == {k \in 0..n : h[k] \in D}
<1>1. 0 \in S  OBVIOUS
<1>2. ASSUME NEW k \in 0..(n - 1), k \in S  PROVE k + 1 \in S
  <2>1. k + 1 \in 1..n /\ (k + 1) - 1 = k  OBVIOUS
  <2>2. h[k + 1] = step[k + 1][h[k]]  BY <1>2, <2>1
  <2>3. step[k + 1] \in [D -> D]  BY <2>1
  <2>4. QED  BY <1>2, <2>1, <2>2, <2>3
<1>3. QED
  <2> HIDE DEF S
  <2>1. 0..n \subseteq S  BY <1>1, <1>2, UpTo
  <2>2. QED  BY <2>1 DEF S

(* A set of numbers that is not empty has a first one.                         *)
LEMMA LeastIs ==
  ASSUME NEW S \in SUBSET Nat, S # {}
  PROVE  \E x \in S : \A y \in S : x <= y
<1>1. PICK x \in S : \A y \in S : ~(<<y, x>> \in OpToRel(<, Nat))
  BY NatLessThanWellFounded, WFMin
<1>2. ASSUME NEW y \in S PROVE x <= y
  <2>1. <<y, x>> \in OpToRel(<, Nat) <=> y < x
    BY Zenon DEF OpToRel
  <2>2. ~(y < x)  BY <1>1, <2>1
  <2>3. QED  BY <2>2
<1>3. QED  BY <1>2

-----------------------------------------------------------------------------
(* What a list of lists is joined to.  part[k] is what the first k of them     *)
(* are joined to.                                                              *)
Parts(seqs, D, part) ==
  /\ seqs \in Seq(Seq(D)) /\ part \in [0..Len(seqs) -> Seq(D)]
  /\ part[0] = <<>> /\ part[Len(seqs)] = FlattenSeq(seqs)
  /\ \A k \in 1..Len(seqs) : part[k] = part[k - 1] \o seqs[k]

LEMMA FlattenIs ==
  ASSUME NEW D, NEW seqs \in Seq(Seq(D))
  PROVE  FlattenSeq(seqs) \in Seq(D) /\ \E part : Parts(seqs, D, part)
<1>1. PICK n \in Nat : n = Len(seqs)  OBVIOUS
<1>2. \A k \in 1..n : seqs[k] \in Seq(D)  BY <1>1
<1> DEFINE step == [k \in 1..n |-> [s \in Seq(D) |-> s \o seqs[k]]]
<1>3. step \in [1..n -> [Seq(D) -> Seq(D)]]
  <2>1. ASSUME NEW k \in 1..n, NEW s \in Seq(D)  PROVE s \o seqs[k] \in Seq(D)  BY <1>2
  <2>2. QED  BY <2>1
<1>4. <<>> \in Seq(D)  OBVIOUS
<1>5. PICK g : Values(n, Seq(D), <<>>, step, g, g[n])
  <2> HIDE DEF step
  <2>1. QED  BY <1>3, <1>4, ValuesExist
<1>6. g[0] = <<>> /\ \A k \in 1..n : g[k - 1] \in Seq(D) /\ g[k] = g[k - 1] \o seqs[k]
  <2>1. \A k \in 1..n : k - 1 \in 0..n  OBVIOUS
  <2>2. QED  BY <1>5, <2>1 DEF Values
<1> HIDE DEF step
<1>7. CASE n = 0
  <2>0. seqs = <<>>  BY <1>1, <1>7, EmptySeq
  <2>1. FlattenSeq(seqs) = <<>>  BY <2>0 DEF FlattenSeq
  <2>2. g \in [0..n -> Seq(D)]  BY <1>5 DEF Values
  <2>3. Parts(seqs, D, g)  BY <1>1, <1>6, <1>7, <2>1, <2>2 DEF Parts
  <2>4. QED  BY <2>1, <2>3
<1>8. CASE n > 0
  <2> DEFINE Eq(f) == f = [i \in 1..Len(seqs) |-> IF i = 1 THEN seqs[i] ELSE f[i - 1] \o seqs[i]]
             f0 == CHOOSE f : Eq(f)
  <2>1. FlattenSeq(seqs) = f0[n]  BY <1>1, <1>8 DEF FlattenSeq
  <2>2. \E f : Eq(f)
    <3> DEFINE r == [i \in 1..n |-> g[i]]
    <3>1. ASSUME NEW i \in 1..n
          PROVE  r[i] = IF i = 1 THEN seqs[i] ELSE r[i - 1] \o seqs[i]
      <4>1. CASE i = 1
        <5>0. 1 \in 1..n /\ 1 - 1 = 0  BY <4>1
        <5>1. g[1] = g[0] \o seqs[1]
          <6>1. g[1] = g[1 - 1] \o seqs[1]  BY ONLY <1>6, <5>0
          <6>2. QED  BY <6>1, <5>0
        <5>2. seqs[1] \in Seq(D)  BY <1>2, <4>1
        <5>3. <<>> \o seqs[1] = seqs[1]  BY <5>2
        <5>4. QED  BY <1>6, <4>1, <5>1, <5>3
      <4>2. CASE i # 1
        <5>1. i - 1 \in 1..n  BY <4>2
        <5>2. QED  BY <1>6, <4>2, <5>1
      <4>3. QED  BY <4>1, <4>2
    <3>2. Eq(r)  BY <1>1, <3>1
    <3> HIDE DEF r
    <3>3. QED  BY <3>2
  <2>3. Eq(f0)  BY <2>2
  <2> DEFINE h == [k \in 0..n |-> IF k = 0 THEN <<>> ELSE f0[k]]
  <2>4. \A k \in 1..n : f0[k] = IF k = 1 THEN seqs[k] ELSE f0[k - 1] \o seqs[k]
    BY <1>1, <2>3
  <2> HIDE DEF f0
  <2>5. ASSUME NEW k \in 1..n  PROVE h[k] = h[k - 1] \o seqs[k]
    <3>1. CASE k = 1
      <4>1. h[1] = seqs[1] /\ h[0] = <<>>  BY <2>4, <3>1
      <4>2. seqs[1] \in Seq(D)  BY <1>2, <3>1
      <4>3. <<>> \o seqs[1] = seqs[1]  BY <4>2
      <4>4. 1 - 1 = 0  OBVIOUS
      <4> HIDE DEF h
      <4>5. QED  BY <3>1, <4>1, <4>3, <4>4
    <3>2. CASE k # 1
      <4>1. k - 1 \in 0..n /\ k \in 0..n /\ k # 0 /\ k - 1 # 0  BY <3>2
      <4>2. h[k] = f0[k] /\ h[k - 1] = f0[k - 1]  BY <4>1
      <4>3. f0[k] = f0[k - 1] \o seqs[k]  BY <2>4, <3>2
      <4> HIDE DEF h
      <4>4. QED  BY <4>2, <4>3
    <3>3. QED  BY <3>1, <3>2
  <2>6. \A k \in 0..n : h[k] \in Seq(D)
    <3> DEFINE S == {k \in 0..n : h[k] \in Seq(D)}
    <3>1. 0 \in S  OBVIOUS
    <3>2. ASSUME NEW k \in 0..(n - 1), k \in S  PROVE k + 1 \in S
      <4>1. k + 1 \in 1..n /\ (k + 1) - 1 = k /\ h[k] \in Seq(D)  BY <3>2
      <4> HIDE DEF h
      <4>2. h[k + 1] = h[k] \o seqs[k + 1]
        <5>1. h[k + 1] = h[(k + 1) - 1] \o seqs[k + 1]  BY <2>5, <4>1
        <5>2. QED  BY <4>1, <5>1
      <4>3. seqs[k + 1] \in Seq(D)  BY <1>2, <4>1
      <4>4. h[k] \o seqs[k + 1] \in Seq(D)  BY <4>1, <4>3
      <4>5. k + 1 \in 0..n  OBVIOUS
      <4>6. QED  BY <4>2, <4>4, <4>5
    <3> HIDE DEF S, h
    <3>3. 0..n \subseteq S  BY <3>1, <3>2, UpTo
    <3>4. QED  BY <3>3 DEF S
  <2>7. h \in [0..n -> Seq(D)] /\ h[0] = <<>> /\ h[n] = f0[n]  BY <1>8, <2>6
  <2> HIDE DEF h
  <2>8. Parts(seqs, D, h)  BY <1>1, <2>1, <2>5, <2>7 DEF Parts
  <2>9. FlattenSeq(seqs) \in Seq(D)
    <3>1. n \in 0..n  OBVIOUS
    <3>2. QED  BY <2>1, <2>7, <3>1
  <2>10. QED  BY <2>8, <2>9
<1>9. QED  BY <1>7, <1>8

LEMMA JoinIs ==
  ASSUME NEW D, NEW s \in Seq(D), NEW t \in Seq(D)
  PROVE  /\ s \o t \in Seq(D) /\ Len(s) \in Nat /\ Len(t) \in Nat /\ Len(s \o t) = Len(s) + Len(t)
         /\ \A p \in 1..Len(s) : (s \o t)[p] = s[p]
         /\ \A i \in 1..Len(t) : (s \o t)[Len(s) + i] = t[i]
<1>1. s \o t \in Seq(D) /\ Len(s \o t) = Len(s) + Len(t) /\ Len(s) \in Nat /\ Len(t) \in Nat
  OBVIOUS
<1>2. \A p \in 1..Len(s) : (s \o t)[p] = s[p]
  BY <1>1, ConcatProperties
<1>3. \A i \in 1..Len(t) : (s \o t)[Len(s) + i] = t[i]
  BY <1>1, ConcatProperties
<1>4. QED  BY <1>1, <1>2, <1>3

(* What the first lists are joined to is where the join of more begins.        *)
LEMMA PartsGrow ==
  ASSUME NEW D, NEW seqs, NEW part, Parts(seqs, D, part),
         NEW k \in 0..Len(seqs), NEW m \in k..Len(seqs)
  PROVE  /\ Len(part[k]) \in Nat /\ Len(part[m]) \in Nat /\ Len(part[k]) <= Len(part[m])
         /\ \A p \in 1..Len(part[k]) : part[m][p] = part[k][p]
<1>1. PICK n \in Nat : n = Len(seqs)  BY DEF Parts
<1>2. /\ \A i \in 0..n : part[i] \in Seq(D)
      /\ \A i \in 1..n : part[i] = part[i - 1] \o seqs[i] /\ seqs[i] \in Seq(D)
  <2>1. \A i \in 1..n : seqs[i] \in Seq(D)  BY <1>1 DEF Parts
  <2>2. QED  BY ONLY <1>1, <2>1, Parts(seqs, D, part) DEF Parts
<1>3. PICK size \in Nat : size = Len(part[k])  BY <1>1, <1>2
<1> DEFINE Goes(i) == /\ Len(part[i]) \in Nat /\ size <= Len(part[i])
                      /\ \A p \in 1..size : part[i][p] = part[k][p]
           S == {d \in 0..(n - k) : Goes(k + d)}
<1>4. k \in 0..n /\ k \in Nat /\ m \in k..n /\ n - k \in Nat  BY <1>1
<1>5. 0 \in S  BY <1>3, <1>4
<1>6. ASSUME NEW d \in 0..((n - k) - 1), d \in S  PROVE d + 1 \in S
  <2>1. PICK i \in 0..n : i = k + d  BY <1>4
  <2>2. i + 1 \in 1..n /\ (i + 1) - 1 = i /\ i + 1 = k + (d + 1) /\ d + 1 \in 0..(n - k)
    BY <1>4, <2>1
  <2>3. part[i + 1] = part[i] \o seqs[i + 1] /\ part[i] \in Seq(D) /\ seqs[i + 1] \in Seq(D)
    <3>1. part[i + 1] = part[(i + 1) - 1] \o seqs[i + 1]  BY <1>2, <2>2
    <3>2. QED  BY <1>2, <2>2, <3>1
  <2>4. Goes(i)  BY <1>6, <2>1
  <2>5. PICK a \in Nat, b \in Nat : a = Len(part[i]) /\ b = Len(seqs[i + 1])  BY <2>3
  <2>6. /\ Len(part[i + 1]) = a + b
        /\ \A p \in 1..a : part[i + 1][p] = part[i][p]
    <3>1. PICK s \in Seq(D), t \in Seq(D) : s = part[i] /\ t = seqs[i + 1]  BY <2>3
    <3>2. Len(s \o t) = Len(s) + Len(t) /\ \A p \in 1..Len(s) : (s \o t)[p] = s[p]
      BY JoinIs
    <3>3. QED  BY <2>3, <2>5, <3>1, <3>2
  <2>7. \A p \in 1..size : p \in 1..a  BY <2>4, <2>5
  <2>8. Goes(i + 1)
    <3>0. size <= Len(part[i])  BY <2>4
    <3>4. size <= a  BY <2>5, <3>0
    <3>1. a + b \in Nat /\ size <= a + b  BY <3>4
    <3>2. \A p \in 1..size : part[i + 1][p] = part[k][p]  BY <2>4, <2>6, <2>7
    <3>3. QED  BY <2>6, <3>1, <3>2
  <2>9. QED  BY <2>2, <2>8
<1>7. \A d \in 0..(n - k) : Goes(k + d)
  <2> HIDE DEF S
  <2>1. 0..(n - k) \subseteq S  BY <1>4, <1>5, <1>6, UpTo
  <2> USE DEF S
  <2>2. QED  BY <2>1
<1>8. m - k \in 0..(n - k) /\ k + (m - k) = m  BY <1>4
<1> HIDE DEF Goes
<1>9. Goes(m)  BY <1>7, <1>8
<1>10. QED  BY <1>3, <1>9 DEF Goes

Sits(seqs, part, k) ==
  /\ Len(part[k - 1]) \in Nat /\ Len(part[k]) = Len(part[k - 1]) + Len(seqs[k])
  /\ Len(part[k]) <= Len(FlattenSeq(seqs))
  /\ \A i \in 1..Len(seqs[k]) : FlattenSeq(seqs)[Len(part[k - 1]) + i] = seqs[k][i]

(* Each list is found in the join behind those before it,                      *)
LEMMA FlattenHas ==
  ASSUME NEW D, NEW seqs, NEW part, Parts(seqs, D, part), NEW k \in 1..Len(seqs)
  PROVE  Sits(seqs, part, k)
<1>1. PICK n \in Nat : n = Len(seqs)  BY DEF Parts
<1>2. k - 1 \in 0..n /\ k \in 0..n /\ k \in 1..n /\ n \in k..n /\ k \in k..n  BY <1>1
<1>3. /\ part[k] = part[k - 1] \o seqs[k] /\ part[k - 1] \in Seq(D) /\ seqs[k] \in Seq(D)
      /\ part[n] = FlattenSeq(seqs)
  <2>1. seqs[k] \in Seq(D)  BY DEF Parts
  <2>2. QED  BY ONLY <1>1, <1>2, <2>1, Parts(seqs, D, part) DEF Parts
<1>4. PICK a \in Nat, b \in Nat : a = Len(part[k - 1]) /\ b = Len(seqs[k])  BY <1>3
<1>5. Len(part[k]) = a + b /\ \A i \in 1..b : part[k][a + i] = seqs[k][i]
  <2>1. PICK s \in Seq(D), t \in Seq(D) : s = part[k - 1] /\ t = seqs[k]  BY <1>3
  <2>2. Len(s \o t) = Len(s) + Len(t) /\ \A i \in 1..Len(t) : (s \o t)[Len(s) + i] = t[i]
    BY JoinIs
  <2>3. QED  BY <1>3, <1>4, <2>1, <2>2
<1>6. /\ Len(part[k]) <= Len(part[n])
      /\ \A p \in 1..Len(part[k]) : part[n][p] = part[k][p]
  BY <1>1, <1>2, PartsGrow
<1>7. \A i \in 1..b : a + i \in 1..Len(part[k])
  <2>1. Len(part[k]) = a + b  BY <1>5
  <2>2. QED  BY <2>1
<1>8. \A i \in 1..b : FlattenSeq(seqs)[a + i] = seqs[k][i]  BY <1>3, <1>5, <1>6, <1>7
<1>9. QED  BY <1>3, <1>4, <1>5, <1>6, <1>8 DEF Sits

(* and the join has nothing else.                                              *)
FoundIn(seqs, part, p) ==
  \E k \in 1..Len(seqs) : \E i \in 1..Len(seqs[k]) : p = Len(part[k - 1]) + i

LEMMA FlattenHasOnly ==
  ASSUME NEW D, NEW seqs, NEW part, Parts(seqs, D, part),
         NEW p \in 1..Len(FlattenSeq(seqs))
  PROVE  FoundIn(seqs, part, p)
<1>1. PICK n \in Nat : n = Len(seqs)  BY DEF Parts
<1>2. part[n] = FlattenSeq(seqs) /\ part[0] = <<>>  BY <1>1 DEF Parts
<1>0. \A j \in 1..Len(seqs) :
        Len(part[j - 1]) \in Nat /\ Len(part[j]) = Len(part[j - 1]) + Len(seqs[j])
  <2>1. \A j \in 1..Len(seqs) : Sits(seqs, part, j)  BY FlattenHas
  <2>2. QED  BY <2>1 DEF Sits
<1> DEFINE Found(k) == \E j \in 1..k : \E i \in 1..Len(seqs[j]) : p = Len(part[j - 1]) + i
           S == {k \in 0..n : p \in 1..Len(part[k]) => Found(k)}
<1>3. 0 \in S
  <2>1. Len(part[0]) = 0  BY <1>2
  <2>2. p \notin 1..Len(part[0])  BY <2>1
  <2>3. QED  BY <2>2
<1>4. ASSUME NEW k \in 0..(n - 1), k \in S  PROVE k + 1 \in S
  <2>1. k + 1 \in 1..n /\ (k + 1) - 1 = k /\ k + 1 \in 1..(k + 1) /\ k + 1 \in 0..n  OBVIOUS
  <2>2. Len(part[k]) \in Nat /\ Len(part[k + 1]) = Len(part[k]) + Len(seqs[k + 1])
    <3>1. PICK j \in 1..Len(seqs) : j = k + 1  BY <1>1, <2>1
    <3>2. Len(part[j - 1]) \in Nat /\ Len(part[j]) = Len(part[j - 1]) + Len(seqs[j])
      BY <1>0
    <3>3. j - 1 = k  BY <2>1, <3>1
    <3>4. QED  BY <3>1, <3>2, <3>3
  <2>3. seqs[k + 1] \in Seq(D)  BY <1>1, <2>1 DEF Parts
  <2>4. PICK a \in Nat, b \in Nat : a = Len(part[k]) /\ b = Len(seqs[k + 1])  BY <2>2, <2>3
  <2>5. ASSUME p \in 1..Len(part[k + 1])  PROVE Found(k + 1)
    <3>1. CASE p \in 1..a
      <4>1. Found(k)  BY <1>4, <2>4, <3>1
      <4>2. 1..k \subseteq 1..(k + 1)  OBVIOUS
      <4>3. QED  BY <4>1, <4>2
    <3>2. CASE p \notin 1..a
      <4>1. p - a \in 1..b /\ p = a + (p - a)
        <5>1. p \in 1..(a + b)  BY <2>2, <2>4, <2>5
        <5>2. QED  BY <3>2, <5>1
      <4>2. p - a \in 1..Len(seqs[k + 1]) /\ p = Len(part[(k + 1) - 1]) + (p - a)
        BY <2>1, <2>4, <4>1
      <4>3. QED  BY <2>1, <4>2
    <3>3. QED  BY <3>1, <3>2
  <2> HIDE DEF Found
  <2>6. QED  BY <2>1, <2>5
<1>5. n \in S
  <2> HIDE DEF S
  <2>1. 0..n \subseteq S  BY <1>3, <1>4, UpTo
  <2>2. QED  BY <2>1
<1>6. QED  BY <1>1, <1>2, <1>5 DEF FoundIn

(* One list more at the end.                                                   *)
LEMMA FlattenMore ==
  ASSUME NEW D, NEW seqs \in Seq(Seq(D)), NEW more \in Seq(Seq(D)),
         Len(more) = Len(seqs) + 1, \A k \in 1..Len(seqs) : more[k] = seqs[k]
  PROVE  FlattenSeq(more) = FlattenSeq(seqs) \o more[Len(seqs) + 1]
<1>1. PICK n \in Nat : n = Len(seqs)  BY DEF Parts
<1>2. PICK part : Parts(seqs, D, part)  BY FlattenIs
<1>3. PICK wider : Parts(more, D, wider)  BY FlattenIs
<1>4. /\ part[0] = <<>> /\ wider[0] = <<>>
      /\ \A k \in 1..n : part[k] = part[k - 1] \o seqs[k]
      /\ \A k \in 1..(n + 1) : wider[k] = wider[k - 1] \o more[k]
      /\ part[n] = FlattenSeq(seqs) /\ wider[n + 1] = FlattenSeq(more)
  BY <1>1, <1>2, <1>3 DEF Parts
<1> DEFINE S == {k \in 0..n : wider[k] = part[k]}
<1>5. 0 \in S  BY <1>4
<1>6. ASSUME NEW k \in 0..(n - 1), k \in S  PROVE k + 1 \in S
  <2>1. k + 1 \in 1..n /\ k + 1 \in 1..(n + 1) /\ (k + 1) - 1 = k /\ k + 1 \in 0..n  OBVIOUS
  <2>2. wider[k + 1] = wider[(k + 1) - 1] \o more[k + 1]  BY <1>4, <2>1
  <2>3. part[k + 1] = part[(k + 1) - 1] \o seqs[k + 1]  BY <1>4, <2>1
  <2>4. more[k + 1] = seqs[k + 1] /\ wider[k] = part[k]  BY <1>1, <1>6, <2>1
  <2>5. QED  BY <2>1, <2>2, <2>3, <2>4
<1>7. wider[n] = part[n]
  <2> HIDE DEF S
  <2>1. 0..n \subseteq S  BY <1>5, <1>6, UpTo
  <2>2. n \in S  BY <2>1
  <2>3. QED  BY <2>2 DEF S
<1>8. n + 1 \in 1..(n + 1) /\ (n + 1) - 1 = n  OBVIOUS
<1>9. wider[n + 1] = wider[(n + 1) - 1] \o more[n + 1]  BY <1>4, <1>8
<1>10. QED  BY <1>1, <1>4, <1>7, <1>8, <1>9

LEMMA FlattenOne ==
  ASSUME NEW D, NEW seqs \in Seq(Seq(D)), Len(seqs) = 1
  PROVE  FlattenSeq(seqs) = seqs[1]
<1>1. PICK part : Parts(seqs, D, part)  BY FlattenIs
<1>2. 1 \in 1..1 /\ 1 - 1 = 0  OBVIOUS
<1>3. part[1] = part[1 - 1] \o seqs[1] /\ part[1] = FlattenSeq(seqs) /\ part[0] = <<>>
  BY <1>1, <1>2 DEF Parts
<1>4. seqs[1] \in Seq(D)  OBVIOUS
<1>5. <<>> \o seqs[1] = seqs[1]  BY <1>4
<1>6. QED  BY <1>2, <1>3, <1>5

-----------------------------------------------------------------------------
(* Lists made of other lists.                                                  *)
LEMMA ListIs ==
  ASSUME NEW D, NEW n \in Nat, NEW list, list = [k \in 1..n |-> list[k]],
         \A k \in 1..n : list[k] \in D
  PROVE  list \in Seq(D) /\ Len(list) = n /\ DOMAIN list = 1..n
<1>1. list \in [1..n -> D]  OBVIOUS
<1>2. QED  BY <1>1, LenProperties, SeqDef

LEMMA ListOver ==
  ASSUME NEW C, NEW D, NEW given \in Seq(C), NEW list, list = [k \in DOMAIN given |-> list[k]],
         \A k \in DOMAIN given : list[k] \in D
  PROVE  list \in Seq(D)
<1>1. PICK n \in Nat : DOMAIN given = 1..n  OBVIOUS
<1>2. QED  BY <1>1, ListIs

(* Where the elements of a join come from.                                     *)
LEMMA JoinFrom ==
  ASSUME NEW D, NEW s \in Seq(D), NEW t \in Seq(D), NEW m, NEW n, m = Len(s), n = Len(t)
  PROVE  /\ s \o t \in Seq(D) /\ m \in Nat /\ n \in Nat
         /\ Len(s \o t) = m + n /\ DOMAIN (s \o t) = 1..(m + n)
         /\ \A p \in 1..m : (s \o t)[p] = s[p]
         /\ \A i \in 1..n : m + i \in 1..(m + n) /\ (s \o t)[m + i] = t[i]
<1>1. /\ s \o t \in Seq(D) /\ m \in Nat /\ n \in Nat /\ Len(s \o t) = m + n
      /\ \A p \in 1..m : (s \o t)[p] = s[p]
      /\ \A i \in 1..n : (s \o t)[m + i] = t[i]
  BY JoinIs
<1>2. DOMAIN (s \o t) = 1..(m + n)  BY <1>1
<1>3. \A i \in 1..n : m + i \in 1..(m + n)  BY <1>1
<1>4. QED  BY <1>1, <1>2, <1>3

(* What is picked from a list is a list of the same things.                    *)
LEMMA PickedIn ==
  ASSUME NEW D, NEW list \in Seq(D), NEW places \in SUBSET (DOMAIN list)
  PROVE  Picked(list, places) \in Seq(D)
<1>1. PICK order \in Seq(places) :
        /\ Len(order) = Cardinality(places) /\ Cardinality(places) \in Nat
        /\ Picked(list, places) = [k \in 1..Cardinality(places) |-> list[order[k]]]
  BY PickedIs
<1>2. \A k \in 1..Cardinality(places) : list[order[k]] \in D
  <2> SUFFICES ASSUME NEW k \in 1..Cardinality(places)  PROVE list[order[k]] \in D  OBVIOUS
  <2>1. order[k] \in places  BY <1>1
  <2>2. QED  BY <2>1
<1>3. QED  BY <1>1, <1>2
=============================================================================
