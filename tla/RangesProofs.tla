---------------------------- MODULE RangesProofs ----------------------------
(***************************************************************************)
(* What the sequence-number arithmetic of the archive computes, for every   *)
(* bound on the numbers, every advertised set of ranges and every order of  *)
(* responses.                                                               *)
(*                                                                          *)
(* The program's loops are folds, and its ORDER BY puts a finite set in     *)
(* order.  Both are given by what they choose, so two groups of lemmas come *)
(* first: a fold goes through one value per pass (FoldExists, and one lemma *)
(* named ...Passes for each fold), and counting the elements before each    *)
(* one puts a set in order (RanksOrder).  Climb is the induction they and   *)
(* the loop invariants rest on.                                             *)
(*                                                                          *)
(* Everything computed is then compared with Canonical(out, S): out is the  *)
(* list of the maximal runs of S.  A set has one such list                  *)
(* (CanonicalIsUnique), so two computations of the same numbers agree row   *)
(* by row.  The only state that matters to the theorems is that the         *)
(* coverage table is the canonical form of the stored numbers (IInv).       *)
(***************************************************************************)
EXTENDS Ranges, FiniteSetTheorems, WellFoundedInduction, SequenceTheorems, TLAPS

-----------------------------------------------------------------------------
(* Minima and folds *)

\* A set of numbers has a least one, and it is what Min chooses.
LEMMA MinIsMember ==
    ASSUME NEW S \in SUBSET Nat, S # {}
    PROVE  Min(S) \in S /\ \A y \in S : Min(S) <= y
<1>1. PICK x \in S : \A y \in S : ~(<<y, x>> \in OpToRel(<, Nat))
  BY NatLessThanWellFounded, WFMin
<1>2. \A y \in S : ~(y < x)
  BY <1>1, Zenon DEF OpToRel
<1>3. \A y \in S : x <= y
  BY <1>2
<1>4. QED
  BY <1>3 DEF Min

\* Induction, for a set of numbers.
LEMMA Climb ==
    ASSUME NEW n \in Nat, NEW Good, 0 \in Good,
           \A k \in 0..(n - 1) : k \in Good => k + 1 \in Good
    PROVE  0..n \subseteq Good
<1> DEFINE bad == {k \in 0..n : k \notin Good}
<1> SUFFICES ASSUME bad # {} PROVE FALSE
  OBVIOUS
<1>1. Min(bad) \in bad /\ \A y \in bad : Min(bad) <= y
  BY MinIsMember
<1>2. Min(bad) # 0
  BY <1>1
<1>3. Min(bad) - 1 \in 0..(n - 1) /\ Min(bad) - 1 \notin bad
  BY <1>1, <1>2
<1>4. QED
  BY <1>1, <1>3

\* The function that a fold's definition chooses: its value on a set of
\* indices is a step from the value without the largest of them.
Folds(g, n, base, G) ==
    g = [s \in SUBSET (1..n) |->
            IF s = {} THEN base ELSE G[Max(s)][g[s \ {Max(s)}]]]

\* The largest index of a set that holds the last one.
LEMMA MaxOfNext ==
    ASSUME NEW m \in Nat, NEW s \in SUBSET (1..(m + 1)), m + 1 \in s
    PROVE  Max(s) = m + 1
<1>1. \A y \in s : m + 1 >= y
  OBVIOUS
<1>2. \A x \in s : x >= m + 1 => x = m + 1
  OBVIOUS
<1>3. QED
  BY <1>1, <1>2 DEF Max

\* A bounded set of numbers has a largest one, and it is what Max chooses.
LEMMA MaxIsMember ==
    ASSUME NEW n \in Nat, NEW s \in SUBSET (0..n), s # {}
    PROVE  Max(s) \in s /\ \A y \in s : y <= Max(s)
<1> DEFINE back == {n - y : y \in s}
<1>1. back \in SUBSET Nat /\ back # {}
  <2>1. \A y \in s : n - y \in Nat
    OBVIOUS
  <2>2. QED
    BY <2>1
<1>2. Min(back) \in back /\ \A y \in back : Min(back) <= y
  BY <1>1, MinIsMember
<1>3. PICK x \in s : Min(back) = n - x
  BY <1>2
<1>4. \A y \in s : y <= x
  <2>1. SUFFICES ASSUME NEW y \in s PROVE y <= x
    OBVIOUS
  <2>2. n - y \in back
    OBVIOUS
  <2>3. n - x <= n - y
    <3> HIDE DEF back
    <3> QED
      BY <1>2, <1>3, <2>2
  <2>4. x \in 0..n /\ y \in 0..n
    OBVIOUS
  <2>5. QED
    BY <2>3, <2>4
<1>5. QED
  BY <1>4 DEF Max

\* There is such a function, whatever the step at each index is.
LEMMA FoldExists ==
    ASSUME NEW n \in Nat, NEW A, NEW base \in A, NEW G \in [1..n -> [A -> A]]
    PROVE  \E g \in [SUBSET (1..n) -> A] : Folds(g, n, base, G)
<1> DEFINE Good == {m \in 0..n : \E g \in [SUBSET (1..m) -> A] : Folds(g, m, base, G)}
<1>1. 0 \in Good
  <2> DEFINE g == [s \in SUBSET (1..0) |-> base]
  <2>1. \A s \in SUBSET (1..0) : s = {}
    OBVIOUS
  <2>2. Folds(g, 0, base, G)
    BY <2>1 DEF Folds
  <2>3. QED
    BY <2>2
<1>2. ASSUME NEW m \in 0..(n - 1), m \in Good
      PROVE  m + 1 \in Good
  <2>0. m \in Nat /\ m + 1 \in 0..n
    OBVIOUS
  <2>1. PICK g \in [SUBSET (1..m) -> A] : Folds(g, m, base, G)
    BY <1>2
  <2> DEFINE h == [s \in SUBSET (1..(m + 1)) |->
                      IF m + 1 \in s THEN G[m + 1][g[s \ {m + 1}]] ELSE g[s]]
  <2>2. \A s \in SUBSET (1..(m + 1)) :
            IF m + 1 \in s THEN s \ {m + 1} \in SUBSET (1..m) ELSE s \in SUBSET (1..m)
    OBVIOUS
  <2>3. G[m + 1] \in [A -> A]
    OBVIOUS
  <2>4. h \in [SUBSET (1..(m + 1)) -> A]
    BY <2>2, <2>3
  <2>5. ASSUME NEW s \in SUBSET (1..(m + 1)), s # {}
        PROVE  h[s] = G[Max(s)][h[s \ {Max(s)}]]
    <3>1. CASE m + 1 \in s
      <4>1. Max(s) = m + 1
        BY <3>1, MaxOfNext
      <4>2. h[s] = G[m + 1][g[s \ {m + 1}]]
        BY <3>1
      <4>3. h[s \ {m + 1}] = g[s \ {m + 1}]
        BY <2>2, <3>1
      <4>4. QED
        BY <4>1, <4>2, <4>3
    <3>2. CASE m + 1 \notin s
      <4>1. s \in SUBSET (1..m) /\ s \in SUBSET (0..m)
        BY <2>2, <3>2
      <4>2. Max(s) \in s /\ s \ {Max(s)} \in SUBSET (1..m) /\ m + 1 \notin s \ {Max(s)}
        BY <2>0, <4>1, <2>5, <3>2, MaxIsMember
      <4>3. g[s] = G[Max(s)][g[s \ {Max(s)}]]
        BY <2>1, <2>5, <4>1 DEF Folds
      <4>4. h[s] = g[s]
        BY <3>2
      <4>5. h[s \ {Max(s)}] = g[s \ {Max(s)}]
        BY <4>2
      <4>6. QED
        BY <4>3, <4>4, <4>5
    <3>3. QED
      BY <3>1, <3>2
  <2>6. h[{}] = base
    <3>1. g[{}] = base
      BY <2>1 DEF Folds
    <3>2. QED
      BY <3>1
  <2>7. \A s \in SUBSET (1..(m + 1)) :
           h[s] = IF s = {} THEN base ELSE G[Max(s)][h[s \ {Max(s)}]]
    BY <2>5, <2>6
  <2> HIDE DEF h
  <2>8. h = [s \in SUBSET (1..(m + 1)) |->
                IF s = {} THEN base ELSE G[Max(s)][h[s \ {Max(s)}]]]
    BY <2>4, <2>7
  <2>9. QED
    BY <2>0, <2>4, <2>8 DEF Folds
<1>3. 0..n \subseteq Good
  BY <1>1, <1>2, Climb
<1>4. n \in 0..n
  OBVIOUS
<1>5. QED
  BY <1>3, <1>4

\* A fold's values on the prefixes 1..k: each is one pass from the one before.
LEMMA PrefixFacts ==
    ASSUME NEW n \in Nat, NEW k \in 1..n
    PROVE  /\ 1..k \in SUBSET (1..n) /\ 1..k # {}
           /\ Max(1..k) = k
           /\ (1..k) \ {k} = 1..(k - 1)
<1>1. (k - 1) + 1 = k /\ k - 1 \in Nat
  OBVIOUS
<1>2. 1..k \in SUBSET (1..((k - 1) + 1)) /\ (k - 1) + 1 \in 1..k
  BY <1>1
<1>3. Max(1..k) = k
  BY <1>1, <1>2, MaxOfNext
<1>4. QED
  BY <1>3

\* What a program's loop computes, pass by pass: the fold of Extend.
LEMMA ExtendPasses ==
    ASSUME NEW numbers, NEW n \in Nat, Ordered(numbers) \in [1..n -> Nat]
    PROVE  \E h : /\ h[0] = <<>> /\ h[n] = Contiguous(numbers)
                  /\ \A k \in 1..n : h[k] = Extend(h[k - 1], Ordered(numbers)[k])
<1> DEFINE A == Seq(Nat \X Nat)
           seq == Ordered(numbers)
           G == [i \in 1..n |-> [a \in A |-> Extend(a, seq[i])]]
<1>1. ASSUME NEW a \in A, NEW m \in Nat
      PROVE  Extend(a, m) \in A
  <2>1. CASE a # <<>> /\ m = Last(a)[2] + 1
    <3>1. Len(a) \in Nat \ {0} /\ Last(a) \in Nat \X Nat
      BY <2>1, EmptySeq DEF Last
    <3>2. \A i \in 1..(Len(a) - 1) : a[i] \in Nat \X Nat
      BY <3>1, LenProperties
    <3>3. Front(a) \in A
      BY <3>1, <3>2, SubSeqProperties DEF Front
    <3>4. <<Last(a)[1], m>> \in Nat \X Nat
      BY <3>1
    <3>5. QED
      BY <2>1, <3>3, <3>4, AppendProperties DEF Extend
  <2>2. CASE ~(a # <<>> /\ m = Last(a)[2] + 1)
    <3>1. Extend(a, m) = Append(a, <<m, m>>)
      BY <2>2 DEF Extend
    <3>2. QED
      BY <3>1, AppendProperties
  <2>3. QED
    BY <2>1, <2>2
<1> HIDE DEF A
<1>2. G \in [1..n -> [A -> A]]
  BY <1>1
<1>3. <<>> \in A
  BY EmptySeq DEF A
<1>4. PICK g \in [SUBSET (1..n) -> A] : Folds(g, n, <<>>, G)
  <2> HIDE DEF G
  <2> QED
    BY <1>2, <1>3, FoldExists
<1>5. ASSUME NEW s \in SUBSET (1..n), s # {}
      PROVE  g[s] = Extend(g[s \ {Max(s)}], seq[Max(s)])
  <2>1. Max(s) \in 1..n
    <3>1. s \in SUBSET (0..n)
      OBVIOUS
    <3>2. QED
      BY <1>5, <3>1, MaxIsMember
  <2>2. g[s] = G[Max(s)][g[s \ {Max(s)}]]
    BY <1>4, <1>5 DEF Folds
  <2>3. QED
    BY <2>1, <2>2
<1>6. g[{}] = <<>>
  BY <1>4 DEF Folds
<1>7. g = [s \in SUBSET (1..n) |->
              IF s = {} THEN <<>> ELSE Extend(g[s \ {Max(s)}], seq[Max(s)])]
  BY <1>5, <1>6
<1> DEFINE iter == CHOOSE f : f = [s \in SUBSET (1..n) |->
              IF s = {} THEN <<>> ELSE Extend(f[s \ {Max(s)}], seq[Max(s)])]
<1>8. iter = [s \in SUBSET (1..n) |->
              IF s = {} THEN <<>> ELSE Extend(iter[s \ {Max(s)}], seq[Max(s)])]
  BY <1>7
<1>9. Contiguous(numbers) = iter[1..n]
  <2>1. DOMAIN seq = 1..n
    OBVIOUS
  <2>2. QED
    BY <2>1, Zenon DEF Contiguous, FoldLeft, MapThenFoldSet
<1> HIDE DEF iter
<1> DEFINE h == [k \in 0..n |-> iter[1..k]]
<1>10. h[0] = <<>>
  <2>1. 1..0 = {} /\ {} \in SUBSET (1..n)
    OBVIOUS
  <2>2. QED
    BY <1>8, <2>1
<1>11. ASSUME NEW k \in 1..n
       PROVE  h[k] = Extend(h[k - 1], seq[k])
  <2>1. 1..k \in SUBSET (1..n) /\ 1..k # {} /\ Max(1..k) = k /\ (1..k) \ {k} = 1..(k - 1)
    BY PrefixFacts
  <2>2. iter[1..k] = Extend(iter[(1..k) \ {Max(1..k)}], seq[Max(1..k)])
    BY <1>8, <2>1
  <2>3. k \in 0..n /\ k - 1 \in 0..n
    OBVIOUS
  <2>4. QED
    BY <2>1, <2>2, <2>3
<1>12. h[n] = Contiguous(numbers)
  BY <1>9
<1>13. QED
  BY <1>10, <1>11, <1>12

-----------------------------------------------------------------------------
(* Sets read in order *)

\* R puts any two elements of S in an order
StrictOrder(R, S) ==
    /\ \A x \in S : <<x, x>> \notin R
    /\ \A x, y \in S : x = y \/ <<x, y>> \in R \/ <<y, x>> \in R
    /\ \A x, y, z \in S : <<x, y>> \in R /\ <<y, z>> \in R => <<x, z>> \in R

Below(R, S, x) == {y \in S : <<y, x>> \in R}

\* s has at each place the element with as many before it in the order R
Ranked(s, R, S) ==
    \A i \in 1..Cardinality(S) :
        (\E x \in S : Cardinality(Below(R, S, x)) = i - 1)
            => s[i] \in S /\ Cardinality(Below(R, S, s[i])) = i - 1

\* s lists the elements of S in the order R
Lists(s, R, S) ==
    /\ \A i \in 1..Cardinality(S) : s[i] \in S
    /\ \A x \in S : \E i \in 1..Cardinality(S) : s[i] = x
    /\ \A i, j \in 1..Cardinality(S) : i < j => <<s[i], s[j]>> \in R

\* Counting the elements before each one puts a finite set in order.
LEMMA RanksOrder ==
    ASSUME NEW S, IsFiniteSet(S), NEW R, StrictOrder(R, S), NEW s, Ranked(s, R, S)
    PROVE  Lists(s, R, S)
<1> DEFINE n == Cardinality(S)
           Before(x) == Below(R, S, x)
           rank == [x \in S |-> Cardinality(Before(x))]
<1>1. n \in Nat
  BY FS_CardinalityType
<1>2. ASSUME NEW x \in S
      PROVE  IsFiniteSet(Before(x)) /\ Cardinality(Before(x)) \in 0..(n - 1)
  <2>1. Before(x) \in SUBSET S /\ Before(x) # S
    BY DEF StrictOrder, Below
  <2>2. IsFiniteSet(Before(x)) /\ Cardinality(Before(x)) <= n /\ Cardinality(Before(x)) # n
    <3> HIDE DEF Before
    <3> QED
      BY <2>1, FS_Subset
  <2>3. Cardinality(Before(x)) \in Nat
    BY <2>2, FS_CardinalityType
  <2>4. QED
    BY <1>1, <2>2, <2>3
<1>3. ASSUME NEW x \in S, NEW y \in S, <<x, y>> \in R
      PROVE  Cardinality(Before(x)) < Cardinality(Before(y))
  <2>1. Before(x) \in SUBSET Before(y) /\ x \in Before(y) /\ x \notin Before(x)
    BY <1>3 DEF StrictOrder, Below
  <2>2. Before(x) # Before(y)
    BY <2>1
  <2>3. QED
    <3> HIDE DEF Before
    <3>1. Cardinality(Before(x)) <= Cardinality(Before(y)) /\ Cardinality(Before(x)) # Cardinality(Before(y))
      BY <1>2, <2>1, <2>2, FS_Subset
    <3>2. Cardinality(Before(x)) \in Int /\ Cardinality(Before(y)) \in Int
      BY <1>2
    <3>3. QED
      BY <3>1, <3>2
<1> HIDE DEF Before
<1>0. n = Cardinality(S)
  OBVIOUS
<1> HIDE DEF n
<1>4. rank \in Injection(S, 0..(n - 1))
  <2>1. rank \in [S -> 0..(n - 1)]
    BY <1>2
  <2>2. ASSUME NEW x \in S, NEW y \in S, rank[x] = rank[y] PROVE x = y
    <3>1. Cardinality(Before(x)) = Cardinality(Before(y))
      BY <2>2
    <3>2. Cardinality(Before(x)) \in Int
      BY <1>2
    <3>3. <<x, y>> \notin R /\ <<y, x>> \notin R
      BY <1>3, <3>1, <3>2
    <3>4. QED
      BY <3>3 DEF StrictOrder
  <2>3. QED
    BY <2>1, <2>2 DEF Injection, IsInjective
<1>5. rank \in Surjection(S, 0..(n - 1))
  <2>1. IsFiniteSet(0..(n - 1)) /\ Cardinality(0..(n - 1)) = n
    <3>1. n - 1 \in Int /\ (IF 0 > n - 1 THEN 0 ELSE (n - 1) - 0 + 1) = n
      BY <1>1
    <3>2. /\ IsFiniteSet(0..(n - 1))
          /\ Cardinality(0..(n - 1)) = IF 0 > n - 1 THEN 0 ELSE (n - 1) - 0 + 1
      <4>1. 0 \in Int /\ n - 1 \in Int
        BY <3>1
      <4>2. QED
        BY <4>1, FS_Interval, Zenon
    <3>3. QED
      BY <3>1, <3>2
  <2>2. QED
    BY <1>0, <1>4, <2>1, FS_Injection
<1>6. ASSUME NEW i \in 1..n
      PROVE  s[i] \in S /\ Cardinality(Before(s[i])) = i - 1
  <2>1. i - 1 \in 0..(n - 1)
    BY <1>1
  <2>2. \E x \in S : rank[x] = i - 1
    BY <1>5, <2>1 DEF Surjection
  <2>3. \E x \in S : Cardinality(Before(x)) = i - 1
    BY <2>2
  <2>4. QED
    BY <1>0, <2>3 DEF Before, Ranked
<1>7. ASSUME NEW x \in S
      PROVE  \E i \in 1..n : s[i] = x
  <2>1. rank[x] \in 0..(n - 1) /\ rank[x] = Cardinality(Before(x))
    BY <1>2
  <2>2. rank[x] + 1 \in 1..n /\ (rank[x] + 1) - 1 = rank[x]
    BY <1>1, <2>1
  <2>3. s[rank[x] + 1] \in S /\ rank[s[rank[x] + 1]] = rank[x]
    <3>1. s[rank[x] + 1] \in S /\ Cardinality(Before(s[rank[x] + 1])) = rank[x]
      BY <1>6, <2>2
    <3>2. QED
      BY <3>1
  <2>4. s[rank[x] + 1] = x
    BY <1>4, <2>3 DEF Injection, IsInjective
  <2>5. QED
    BY <2>2, <2>4
<1>8. ASSUME NEW i \in 1..n, NEW j \in 1..n, i < j
      PROVE  <<s[i], s[j]>> \in R
  <2>1. s[i] \in S /\ s[j] \in S /\ Cardinality(Before(s[i])) = i - 1 /\ Cardinality(Before(s[j])) = j - 1
    BY <1>6
  <2>2. s[i] # s[j] /\ <<s[j], s[i]>> \notin R
    <3>1. i - 1 < j - 1 /\ i - 1 \in Int /\ j - 1 \in Int /\ i - 1 # j - 1
      BY <1>1, <1>8
    <3>2. s[i] # s[j]
      BY <2>1, <3>1
    <3>3. ~(j - 1 < i - 1)
      BY <3>1
    <3>4. QED
      BY <1>3, <2>1, <3>2, <3>3
  <2>3. QED
    BY <2>1, <2>2 DEF StrictOrder
<1>9. \A i \in 1..n : s[i] \in S
  BY <1>6
<1>10. QED
  BY <1>0, <1>7, <1>8, <1>9 DEF Lists

\* Numbers in ascending order.
LEMMA OrderedNumbers ==
    ASSUME NEW S \in SUBSET Nat, IsFiniteSet(S)
    PROVE  /\ Cardinality(S) \in Nat
           /\ Ordered(S) \in [1..Cardinality(S) -> S]
           /\ \A x \in S : \E i \in 1..Cardinality(S) : Ordered(S)[i] = x
           /\ \A i, j \in 1..Cardinality(S) : i < j => Ordered(S)[i] < Ordered(S)[j]
<1> DEFINE R == {p \in Nat \X Nat : p[1] < p[2]}
           n == Cardinality(S)
<1>1. \A x, y \in Nat : <<x, y>> \in R <=> x < y
  OBVIOUS
<1>2. StrictOrder(R, S)
  BY <1>1 DEF StrictOrder
<1>3. Ordered(S) = [i \in 1..n |-> CHOOSE x \in S : Cardinality({y \in S : y < x}) = i - 1]
  BY Zenon DEF Ordered, InOrderOf
<1>4. Ranked(Ordered(S), R, S)
  <2>1. \A x \in S : {y \in S : y < x} = Below(R, S, x)
    BY <1>1 DEF Below
  <2> HIDE DEF R
  <2>2. \A i \in 1..n : Ordered(S)[i] = CHOOSE x \in S : Cardinality({y \in S : y < x}) = i - 1
    BY <1>3
  <2>3. QED
    BY <2>1, <2>2 DEF Ranked
<1> HIDE DEF R
<1>5. Lists(Ordered(S), R, S)
  BY <1>2, <1>4, RanksOrder
<1>6. Cardinality(S) \in Nat
  BY FS_CardinalityType
<1>7. QED
  BY <1>1, <1>3, <1>5, <1>6 DEF Lists

-----------------------------------------------------------------------------
(* Rows in canonical form *)

\* A row: its first and last number.
Rows == {i \in Nat \X Nat : i[1] <= i[2]}

\* out is the one list of ascending rows, no two of which touch, of the
\* numbers in S
Canonical(out, S) ==
    out \in Seq(Rows) /\ Ascending(out) /\ Numbers(ToSet(out)) = S

\* The ends of a row.
LEMMA RowType ==
    ASSUME NEW r \in Rows
    PROVE  r[1] \in Nat /\ r[2] \in Nat /\ r[1] <= r[2] /\ r = <<r[1], r[2]>>
BY DEF Rows

\* The numbers of a list of rows.
LEMMA InNumbers ==
    ASSUME NEW out \in Seq(Rows), NEW x
    PROVE  x \in Numbers(ToSet(out)) <=>
              \E i \in 1..Len(out) : x \in Nat /\ out[i][1] <= x /\ x <= out[i][2]
<1>1. DOMAIN out = 1..Len(out) /\ \A i \in 1..Len(out) : out[i] \in Rows
  BY LenProperties
<1>2. x \in Numbers(ToSet(out)) <=> \E i \in 1..Len(out) : x \in out[i][1]..out[i][2]
  BY <1>1 DEF Numbers, ToSet
<1>3. \A i \in 1..Len(out) :
        x \in out[i][1]..out[i][2] <=> (x \in Nat /\ out[i][1] <= x /\ x <= out[i][2])
  BY <1>1, RowType
<1>4. QED
  BY <1>2, <1>3

\* The empty list is the canonical form of the empty set.
LEMMA NoRows == Canonical(<<>>, {})
<1>1. <<>> \in Seq(Rows) /\ Len(<<>>) = 0
  BY EmptySeq
<1>2. DOMAIN <<>> = {}
  OBVIOUS
<1>3. ToSet(<<>>) = {}
  BY <1>2, Zenon DEF ToSet
<1>4. Numbers({}) = {}
  BY DEF Numbers
<1>5. QED
  <2> DEFINE none == <<>>
  <2>1. Len(none) = 0
    BY <1>1
  <2> HIDE DEF none
  <2>2. Ascending(none)
    BY <2>1 DEF Ascending
  <2>3. QED
    BY <1>1, <1>3, <1>4, <2>2 DEF Canonical, none

\* A row beyond the last one joins the list.
LEMMA AppendRow ==
    ASSUME NEW S, NEW out, Canonical(out, S), NEW r \in Rows,
           out # <<>> => Last(out)[2] + 1 < r[1]
    PROVE  /\ Canonical(Append(out, r), S \cup (r[1]..r[2]))
           /\ Append(out, r) # <<>>
           /\ Last(Append(out, r)) = r
<1> DEFINE new == Append(out, r)
           l == Len(out)
<1>1. out \in Seq(Rows) /\ l \in Nat /\ \A i \in 1..l : out[i] \in Rows
  BY LenProperties DEF Canonical
<1>2. /\ new \in Seq(Rows) /\ new # <<>> /\ Len(new) = l + 1
      /\ \A i \in 1..l : new[i] = out[i]
      /\ new[l + 1] = r
  BY <1>1, AppendProperties
<1> HIDE DEF new, l
<1>3. Last(new) = r
  BY <1>2 DEF Last
<1>4. ASSUME NEW i \in 1..(Len(new) - 1)
      PROVE  new[i][2] + 1 < new[i + 1][1]
  <2>1. CASE i < l
    <3>1. i \in 1..(Len(out) - 1) /\ i \in 1..l /\ i + 1 \in 1..l
      BY <1>1, <2>1 DEF l
    <3>2. out[i][2] + 1 < out[i + 1][1]
      BY <3>1 DEF Canonical, Ascending
    <3>3. QED
      BY <1>2, <3>1, <3>2
  <2>2. CASE i = l
    <3>1. i \in 1..l /\ out # <<>> /\ Last(out) = out[i]
      BY <1>1, <1>2, <2>2 DEF l, Last
    <3>2. QED
      BY <1>2, <2>2, <3>1
  <2>3. QED
    BY <1>1, <1>2, <2>1, <2>2
<1>5. Ascending(new)
  BY <1>4 DEF Ascending
<1>6. ASSUME NEW x
      PROVE  x \in Numbers(ToSet(new)) <=> x \in S \cup (r[1]..r[2])
  <2>1. x \in Numbers(ToSet(new)) <=>
          \E i \in 1..(l + 1) : x \in Nat /\ new[i][1] <= x /\ x <= new[i][2]
    BY <1>2, InNumbers
  <2>2. x \in S <=> \E i \in 1..l : x \in Nat /\ out[i][1] <= x /\ x <= out[i][2]
    BY <1>1, InNumbers DEF Canonical, l
  <2>3. x \in r[1]..r[2] <=> (x \in Nat /\ r[1] <= x /\ x <= r[2])
    BY RowType
  <2>4. \A i : i \in 1..(l + 1) <=> (i \in 1..l \/ i = l + 1)
    BY <1>1
  <2>5. QED
    BY <1>2, <2>1, <2>2, <2>3, <2>4
<1>7. QED
  BY <1>2, <1>3, <1>5, <1>6 DEF Canonical, new

\* Without its last row a canonical list is canonical still.
LEMMA FrontRows ==
    ASSUME NEW S, NEW out, Canonical(out, S), out # <<>>
    PROVE  /\ Last(out) \in Rows
           /\ \E F : /\ Canonical(Front(out), F)
                     /\ S = F \cup (Last(out)[1]..Last(out)[2])
           /\ Front(out) # <<>> => Last(Front(out))[2] + 1 < Last(out)[1]
<1> DEFINE front == Front(out)
           l == Len(out)
<1>1. out \in Seq(Rows) /\ l \in Nat \ {0} /\ \A i \in 1..l : out[i] \in Rows
  BY LenProperties, EmptySeq DEF Canonical
<1>2. /\ front \in Seq(Rows) /\ Len(front) = l - 1
      /\ \A i \in 1..(l - 1) : front[i] = out[i]
  <2>1. 1 \in Int /\ l - 1 \in Int /\ \A i \in 1..(l - 1) : out[i] \in Rows
    BY <1>1
  <2>2. /\ SubSeq(out, 1, l - 1) \in Seq(Rows)
        /\ Len(SubSeq(out, 1, l - 1)) = IF 1 <= l - 1 THEN (l - 1) - 1 + 1 ELSE 0
        /\ \A i \in 1..((l - 1) - 1 + 1) : SubSeq(out, 1, l - 1)[i] = out[1 + i - 1]
    BY <2>1, SubSeqProperties
  <2>3. front = SubSeq(out, 1, l - 1)
    BY DEF Front
  <2> HIDE DEF front, l
  <2>4. (IF 1 <= l - 1 THEN (l - 1) - 1 + 1 ELSE 0) = l - 1 /\ (l - 1) - 1 + 1 = l - 1
    BY <1>1
  <2>5. \A i \in 1..(l - 1) : 1 + i - 1 = i
    BY <1>1
  <2>6. QED
    BY <2>2, <2>3, <2>4, <2>5
<1>3. Last(out) = out[l]
  BY DEF Last
<1> HIDE DEF front, l
<1>4. Last(out) \in Rows
  BY <1>1, <1>3
<1>5. \A i \in 1..(l - 1) : out[i][2] + 1 < out[i + 1][1]
  BY DEF Canonical, Ascending, l
<1>6. Ascending(front)
  <2>1. SUFFICES ASSUME NEW i \in 1..(Len(front) - 1)
                 PROVE  front[i][2] + 1 < front[i + 1][1]
    BY DEF Ascending
  <2>2. i \in 1..(l - 1) /\ i + 1 \in 1..(l - 1)
    BY <1>1, <1>2
  <2>3. QED
    BY <1>2, <1>5, <2>2
<1>7. ASSUME front # <<>>
      PROVE  Last(front)[2] + 1 < Last(out)[1]
  <2>1. Len(front) \in Nat \ {0}
    BY <1>2, <1>7, EmptySeq
  <2>2. l - 1 \in 1..(l - 1) /\ (l - 1) + 1 = l
    BY <1>1, <1>2, <2>1
  <2>3. Last(front) = out[l - 1]
    BY <1>2, <2>2 DEF Last
  <2>4. QED
    BY <1>3, <1>5, <2>2, <2>3
<1>8. ASSUME NEW x
      PROVE  x \in S <=> x \in Numbers(ToSet(front)) \cup (Last(out)[1]..Last(out)[2])
  <2>1. x \in Numbers(ToSet(front)) <=>
          \E i \in 1..(l - 1) : x \in Nat /\ out[i][1] <= x /\ x <= out[i][2]
    BY <1>2, InNumbers
  <2>2. x \in S <=> \E i \in 1..l : x \in Nat /\ out[i][1] <= x /\ x <= out[i][2]
    BY <1>1, InNumbers DEF Canonical, l
  <2>3. x \in Last(out)[1]..Last(out)[2] <=> (x \in Nat /\ out[l][1] <= x /\ x <= out[l][2])
    BY <1>3, <1>4, RowType
  <2>4. \A i : i \in 1..l <=> (i \in 1..(l - 1) \/ i = l)
    BY <1>1
  <2>5. QED
    BY <2>1, <2>2, <2>3, <2>4
<1>9. Canonical(front, Numbers(ToSet(front)))
  BY <1>2, <1>6 DEF Canonical
<1>10. QED
  BY <1>4, <1>7, <1>8, <1>9 DEF front

\* The last row may grow upwards.
LEMMA WidenRow ==
    ASSUME NEW S, NEW out, Canonical(out, S), out # <<>>,
           NEW e \in Nat, Last(out)[2] <= e
    PROVE  LET wide == Append(Front(out), <<Last(out)[1], e>>)
           IN  /\ Canonical(wide, S \cup (Last(out)[2]..e))
               /\ wide # <<>>
               /\ Last(wide) = <<Last(out)[1], e>>
<1> DEFINE r == <<Last(out)[1], e>>
<1>1. PICK F : /\ Last(out) \in Rows
               /\ Canonical(Front(out), F)
               /\ S = F \cup (Last(out)[1]..Last(out)[2])
               /\ Front(out) # <<>> => Last(Front(out))[2] + 1 < Last(out)[1]
  BY FrontRows
<1>2. /\ r \in Rows /\ r[1] = Last(out)[1] /\ r[2] = e
      /\ Last(out)[1] \in Nat /\ Last(out)[2] \in Nat /\ Last(out)[1] <= Last(out)[2]
  BY <1>1, RowType DEF Rows
<1> HIDE DEF r
<1>3. /\ Canonical(Append(Front(out), r), F \cup (r[1]..r[2]))
      /\ Append(Front(out), r) # <<>>
      /\ Last(Append(Front(out), r)) = r
  BY <1>1, <1>2, AppendRow
<1>4. F \cup (r[1]..r[2]) = S \cup (Last(out)[2]..e)
  BY <1>1, <1>2
<1>5. QED
  BY <1>3, <1>4 DEF r

-----------------------------------------------------------------------------
(* Runs of numbers, and rows that merge *)

\* One number in ascending order joins the runs.
LEMMA ExtendIsExact ==
    ASSUME NEW S, NEW out, Canonical(out, S), NEW m \in Nat,
           out # <<>> => Last(out)[2] < m
    PROVE  /\ Canonical(Extend(out, m), S \cup {m})
           /\ Extend(out, m) # <<>>
           /\ Last(Extend(out, m))[2] = m
<1>1. CASE out # <<>> /\ m = Last(out)[2] + 1
  <2> DEFINE wide == Append(Front(out), <<Last(out)[1], m>>)
  <2>1. Extend(out, m) = wide
    BY <1>1 DEF Extend
  <2>2. PICK F : /\ Last(out) \in Rows
                 /\ S = F \cup (Last(out)[1]..Last(out)[2])
    BY <1>1, FrontRows
  <2>3. Last(out)[1] \in Nat /\ Last(out)[2] \in Nat /\ Last(out)[1] <= Last(out)[2]
    BY <2>2, RowType
  <2>4. Last(out)[2] <= m
    BY <1>1, <2>3
  <2>5. /\ Canonical(wide, S \cup (Last(out)[2]..m))
        /\ wide # <<>>
        /\ Last(wide) = <<Last(out)[1], m>>
    BY <1>1, <2>4, WidenRow
  <2>6. S \cup (Last(out)[2]..m) = S \cup {m}
    BY <1>1, <2>2, <2>3
  <2> HIDE DEF wide
  <2>7. QED
    BY <2>1, <2>5, <2>6
<1>2. CASE ~(out # <<>> /\ m = Last(out)[2] + 1)
  <2> DEFINE r == <<m, m>>
  <2>1. Extend(out, m) = Append(out, r)
    BY <1>2 DEF Extend
  <2>2. r \in Rows /\ r[1] = m /\ r[2] = m
    BY DEF Rows
  <2> HIDE DEF r
  <2>3. ASSUME out # <<>> PROVE Last(out)[2] + 1 < r[1]
    <3>1. Last(out) \in Rows
      BY <2>3, FrontRows
    <3>2. Last(out)[2] \in Nat
      BY <3>1, RowType
    <3>3. QED
      BY <1>2, <2>2, <2>3, <3>2
  <2>4. /\ Canonical(Append(out, r), S \cup (r[1]..r[2]))
        /\ Append(out, r) # <<>>
        /\ Last(Append(out, r)) = r
    BY <2>2, <2>3, AppendRow
  <2>5. r[1]..r[2] = {m}
    BY <2>2
  <2>6. QED
    BY <2>1, <2>2, <2>4, <2>5
<1>3. QED
  BY <1>1, <1>2

\* _contiguous returns the maximal runs of a set of numbers.
LEMMA ContiguousIsExact ==
    ASSUME NEW S \in SUBSET Nat, IsFiniteSet(S)
    PROVE  Canonical(Contiguous(S), S)
<1> DEFINE s == Ordered(S)
           n == Cardinality(S)
           Done(k) == {s[i] : i \in 1..k}
<1>1. /\ n \in Nat
      /\ s \in [1..n -> S]
      /\ \A x \in S : \E i \in 1..n : s[i] = x
      /\ \A i, j \in 1..n : i < j => s[i] < s[j]
  BY OrderedNumbers
<1>2. s \in [1..n -> Nat]
  BY <1>1
<1>3. PICK h : /\ h[0] = <<>> /\ h[n] = Contiguous(S)
               /\ \A k \in 1..n : h[k] = Extend(h[k - 1], s[k])
  BY <1>1, <1>2, ExtendPasses
<1> HIDE DEF s, n
<1> DEFINE Inv(k) == /\ Canonical(h[k], Done(k))
                     /\ k # 0 => h[k] # <<>> /\ Last(h[k])[2] = s[k]
                     /\ k = 0 => h[k] = <<>>
<1> DEFINE Good == {k \in 0..n : Inv(k)}
<1>4. 0 \in Good
  <2>1. Done(0) = {}
    OBVIOUS
  <2>2. 0 \in 0..n
    BY <1>1
  <2>3. QED
    BY <1>3, <2>1, <2>2, NoRows
<1>5. ASSUME NEW k \in 0..(n - 1), k \in Good
      PROVE  k + 1 \in Good
  <2>1. k \in Nat /\ k + 1 \in 1..n /\ (k + 1) - 1 = k
    BY <1>1
  <2>2. /\ s[k + 1] \in Nat /\ h[k + 1] = Extend(h[k], s[k + 1])
        /\ Canonical(h[k], Done(k))
    BY <1>2, <1>3, <1>5, <2>1
  <2>3. Done(k + 1) = Done(k) \cup {s[k + 1]}
    <3>1. \A i : i \in 1..(k + 1) <=> (i \in 1..k \/ i = k + 1)
      BY <2>1
    <3>2. QED
      BY <3>1
  <2>4. ASSUME h[k] # <<>> PROVE Last(h[k])[2] < s[k + 1]
    <3>1. k # 0 /\ Last(h[k])[2] = s[k]
      BY <1>5, <2>4
    <3>2. k \in 1..n /\ k < k + 1
      BY <1>1, <2>1, <3>1
    <3>3. QED
      BY <1>1, <2>1, <3>1, <3>2
  <2> HIDE DEF Done
  <2>5. /\ Canonical(h[k + 1], Done(k + 1))
        /\ h[k + 1] # <<>>
        /\ Last(h[k + 1])[2] = s[k + 1]
    <3> DEFINE m == s[k + 1]
    <3>1. m \in Nat /\ (h[k] # <<>> => Last(h[k])[2] < m) /\ h[k + 1] = Extend(h[k], m)
      BY <2>2, <2>4
    <3> HIDE DEF m
    <3>2. /\ Canonical(Extend(h[k], m), Done(k) \cup {m})
          /\ Extend(h[k], m) # <<>>
          /\ Last(Extend(h[k], m))[2] = m
      BY <2>2, <3>1, ExtendIsExact
    <3>3. QED
      BY <2>3, <3>1, <3>2 DEF m
  <2>6. k + 1 \in 0..n /\ k + 1 # 0
    BY <1>1, <2>1
  <2>7. QED
    BY <2>5, <2>6
<1> HIDE DEF Inv
<1>6. 0..n \subseteq Good
  <2> HIDE DEF Good
  <2> QED
    BY <1>1, <1>4, <1>5, Climb
<1>7. n \in 0..n
  BY <1>1
<1>8. Inv(n)
  BY <1>6, <1>7
<1>9. Done(n) = S
  BY <1>1
<1>10. QED
  BY <1>3, <1>8, <1>9 DEF Inv

\* The ends of an interval of sequence numbers.
LEMMA IntervalType ==
    ASSUME NEW i \in Intervals
    PROVE  /\ i[1] \in 0..MaxSeq /\ i[2] \in 0..MaxSeq /\ i[1] <= i[2]
           /\ i \in Rows /\ i = <<i[1], i[2]>>
           /\ i[1] \in Nat /\ i[2] \in Nat
BY RangesAssumption DEF Intervals, Seqs, Rows

\* The numbers of a set of intervals.
LEMMA TableNumbers ==
    ASSUME NEW table \in SUBSET Intervals, NEW x
    PROVE  x \in Numbers(table) <=> \E r \in table : x \in Nat /\ r[1] <= x /\ x <= r[2]
<1>1. \A r \in table : x \in r[1]..r[2] <=> (x \in Nat /\ r[1] <= x /\ x <= r[2])
  BY IntervalType
<1>2. QED
  BY <1>1 DEF Numbers

\* _merge_coverage adds one interval to a table and keeps its rows apart.
LEMMA MergeIsExact ==
    ASSUME NEW table \in SUBSET Intervals, Separated(table), NEW new \in Intervals
    PROVE  /\ MergeCoverage(table, new) \in SUBSET Intervals
           /\ Separated(MergeCoverage(table, new))
           /\ Numbers(MergeCoverage(table, new)) = Numbers(table) \cup (new[1]..new[2])
<1> DEFINE rows == {r \in table : r[2] >= new[1] - 1 /\ r[1] <= new[2] + 1}
           firsts == {new[1]} \cup {r[1] : r \in rows}
           lasts == {new[2]} \cup {r[2] : r \in rows}
           lo == Min(firsts)
           hi == Max(lasts)
           merged == MergeCoverage(table, new)
<1>1. MaxSeq \in Nat
  BY RangesAssumption
<1>2. firsts \in SUBSET (0..MaxSeq) /\ lasts \in SUBSET (0..MaxSeq)
  BY IntervalType
<1>3. lo \in firsts /\ \A y \in firsts : lo <= y
  <2>1. firsts \in SUBSET Nat /\ firsts # {}
    BY <1>2
  <2>2. QED
    <3> HIDE DEF firsts
    <3> QED
      BY <2>1, MinIsMember
<1>4. hi \in lasts /\ \A y \in lasts : y <= hi
  <2>1. lasts # {}
    OBVIOUS
  <2>2. QED
    <3> HIDE DEF lasts
    <3> QED
      BY <1>1, <1>2, <2>1, MaxIsMember
<1>5. merged = (table \ rows) \cup {<<lo, hi>>}
  BY DEF MergeCoverage
<1>6. lo = new[1] \/ \E r \in rows : lo = r[1]
  BY <1>3
<1>7. hi = new[2] \/ \E r \in rows : hi = r[2]
  BY <1>4
<1>8. /\ lo <= new[1] /\ \A r \in rows : lo <= r[1]
      /\ new[2] <= hi /\ \A r \in rows : r[2] <= hi
  BY <1>3, <1>4
<1>9. lo \in 0..MaxSeq /\ hi \in 0..MaxSeq
  BY <1>2, <1>3, <1>4
<1> HIDE DEF lo, hi, merged, firsts, lasts
<1>10. <<lo, hi>> \in Intervals
  <2>1. lo <= hi
    BY <1>1, <1>8, <1>9, IntervalType
  <2>2. QED
    BY <1>9, <2>1 DEF Intervals, Seqs
<1>11. merged \in SUBSET Intervals
  BY <1>5, <1>10
<1>12. ASSUME NEW a \in table, a \notin rows
       PROVE  a[2] + 1 < lo \/ hi + 1 < a[1]
  <2>1. a[1] \in Nat /\ a[2] \in Nat /\ a[1] <= a[2] /\ new[1] \in Nat /\ new[2] \in Nat /\ new[1] <= new[2]
    BY IntervalType
  <2>2. \A r \in rows : /\ r[1] \in Nat /\ r[2] \in Nat /\ r[1] <= r[2]
                        /\ r[2] >= new[1] - 1 /\ r[1] <= new[2] + 1
                        /\ a[2] + 1 < r[1] \/ r[2] + 1 < a[1]
    BY <1>12, IntervalType DEF Separated
  <2>3. a[2] < new[1] - 1 \/ a[1] > new[2] + 1
    BY <1>12, <2>1
  <2>4. CASE a[2] < new[1] - 1
    <3>1. \A r \in rows : a[2] + 1 < r[1]
      BY <2>1, <2>2, <2>4
    <3>2. QED
      BY <1>6, <2>1, <2>4, <3>1
  <2>5. CASE a[1] > new[2] + 1
    <3>1. \A r \in rows : r[2] + 1 < a[1]
      BY <2>1, <2>2, <2>5
    <3>2. QED
      BY <1>7, <2>1, <2>5, <3>1
  <2>6. QED
    BY <2>3, <2>4, <2>5
<1>13. Separated(merged)
  <2>1. SUFFICES ASSUME NEW a \in merged, NEW b \in merged, a # b
                 PROVE  a[2] + 1 < b[1] \/ b[2] + 1 < a[1]
    BY DEF Separated
  <2>2. <<lo, hi>>[1] = lo /\ <<lo, hi>>[2] = hi
    OBVIOUS
  <2>3. CASE a \in table \ rows /\ b \in table \ rows
    BY <2>1, <2>3 DEF Separated
  <2>4. CASE a \in table \ rows /\ b = <<lo, hi>>
    BY <1>12, <2>2, <2>4
  <2>5. CASE a = <<lo, hi>> /\ b \in table \ rows
    BY <1>12, <2>2, <2>5
  <2>6. QED
    BY <1>5, <2>1, <2>3, <2>4, <2>5
<1>14. ASSUME NEW x
       PROVE  x \in Numbers(merged) <=> x \in Numbers(table) \cup (new[1]..new[2])
  <2>1. x \in Numbers(merged) <=> \E r \in merged : x \in Nat /\ r[1] <= x /\ x <= r[2]
    BY <1>11, TableNumbers
  <2>2. x \in Numbers(table) <=> \E r \in table : x \in Nat /\ r[1] <= x /\ x <= r[2]
    BY TableNumbers
  <2>3. x \in new[1]..new[2] <=> (x \in Nat /\ new[1] <= x /\ x <= new[2])
    BY IntervalType
  <2>4. <<lo, hi>>[1] = lo /\ <<lo, hi>>[2] = hi /\ <<lo, hi>> \in merged
    BY <1>5
  <2>5. \A r \in rows : r \in table /\ r[1] \in Nat /\ r[2] \in Nat /\ r[2] >= new[1] - 1 /\ r[1] <= new[2] + 1
    BY IntervalType
  <2>6. new[1] \in Nat /\ new[2] \in Nat /\ lo \in Nat /\ hi \in Nat
    BY <1>9, IntervalType
  <2>7. ASSUME x \in Nat, lo <= x, x <= hi
        PROVE  x \in Numbers(table) \cup (new[1]..new[2])
    <3>1. CASE x < new[1]
      <4>1. PICK r \in rows : lo = r[1]
        BY <1>6, <2>6, <2>7, <3>1
      <4>2. r[1] <= x /\ x <= r[2]
        BY <2>5, <2>6, <2>7, <3>1, <4>1
      <4>3. QED
        BY <2>2, <2>5, <2>7, <4>2
    <3>2. CASE x > new[2]
      <4>1. PICK r \in rows : hi = r[2]
        BY <1>7, <2>6, <2>7, <3>2
      <4>2. r[1] <= x /\ x <= r[2]
        BY <2>5, <2>6, <2>7, <3>2, <4>1
      <4>3. QED
        BY <2>2, <2>5, <2>7, <4>2
    <3>3. QED
      BY <2>3, <2>6, <2>7, <3>1, <3>2
  <2>8. ASSUME x \in Numbers(merged)
        PROVE  x \in Numbers(table) \cup (new[1]..new[2])
    <3>1. PICK r \in merged : x \in Nat /\ r[1] <= x /\ x <= r[2]
      BY <2>1, <2>8
    <3>2. CASE r \in table
      BY <2>2, <3>1, <3>2
    <3>3. CASE r = <<lo, hi>>
      BY <2>4, <2>7, <3>1, <3>3
    <3>4. QED
      BY <1>5, <3>2, <3>3
  <2>9. ASSUME x \in Numbers(table)
        PROVE  x \in Numbers(merged)
    <3>1. PICK r \in table : x \in Nat /\ r[1] <= x /\ x <= r[2]
      BY <2>2, <2>9
    <3>2. CASE r \in rows
      <4>1. lo <= x /\ x <= hi
        BY <1>8, <2>5, <2>6, <3>1, <3>2
      <4>2. QED
        BY <2>1, <2>4, <3>1, <4>1
    <3>3. CASE r \notin rows
      BY <1>5, <2>1, <3>1, <3>3
    <3>4. QED
      BY <3>2, <3>3
  <2>10. ASSUME x \in new[1]..new[2]
         PROVE  x \in Numbers(merged)
    <3>1. x \in Nat /\ lo <= x /\ x <= hi
      BY <1>8, <2>3, <2>6, <2>10
    <3>2. QED
      BY <2>1, <2>4, <3>1
  <2>11. QED
    BY <2>8, <2>9, <2>10
<1>15. QED
  BY <1>11, <1>13, <1>14 DEF merged

\* What a program's loop computes, pass by pass: the merge of several intervals.
LEMMA MergePasses ==
    ASSUME NEW table \in SUBSET Intervals, Separated(table),
           NEW n \in Nat, NEW news \in [1..n -> Intervals]
    PROVE  \E h : /\ h[0] = table /\ h[n] = MergeAll(table, news)
                  /\ \A k \in 1..n : h[k] = MergeCoverage(h[k - 1], news[k])
<1> DEFINE A == {t \in SUBSET Intervals : Separated(t)}
           G == [i \in 1..n |-> [a \in A |-> MergeCoverage(a, news[i])]]
<1>1. \A a \in A : \A new \in Intervals : MergeCoverage(a, new) \in A
  BY MergeIsExact
<1>2. table \in A
  OBVIOUS
<1> HIDE DEF A
<1>3. G \in [1..n -> [A -> A]]
  BY <1>1
<1>4. PICK g \in [SUBSET (1..n) -> A] : Folds(g, n, table, G)
  <2> HIDE DEF G
  <2> QED
    BY <1>2, <1>3, FoldExists
<1>5. ASSUME NEW s \in SUBSET (1..n), s # {}
      PROVE  g[s] = MergeCoverage(g[s \ {Max(s)}], news[Max(s)])
  <2>1. Max(s) \in 1..n
    <3>1. s \in SUBSET (0..n)
      OBVIOUS
    <3>2. QED
      BY <1>5, <3>1, MaxIsMember
  <2>2. g[s] = G[Max(s)][g[s \ {Max(s)}]]
    BY <1>4, <1>5 DEF Folds
  <2>3. QED
    BY <2>1, <2>2
<1>6. g[{}] = table
  BY <1>4 DEF Folds
<1>7. g = [s \in SUBSET (1..n) |->
              IF s = {} THEN table ELSE MergeCoverage(g[s \ {Max(s)}], news[Max(s)])]
  BY <1>5, <1>6
<1> DEFINE iter == CHOOSE f : f = [s \in SUBSET (1..n) |->
              IF s = {} THEN table ELSE MergeCoverage(f[s \ {Max(s)}], news[Max(s)])]
<1>8. iter = [s \in SUBSET (1..n) |->
              IF s = {} THEN table ELSE MergeCoverage(iter[s \ {Max(s)}], news[Max(s)])]
  BY <1>7
<1>9. MergeAll(table, news) = iter[1..n]
  <2>1. DOMAIN news = 1..n
    OBVIOUS
  <2>2. QED
    BY <2>1, Zenon DEF MergeAll, FoldLeft, MapThenFoldSet
<1> HIDE DEF iter
<1> DEFINE h == [k \in 0..n |-> iter[1..k]]
<1>10. h[0] = table
  <2>1. 1..0 = {} /\ {} \in SUBSET (1..n)
    OBVIOUS
  <2>2. QED
    BY <1>8, <2>1
<1>11. ASSUME NEW k \in 1..n
       PROVE  h[k] = MergeCoverage(h[k - 1], news[k])
  <2>1. 1..k \in SUBSET (1..n) /\ 1..k # {} /\ Max(1..k) = k /\ (1..k) \ {k} = 1..(k - 1)
    BY PrefixFacts
  <2>2. iter[1..k] = MergeCoverage(iter[(1..k) \ {Max(1..k)}], news[Max(1..k)])
    BY <1>8, <2>1
  <2>3. k \in 0..n /\ k - 1 \in 0..n
    OBVIOUS
  <2>4. QED
    BY <2>1, <2>2, <2>3
<1>12. h[n] = MergeAll(table, news)
  BY <1>9
<1>13. QED
  BY <1>10, <1>11, <1>12

\* Rows of archived numbers are rows of the table's type.
LEMMA RowsOfSeqs ==
    ASSUME NEW S \in SUBSET Seqs, NEW out, Canonical(out, S)
    PROVE  out \in [1..Len(out) -> Intervals] /\ Len(out) \in Nat
<1>1. out \in Seq(Rows) /\ Len(out) \in Nat /\ out \in [1..Len(out) -> Rows]
  BY LenProperties DEF Canonical
<1>2. ASSUME NEW i \in 1..Len(out)
      PROVE  out[i] \in Intervals
  <2>1. out[i] \in Rows
    BY <1>1
  <2>2. out[i][1] \in Nat /\ out[i][2] \in Nat /\ out[i][1] <= out[i][2] /\ out[i] = <<out[i][1], out[i][2]>>
    BY <2>1, RowType
  <2>3. out[i][1] \in Numbers(ToSet(out)) /\ out[i][2] \in Numbers(ToSet(out))
    BY <1>1, <2>2, InNumbers
  <2>4. out[i][1] \in Seqs /\ out[i][2] \in Seqs
    BY <2>3 DEF Canonical
  <2>5. QED
    BY <2>1, <2>2, <2>4 DEF Intervals, Rows
<1>3. QED
  BY <1>1, <1>2

\* The runs of a response, merged one after the other, add its numbers.
LEMMA MergeAllIsExact ==
    ASSUME NEW table \in SUBSET Intervals, Separated(table),
           NEW S \in SUBSET Seqs, NEW news, Canonical(news, S)
    PROVE  /\ MergeAll(table, news) \in SUBSET Intervals
           /\ Separated(MergeAll(table, news))
           /\ Numbers(MergeAll(table, news)) = Numbers(table) \cup S
<1> DEFINE n == Len(news)
           Done(k) == {x \in Nat : \E i \in 1..k : news[i][1] <= x /\ x <= news[i][2]}
<1>1. news \in [1..n -> Intervals] /\ n \in Nat
  BY RowsOfSeqs
<1>2. PICK h : /\ h[0] = table /\ h[n] = MergeAll(table, news)
               /\ \A k \in 1..n : h[k] = MergeCoverage(h[k - 1], news[k])
  BY <1>1, MergePasses
<1>3. Done(n) = S
  <2>1. ASSUME NEW x PROVE x \in Numbers(ToSet(news)) <=> x \in Done(n)
    BY InNumbers DEF Canonical
  <2>2. QED
    BY <2>1 DEF Canonical
<1> HIDE DEF n
<1> DEFINE Inv(k) == /\ h[k] \in SUBSET Intervals
                     /\ Separated(h[k])
                     /\ Numbers(h[k]) = Numbers(table) \cup Done(k)
           Good == {k \in 0..n : Inv(k)}
<1>4. 0 \in Good
  <2>1. Done(0) = {} /\ 0 \in 0..n
    BY <1>1
  <2>2. QED
    BY <1>2, <2>1
<1>5. ASSUME NEW k \in 0..(n - 1), k \in Good
      PROVE  k + 1 \in Good
  <2>1. k + 1 \in 1..n /\ (k + 1) - 1 = k /\ k + 1 \in 0..n /\ k \in Nat
    BY <1>1
  <2> DEFINE new == news[k + 1]
  <2>2. new \in Intervals /\ h[k + 1] = MergeCoverage(h[k], new)
    BY <1>1, <1>2, <2>1
  <2>3. Done(k + 1) = Done(k) \cup (new[1]..new[2])
    <3>1. \A i : i \in 1..(k + 1) <=> (i \in 1..k \/ i = k + 1)
      BY <2>1
    <3>2. \A x : x \in new[1]..new[2] <=> (x \in Nat /\ new[1] <= x /\ x <= new[2])
      BY <2>2, IntervalType
    <3>3. QED
      BY <3>1, <3>2
  <2>4. /\ h[k] \in SUBSET Intervals /\ Separated(h[k])
        /\ Numbers(h[k]) = Numbers(table) \cup Done(k)
    BY <1>5
  <2> HIDE DEF new, Done
  <2>5. Inv(k + 1)
    BY <2>2, <2>3, <2>4, MergeIsExact
  <2>6. QED
    BY <2>1, <2>5
<1> HIDE DEF Inv
<1>6. 0..n \subseteq Good
  <2> HIDE DEF Good
  <2> QED
    BY <1>1, <1>4, <1>5, Climb
<1>7. Inv(n)
  BY <1>1, <1>6
<1>8. QED
  BY <1>2, <1>3, <1>7 DEF Inv

-----------------------------------------------------------------------------
(* The coverage table after every response *)

\* What the tables hold.
TypeInv ==
    /\ advertised \in SUBSET Intervals
    /\ present \in SUBSET Seqs
    /\ coverage \in SUBSET Intervals
    /\ request \in Intervals

\* The inductive invariant of all four theorems.
IInv == TypeInv /\ CoverageIsExact

\* The tables are empty at first.
LEMMA InitExact == Init => IInv
<1> SUFFICES ASSUME Init PROVE IInv
  OBVIOUS
<1>1. advertised \in SUBSET Intervals
  BY DEF Init, kSubset
<1>2. <<0, 0>> \in Intervals
  BY RangesAssumption DEF Intervals, Seqs
<1>3. QED
  BY <1>1, <1>2 DEF Init, IInv, TypeInv, CoverageIsExact, Numbers, Separated

\* A stored response keeps the coverage table exact.
LEMMA NextExact == IInv /\ [Next]_vars => IInv'
<1> SUFFICES ASSUME IInv, [Next]_vars PROVE IInv'
  OBVIOUS
<1>1. CASE UNCHANGED vars
  BY <1>1 DEF vars, IInv, TypeInv, CoverageIsExact, Numbers, Separated
<1>2. ASSUME NEW i \in Intervals, NEW rows \in SUBSET (i[1]..i[2]), CommitRows(i[1], i[2], rows)
      PROVE  IInv'
  <2> DEFINE S == present' \cap (i[1]..i[2])
  <2>1. i[1]..i[2] \subseteq Seqs
    BY IntervalType, RangesAssumption DEF Seqs
  <2>2. /\ present \in SUBSET Seqs /\ coverage \in SUBSET Intervals /\ Separated(coverage)
        /\ Numbers(coverage) = present /\ advertised \in SUBSET Intervals
    BY DEF IInv, TypeInv, CoverageIsExact
  <2>3. /\ present' = present \cup rows /\ advertised' = advertised
        /\ coverage' = MergeAll(coverage, Contiguous(S))
        /\ request' = <<i[1], i[2]>>
    BY <1>2 DEF CommitRows
  <2>4. present' \in SUBSET Seqs /\ S \in SUBSET Seqs /\ present \cup S = present'
    BY <2>1, <2>2, <2>3
  <2>5. S \in SUBSET Nat /\ IsFiniteSet(S)
    <3>1. IsFiniteSet(Seqs)
      BY FS_Interval, RangesAssumption DEF Seqs
    <3>2. Seqs \subseteq Nat
      BY RangesAssumption DEF Seqs
    <3> HIDE DEF S
    <3>3. QED
      BY <2>4, <3>1, <3>2, FS_Subset
  <2> HIDE DEF S
  <2>6. Canonical(Contiguous(S), S)
    BY <2>5, ContiguousIsExact
  <2>7. /\ coverage' \in SUBSET Intervals
        /\ Separated(coverage')
        /\ Numbers(coverage') = present'
    BY <2>2, <2>3, <2>4, <2>6, MergeAllIsExact
  <2>8. request' \in Intervals
    BY <2>3, IntervalType
  <2>9. QED
    BY <2>2, <2>3, <2>4, <2>7, <2>8 DEF IInv, TypeInv, CoverageIsExact, Separated, Numbers
<1>3. QED
  BY <1>1, <1>2 DEF Next

(* Whatever responses arrive in whatever order, the coverage table claims   *)
(* exactly the stored numbers, in runs that do not touch (_merge_coverage   *)
(* over the runs of each stored response).                                  *)
THEOREM CoverageExact == Spec => []CoverageIsExact
<1>1. Init => IInv
  BY InitExact
<1>2. IInv /\ [Next]_vars => IInv'
  BY NextExact
<1>3. IInv => CoverageIsExact
  BY DEF IInv
<1>4. QED
  BY <1>1, <1>2, <1>3, PTL DEF Spec

-----------------------------------------------------------------------------
(* The union of ranges *)

\* There are finitely many intervals, so a table can be read in order.
LEMMA IntervalsAreFinite == IsFiniteSet(Intervals)
<1>1. IsFiniteSet(Seqs)
  BY FS_Interval, RangesAssumption DEF Seqs
<1>2. IsFiniteSet(Seqs \X Seqs)
  BY <1>1, FS_Product
<1>3. Intervals \in SUBSET (Seqs \X Seqs)
  BY DEF Intervals
<1>4. QED
  BY <1>2, <1>3, FS_Subset

\* Rows in ascending order.
LEMMA OrderedRows ==
    ASSUME NEW S \in SUBSET Intervals
    PROVE  /\ Cardinality(S) \in Nat
           /\ InOrder(S) \in [1..Cardinality(S) -> S]
           /\ \A x \in S : \E i \in 1..Cardinality(S) : InOrder(S)[i] = x
           /\ \A i, j \in 1..Cardinality(S) : i < j => Precedes(InOrder(S)[i], InOrder(S)[j])
<1> DEFINE R == {p \in Intervals \X Intervals : Precedes(p[1], p[2])}
           n == Cardinality(S)
<1>0. IsFiniteSet(S)
  BY IntervalsAreFinite, FS_Subset
<1>1. \A x, y \in Intervals : <<x, y>> \in R <=> Precedes(x, y)
  OBVIOUS
<1>2. StrictOrder(R, S)
  <2> HIDE DEF R
  <2>1. \A x \in S : x[1] \in Nat /\ x[2] \in Nat /\ x = <<x[1], x[2]>> /\ x \in Intervals
    BY IntervalType
  <2>2. \A x \in S : ~Precedes(x, x)
    BY <2>1 DEF Precedes
  <2>3. \A x, y \in S : x = y \/ Precedes(x, y) \/ Precedes(y, x)
    BY <2>1 DEF Precedes
  <2>4. \A x, y, z \in S : Precedes(x, y) /\ Precedes(y, z) => Precedes(x, z)
    BY <2>1 DEF Precedes
  <2>5. QED
    BY <1>1, <2>1, <2>2, <2>3, <2>4 DEF StrictOrder
<1>3. InOrder(S) = [i \in 1..n |-> CHOOSE x \in S : Cardinality({y \in S : Precedes(y, x)}) = i - 1]
  BY Zenon DEF InOrder, InOrderOf
<1>4. Ranked(InOrder(S), R, S)
  <2>1. \A x \in S : {y \in S : Precedes(y, x)} = Below(R, S, x)
    BY <1>1 DEF Below
  <2> HIDE DEF R
  <2>2. \A i \in 1..n : InOrder(S)[i] = CHOOSE x \in S : Cardinality({y \in S : Precedes(y, x)}) = i - 1
    BY <1>3
  <2>3. QED
    BY <2>1, <2>2 DEF Ranked
<1> HIDE DEF R
<1>5. Lists(InOrder(S), R, S)
  BY <1>0, <1>2, <1>4, RanksOrder
<1>6. Cardinality(S) \in Nat
  BY <1>0, FS_CardinalityType
<1>7. QED
  BY <1>1, <1>3, <1>5, <1>6 DEF Lists

\* What a program's loop computes, pass by pass: the union of ranges.
LEMMA AbsorbPasses ==
    ASSUME NEW ranges, NEW n \in Nat, InOrder(ranges) \in [1..n -> Intervals]
    PROVE  \E h : /\ h[0] = <<>> /\ h[n] = NormalizeRanges(ranges)
                  /\ \A k \in 1..n : h[k] = Absorb(h[k - 1], InOrder(ranges)[k])
<1> DEFINE A == Seq(Nat \X Nat)
           seq == InOrder(ranges)
           G == [i \in 1..n |-> [a \in A |-> Absorb(a, seq[i])]]
<1>1. ASSUME NEW a \in A, NEW r \in Intervals
      PROVE  Absorb(a, r) \in A
  <2>0. r \in Nat \X Nat /\ r[2] \in Nat
    BY IntervalType DEF Rows
  <2>1. CASE a # <<>> /\ r[1] <= Last(a)[2] + 1
    <3>1. Len(a) \in Nat \ {0} /\ Last(a) \in Nat \X Nat
      BY <2>1, EmptySeq DEF Last
    <3>2. \A i \in 1..(Len(a) - 1) : a[i] \in Nat \X Nat
      BY <3>1, LenProperties
    <3>3. Front(a) \in A
      BY <3>1, <3>2, SubSeqProperties DEF Front
    <3>4. <<Last(a)[1], Larger(r[2], Last(a)[2])>> \in Nat \X Nat
      BY <2>0, <3>1 DEF Larger
    <3>5. QED
      BY <2>1, <3>3, <3>4, AppendProperties DEF Absorb
  <2>2. CASE ~(a # <<>> /\ r[1] <= Last(a)[2] + 1)
    <3>1. Absorb(a, r) = Append(a, r)
      BY <2>2 DEF Absorb
    <3>2. QED
      BY <2>0, <3>1, AppendProperties
  <2>3. QED
    BY <2>1, <2>2
<1>2. <<>> \in A
  BY EmptySeq
<1> HIDE DEF A
<1>3. G \in [1..n -> [A -> A]]
  BY <1>1
<1>4. PICK g \in [SUBSET (1..n) -> A] : Folds(g, n, <<>>, G)
  <2> HIDE DEF G
  <2> QED
    BY <1>2, <1>3, FoldExists
<1>5. ASSUME NEW s \in SUBSET (1..n), s # {}
      PROVE  g[s] = Absorb(g[s \ {Max(s)}], seq[Max(s)])
  <2>1. Max(s) \in 1..n
    <3>1. s \in SUBSET (0..n)
      OBVIOUS
    <3>2. QED
      BY <1>5, <3>1, MaxIsMember
  <2>2. g[s] = G[Max(s)][g[s \ {Max(s)}]]
    BY <1>4, <1>5 DEF Folds
  <2>3. QED
    BY <2>1, <2>2
<1>6. g[{}] = <<>>
  BY <1>4 DEF Folds
<1>7. g = [s \in SUBSET (1..n) |->
              IF s = {} THEN <<>> ELSE Absorb(g[s \ {Max(s)}], seq[Max(s)])]
  BY <1>5, <1>6
<1> DEFINE iter == CHOOSE f : f = [s \in SUBSET (1..n) |->
              IF s = {} THEN <<>> ELSE Absorb(f[s \ {Max(s)}], seq[Max(s)])]
<1>8. iter = [s \in SUBSET (1..n) |->
              IF s = {} THEN <<>> ELSE Absorb(iter[s \ {Max(s)}], seq[Max(s)])]
  BY <1>7
<1>9. NormalizeRanges(ranges) = iter[1..n]
  <2>1. DOMAIN seq = 1..n
    OBVIOUS
  <2>2. QED
    BY <2>1, Zenon DEF NormalizeRanges, FoldLeft, MapThenFoldSet
<1> HIDE DEF iter
<1> DEFINE h == [k \in 0..n |-> iter[1..k]]
<1>10. h[0] = <<>>
  <2>1. 1..0 = {} /\ {} \in SUBSET (1..n)
    OBVIOUS
  <2>2. QED
    BY <1>8, <2>1
<1>11. ASSUME NEW k \in 1..n
       PROVE  h[k] = Absorb(h[k - 1], seq[k])
  <2>1. 1..k \in SUBSET (1..n) /\ 1..k # {} /\ Max(1..k) = k /\ (1..k) \ {k} = 1..(k - 1)
    BY PrefixFacts
  <2>2. iter[1..k] = Absorb(iter[(1..k) \ {Max(1..k)}], seq[Max(1..k)])
    BY <1>8, <2>1
  <2>3. k \in 0..n /\ k - 1 \in 0..n
    OBVIOUS
  <2>4. QED
    BY <2>1, <2>2, <2>3
<1>12. h[n] = NormalizeRanges(ranges)
  BY <1>9
<1>13. QED
  BY <1>10, <1>11, <1>12

\* A range that starts no earlier than the last one joins the union.
LEMMA AbsorbIsExact ==
    ASSUME NEW S, NEW out, Canonical(out, S), NEW r \in Rows,
           out # <<>> => Last(out)[1] <= r[1]
    PROVE  /\ Canonical(Absorb(out, r), S \cup (r[1]..r[2]))
           /\ Absorb(out, r) # <<>>
           /\ Last(Absorb(out, r))[1] <= r[1]
<1>0. r[1] \in Nat /\ r[2] \in Nat /\ r[1] <= r[2]
  BY RowType
<1>1. CASE out # <<>> /\ r[1] <= Last(out)[2] + 1
  <2> DEFINE e == Larger(r[2], Last(out)[2])
             wide == Append(Front(out), <<Last(out)[1], e>>)
  <2>1. Absorb(out, r) = wide
    BY <1>1 DEF Absorb
  <2>2. PICK F : /\ Last(out) \in Rows
                 /\ S = F \cup (Last(out)[1]..Last(out)[2])
    BY <1>1, FrontRows
  <2>3. Last(out)[1] \in Nat /\ Last(out)[2] \in Nat /\ Last(out)[1] <= Last(out)[2]
    BY <2>2, RowType
  <2>4. e \in Nat /\ Last(out)[2] <= e /\ r[2] <= e /\ (e = r[2] \/ e = Last(out)[2])
    BY <1>0, <2>3 DEF Larger
  <2> HIDE DEF e
  <2>5. /\ Canonical(wide, S \cup (Last(out)[2]..e))
        /\ wide # <<>>
        /\ Last(wide) = <<Last(out)[1], e>>
    BY <1>1, <2>4, WidenRow
  <2>6. S \cup (Last(out)[2]..e) = S \cup (r[1]..r[2])
    <3>1. ASSUME NEW x \in Last(out)[2]..e PROVE x \in S \cup (r[1]..r[2])
      BY <1>0, <1>1, <2>2, <2>3, <2>4
    <3>2. ASSUME NEW x \in r[1]..r[2] PROVE x \in S \cup (Last(out)[2]..e)
      BY <1>0, <1>1, <2>2, <2>3, <2>4
    <3>3. QED
      BY <3>1, <3>2
  <2> HIDE DEF wide
  <2>7. Last(wide)[1] <= r[1]
    BY <1>1, <2>5
  <2>8. QED
    BY <2>1, <2>5, <2>6, <2>7
<1>2. CASE ~(out # <<>> /\ r[1] <= Last(out)[2] + 1)
  <2>1. Absorb(out, r) = Append(out, r)
    BY <1>2 DEF Absorb
  <2>2. ASSUME out # <<>> PROVE Last(out)[2] + 1 < r[1]
    <3>1. Last(out) \in Rows
      BY <2>2, FrontRows
    <3>2. Last(out)[2] \in Nat
      BY <3>1, RowType
    <3>3. QED
      BY <1>0, <1>2, <2>2, <3>2
  <2>3. /\ Canonical(Append(out, r), S \cup (r[1]..r[2]))
        /\ Append(out, r) # <<>>
        /\ Last(Append(out, r)) = r
    BY <2>2, AppendRow
  <2>4. QED
    BY <1>0, <2>1, <2>3
<1>3. QED
  BY <1>1, <1>2

\* normalize_ranges returns the maximal runs of the advertised numbers.
LEMMA NormalizeIsExact ==
    ASSUME NEW ranges \in SUBSET Intervals
    PROVE  Canonical(NormalizeRanges(ranges), Numbers(ranges))
<1> DEFINE s == InOrder(ranges)
           n == Cardinality(ranges)
           Done(k) == {x \in Nat : \E i \in 1..k : s[i][1] <= x /\ x <= s[i][2]}
<1>1. /\ n \in Nat
      /\ s \in [1..n -> ranges]
      /\ \A x \in ranges : \E i \in 1..n : s[i] = x
      /\ \A i, j \in 1..n : i < j => Precedes(s[i], s[j])
  BY OrderedRows
<1>2. s \in [1..n -> Intervals]
  BY <1>1
<1>3. PICK h : /\ h[0] = <<>> /\ h[n] = NormalizeRanges(ranges)
               /\ \A k \in 1..n : h[k] = Absorb(h[k - 1], s[k])
  BY <1>1, <1>2, AbsorbPasses
<1> HIDE DEF s, n
<1> DEFINE Inv(k) == /\ Canonical(h[k], Done(k))
                     /\ k # 0 => h[k] # <<>> /\ Last(h[k])[1] <= s[k][1]
                     /\ k = 0 => h[k] = <<>>
           Good == {k \in 0..n : Inv(k)}
<1>4. 0 \in Good
  <2>1. Done(0) = {}
    OBVIOUS
  <2>2. 0 \in 0..n
    BY <1>1
  <2>3. QED
    BY <1>3, <2>1, <2>2, NoRows
<1>5. ASSUME NEW k \in 0..(n - 1), k \in Good
      PROVE  k + 1 \in Good
  <2>1. k \in Nat /\ k + 1 \in 1..n /\ (k + 1) - 1 = k
    BY <1>1
  <2> DEFINE r == s[k + 1]
  <2>2. /\ r \in Intervals /\ h[k + 1] = Absorb(h[k], r)
        /\ Canonical(h[k], Done(k))
    BY <1>2, <1>3, <1>5, <2>1
  <2>3. Done(k + 1) = Done(k) \cup (r[1]..r[2])
    <3>1. \A i : i \in 1..(k + 1) <=> (i \in 1..k \/ i = k + 1)
      BY <2>1
    <3>2. \A x : x \in r[1]..r[2] <=> (x \in Nat /\ r[1] <= x /\ x <= r[2])
      BY <2>2, IntervalType
    <3>3. QED
      BY <3>1, <3>2
  <2>4. ASSUME h[k] # <<>> PROVE Last(h[k])[1] <= r[1]
    <3>1. k # 0 /\ Last(h[k])[1] <= s[k][1]
      BY <1>5, <2>4
    <3>2. k \in 1..n /\ k < k + 1
      BY <1>1, <2>1, <3>1
    <3>3. s[k] \in Intervals /\ s[k][1] <= r[1]
      <4>1. Precedes(s[k], r) /\ s[k] \in Intervals
        BY <1>1, <1>2, <2>1, <3>2
      <4>2. s[k][1] \in Nat /\ r[1] \in Nat
        BY <2>2, <4>1, IntervalType
      <4>3. QED
        BY <4>1, <4>2 DEF Precedes
    <3>4. Last(h[k])[1] \in Nat
      <4>1. Last(h[k]) \in Rows
        BY <2>2, <2>4, FrontRows
      <4>2. QED
        BY <4>1, RowType
    <3>5. s[k][1] \in Nat /\ r[1] \in Nat
      BY <2>2, <3>3, IntervalType
    <3>6. QED
      BY <3>1, <3>3, <3>4, <3>5
  <2>5. r \in Rows
    BY <2>2, IntervalType
  <2> HIDE DEF Done, r
  <2>6. /\ Canonical(Absorb(h[k], r), Done(k) \cup (r[1]..r[2]))
        /\ Absorb(h[k], r) # <<>>
        /\ Last(Absorb(h[k], r))[1] <= r[1]
    BY <2>2, <2>4, <2>5, AbsorbIsExact
  <2>7. k + 1 \in 0..n /\ k + 1 # 0
    BY <1>1, <2>1
  <2>8. QED
    BY <2>2, <2>3, <2>6, <2>7 DEF r
<1> HIDE DEF Inv
<1>6. 0..n \subseteq Good
  <2> HIDE DEF Good
  <2> QED
    BY <1>1, <1>4, <1>5, Climb
<1>7. Inv(n)
  BY <1>1, <1>6
<1>8. Done(n) = Numbers(ranges)
  <2>1. ASSUME NEW x PROVE x \in Done(n) <=> x \in Numbers(ranges)
    BY <1>1, TableNumbers
  <2>2. QED
    BY <2>1
<1>9. QED
  BY <1>3, <1>7, <1>8 DEF Inv

-----------------------------------------------------------------------------
(* What is missing from a request *)

\* Where a scan stands, and what it has found missing.
Scans == [current : Nat, missing : Seq(Nat \X Int)]

\* What a program's loop computes, pass by pass: the scan for what is missing.
LEMMA SubtractPasses ==
    ASSUME NEW first \in Nat, NEW last \in Nat,
           NEW n \in Nat, NEW covered \in [1..n -> Intervals]
    PROVE  \E h : /\ h[0] = [current |-> first, missing |-> <<>>]
                  /\ h[n] = Remainder(first, last, covered)
                  /\ \A k \in 1..n : h[k] = Subtract(last, h[k - 1], covered[k])
<1> DEFINE base == [current |-> first, missing |-> <<>>]
           G == [i \in 1..n |-> [a \in Scans |-> Subtract(last, a, covered[i])]]
<1>1. ASSUME NEW a \in Scans, NEW c \in Intervals
      PROVE  Subtract(last, a, c) \in Scans
  <2>1. c[1] \in Nat /\ c[2] \in Nat /\ a.current \in Nat /\ a.missing \in Seq(Nat \X Int)
    BY IntervalType DEF Scans
  <2>2. Larger(a.current, c[2] + 1) \in Nat
    BY <2>1 DEF Larger
  <2>3. <<a.current, Smaller(last, c[1] - 1)>> \in Nat \X Int
    BY <2>1 DEF Smaller
  <2>4. Append(a.missing, <<a.current, Smaller(last, c[1] - 1)>>) \in Seq(Nat \X Int)
    BY <2>1, <2>3, AppendProperties
  <2>5. QED
    BY <2>1, <2>2, <2>4 DEF Subtract, Scans
<1>2. base \in Scans
  BY EmptySeq DEF Scans
<1>3. G \in [1..n -> [Scans -> Scans]]
  BY <1>1
<1>4. PICK g \in [SUBSET (1..n) -> Scans] : Folds(g, n, base, G)
  <2> HIDE DEF G, base
  <2> QED
    BY <1>2, <1>3, FoldExists
<1>5. ASSUME NEW s \in SUBSET (1..n), s # {}
      PROVE  g[s] = Subtract(last, g[s \ {Max(s)}], covered[Max(s)])
  <2>1. Max(s) \in 1..n
    <3>1. s \in SUBSET (0..n)
      OBVIOUS
    <3>2. QED
      BY <1>5, <3>1, MaxIsMember
  <2>2. g[s] = G[Max(s)][g[s \ {Max(s)}]]
    BY <1>4, <1>5 DEF Folds
  <2>3. QED
    BY <2>1, <2>2
<1>6. g[{}] = base
  BY <1>4 DEF Folds
<1>7. g = [s \in SUBSET (1..n) |->
              IF s = {} THEN base ELSE Subtract(last, g[s \ {Max(s)}], covered[Max(s)])]
  BY <1>5, <1>6
<1> DEFINE iter == CHOOSE f : f = [s \in SUBSET (1..n) |->
              IF s = {} THEN base ELSE Subtract(last, f[s \ {Max(s)}], covered[Max(s)])]
<1>8. iter = [s \in SUBSET (1..n) |->
              IF s = {} THEN base ELSE Subtract(last, iter[s \ {Max(s)}], covered[Max(s)])]
  BY <1>7
<1>9. Remainder(first, last, covered) = iter[1..n]
  <2>1. DOMAIN covered = 1..n
    OBVIOUS
  <2>2. QED
    BY <2>1, Zenon DEF Remainder, FoldLeft, MapThenFoldSet
<1> HIDE DEF iter, base
<1> DEFINE h == [k \in 0..n |-> iter[1..k]]
<1>10. h[0] = base
  <2>1. 1..0 = {} /\ {} \in SUBSET (1..n)
    OBVIOUS
  <2>2. QED
    BY <1>8, <2>1
<1>11. ASSUME NEW k \in 1..n
       PROVE  h[k] = Subtract(last, h[k - 1], covered[k])
  <2>1. 1..k \in SUBSET (1..n) /\ 1..k # {} /\ Max(1..k) = k /\ (1..k) \ {k} = 1..(k - 1)
    BY PrefixFacts
  <2>2. iter[1..k] = Subtract(last, iter[(1..k) \ {Max(1..k)}], covered[Max(1..k)])
    BY <1>8, <2>1
  <2>3. k \in 0..n /\ k - 1 \in 0..n
    OBVIOUS
  <2>4. QED
    BY <2>1, <2>2, <2>3
<1>12. h[n] = Remainder(first, last, covered)
  BY <1>9
<1>13. QED
  BY <1>10, <1>11, <1>12 DEF base

\* The rows of a table that meet a request, in order.
LEMMA CoverageForIsOrdered ==
    ASSUME NEW table \in SUBSET Intervals, Separated(table), NEW q \in Intervals
    PROVE  LET c == CoverageFor(table, q[1], q[2])
           IN  \E n \in Nat :
                  /\ c \in [1..n -> Intervals]
                  /\ \A i \in 1..n : c[i] \in table /\ c[i][2] >= q[1] /\ c[i][1] <= q[2]
                  /\ \A r \in table : r[2] >= q[1] /\ r[1] <= q[2] => \E i \in 1..n : c[i] = r
                  /\ \A i, j \in 1..n : i < j => c[i][2] + 1 < c[j][1]
<1> DEFINE rows == {r \in table : r[2] >= q[1] /\ r[1] <= q[2]}
           c == CoverageFor(table, q[1], q[2])
           n == Cardinality(rows)
<1>1. rows \in SUBSET Intervals
  OBVIOUS
<1>2. c = InOrder(rows)
  BY DEF CoverageFor
<1>3. /\ n \in Nat
      /\ c \in [1..n -> rows]
      /\ \A x \in rows : \E i \in 1..n : c[i] = x
      /\ \A i, j \in 1..n : i < j => Precedes(c[i], c[j])
  <2> HIDE DEF rows, c
  <2> QED
    BY <1>1, <1>2, OrderedRows
<1> HIDE DEF c, n
<1>4. ASSUME NEW i \in 1..n, NEW j \in 1..n, i < j
      PROVE  c[i][2] + 1 < c[j][1]
  <2>1. c[i] \in rows /\ c[j] \in rows /\ Precedes(c[i], c[j])
    BY <1>3, <1>4
  <2>2. /\ c[i][1] \in Nat /\ c[i][2] \in Nat /\ c[i][1] <= c[i][2]
        /\ c[j][1] \in Nat /\ c[j][2] \in Nat /\ c[j][1] <= c[j][2]
    BY <2>1, IntervalType
  <2>3. c[i] # c[j] /\ c[i][1] <= c[j][1]
    BY <2>1, <2>2 DEF Precedes
  <2>4. c[i][2] + 1 < c[j][1] \/ c[j][2] + 1 < c[i][1]
    BY <2>1, <2>3 DEF Separated
  <2>5. QED
    BY <2>2, <2>3, <2>4
<1>5. QED
  BY <1>3, <1>4 DEF c

\* The scan for what q asks for and P lacks has reached acc.current.
Scanned(acc, q, P) ==
    /\ acc.current \in Nat /\ q[1] <= acc.current
    /\ Canonical(acc.missing, {x \in (q[1]..q[2]) \ P : x < acc.current})
    /\ acc.missing # <<>> => Last(acc.missing)[2] + 1 < acc.current

\* Row c is the next one that it meets.
IsNext(c, acc, q, P) ==
    /\ c[1] <= q[2]
    /\ c[1]..c[2] \subseteq P
    /\ \A x \in P : ~(acc.current <= x /\ x < c[1])

\* One pass of the scan.
LEMMA SubtractStep ==
    ASSUME NEW P \in SUBSET Nat, NEW q \in Intervals, NEW c \in Intervals,
           NEW acc, Scanned(acc, q, P), IsNext(c, acc, q, P),
           NEW next, next = Subtract(q[2], acc, c)
    PROVE  /\ Scanned(next, q, P) /\ acc.current <= next.current
           /\ c[2] < next.current \/ q[2] < next.current
<1> USE DEF Scanned, IsNext
<1>1. /\ q[1] \in Nat /\ q[2] \in Nat /\ q[1] <= q[2]
      /\ c[1] \in Nat /\ c[2] \in Nat /\ c[1] <= c[2]
  BY IntervalType
<1> DEFINE Holes(cur) == {x \in (q[1]..q[2]) \ P : x < cur}
<1>2. CASE Skips(q[2], acc, c)
  <2>1. next = acc
    BY <1>2 DEF Subtract
  <2>2. c[2] < acc.current \/ q[2] < acc.current
    BY <1>1, <1>2 DEF Skips
  <2>3. QED
    BY <2>1, <2>2
<1>3. CASE ~Skips(q[2], acc, c)
  <2>1. c[2] >= acc.current /\ acc.current <= q[2]
    BY <1>1, <1>3 DEF Skips
  <2>2. next.current = c[2] + 1
    BY <1>1, <1>3, <2>1 DEF Subtract, Larger
  <2>3. CASE c[1] > acc.current
    <3> DEFINE r == <<acc.current, c[1] - 1>>
    <3>1. next.missing = Append(acc.missing, r)
      <4>1. Smaller(q[2], c[1] - 1) = c[1] - 1
        BY <1>1 DEF Smaller
      <4>2. QED
        BY <1>3, <2>3, <4>1 DEF Subtract
    <3>2. r \in Rows /\ r[1] = acc.current /\ r[2] = c[1] - 1
      BY <1>1, <2>3 DEF Rows
    <3> HIDE DEF r
    <3>3. /\ Canonical(next.missing, Holes(acc.current) \cup (r[1]..r[2]))
          /\ next.missing # <<>>
          /\ Last(next.missing) = r
      <4> DEFINE out == acc.missing
                 S == Holes(acc.current)
      <4>1. Canonical(out, S) /\ (out # <<>> => Last(out)[2] + 1 < r[1])
        BY <3>2
      <4> HIDE DEF out, S
      <4>2. /\ Canonical(Append(out, r), S \cup (r[1]..r[2]))
            /\ Append(out, r) # <<>>
            /\ Last(Append(out, r)) = r
        BY <3>2, <4>1, AppendRow
      <4>3. next.missing = Append(out, r)
        BY <3>1 DEF out
      <4>4. QED
        BY <4>2, <4>3 DEF S
    <3>4. Holes(next.current) = Holes(acc.current) \cup (r[1]..r[2])
      <4>1. ASSUME NEW x \in Holes(next.current)
            PROVE  x \in Holes(acc.current) \cup (r[1]..r[2])
        <5>1. x \in Nat /\ x \notin P /\ x < c[2] + 1 /\ x \in q[1]..q[2]
          BY <1>1, <2>2
        <5>2. x < c[1]
          BY <1>1, <5>1
        <5>3. QED
          BY <1>1, <3>2, <5>1, <5>2
      <4>2. ASSUME NEW x \in r[1]..r[2]
            PROVE  x \in Holes(next.current)
        <5>1. x \in Nat /\ acc.current <= x /\ x < c[1]
          BY <1>1, <3>2
        <5>2. x \notin P /\ x \in q[1]..q[2] /\ x < next.current
          BY <1>1, <2>2, <5>1
        <5>3. QED
          BY <5>2
      <4>3. ASSUME NEW x \in Holes(acc.current)
            PROVE  x \in Holes(next.current)
        BY <1>1, <2>1, <2>2
      <4>4. QED
        BY <4>1, <4>2, <4>3
    <3>5. Last(next.missing)[2] + 1 < next.current
      BY <1>1, <2>2, <3>2, <3>3
    <3>6. Canonical(next.missing, Holes(next.current))
      <4> HIDE DEF Holes
      <4> QED
        BY <3>3, <3>4
    <3>7. QED
      BY <1>1, <2>1, <2>2, <3>5, <3>6
  <2>4. CASE ~(c[1] > acc.current)
    <3>1. next.missing = acc.missing
      BY <1>3, <2>4 DEF Subtract
    <3>2. Holes(next.current) = Holes(acc.current)
      <4>1. ASSUME NEW x \in Holes(next.current)
            PROVE  x \in Holes(acc.current)
        <5>1. x \in Nat /\ x \notin P /\ x < c[2] + 1 /\ x \in q[1]..q[2]
          BY <1>1, <2>2
        <5>2. x < c[1]
          BY <1>1, <5>1
        <5>3. QED
          BY <1>1, <2>4, <5>1, <5>2
      <4>2. ASSUME NEW x \in Holes(acc.current)
            PROVE  x \in Holes(next.current)
        BY <1>1, <2>1, <2>2
      <4>3. QED
        BY <4>1, <4>2
    <3>3. acc.missing # <<>> => Last(acc.missing)[2] \in Nat
      <4>1. acc.missing # <<>> => Last(acc.missing) \in Rows
        BY FrontRows
      <4>2. QED
        BY <4>1, RowType
    <3>4. next.missing # <<>> => Last(next.missing)[2] + 1 < next.current
      BY <1>1, <2>1, <2>2, <3>1, <3>3
    <3>5. Canonical(next.missing, Holes(next.current))
      <4>1. Canonical(acc.missing, Holes(acc.current))
        OBVIOUS
      <4> HIDE DEF Holes
      <4>2. QED
        BY <3>1, <3>2, <4>1
    <3>6. QED
      BY <1>1, <2>1, <2>2, <3>4, <3>5
  <2>5. QED
    BY <2>3, <2>4
<1>4. QED
  BY <1>2, <1>3

\* The scan's result is the canonical form of what the table lacks.
LEMMA SubtractIsExact ==
    ASSUME NEW table \in SUBSET Intervals, Separated(table), NEW q \in Intervals
    PROVE  Canonical(SubtractCoverage(q[1], q[2], CoverageFor(table, q[1], q[2])),
                     (q[1]..q[2]) \ Numbers(table))
<1> DEFINE c == CoverageFor(table, q[1], q[2])
           P == Numbers(table)
           Holes(cur) == {x \in (q[1]..q[2]) \ P : x < cur}
<1>1. PICK n \in Nat :
          /\ c \in [1..n -> Intervals]
          /\ \A i \in 1..n : c[i] \in table /\ c[i][2] >= q[1] /\ c[i][1] <= q[2]
          /\ \A r \in table : r[2] >= q[1] /\ r[1] <= q[2] => \E i \in 1..n : c[i] = r
          /\ \A i, j \in 1..n : i < j => c[i][2] + 1 < c[j][1]
  BY CoverageForIsOrdered
<1>2. q[1] \in Nat /\ q[2] \in Nat /\ q[1] <= q[2]
  BY IntervalType
<1>3. P \in SUBSET Nat /\ \A x : x \in P <=> \E r \in table : x \in Nat /\ r[1] <= x /\ x <= r[2]
  BY TableNumbers
<1>4. \A i \in 1..n : /\ c[i] \in Intervals /\ c[i][1] \in Nat /\ c[i][2] \in Nat /\ c[i][1] <= c[i][2]
                      /\ c[i][1]..c[i][2] \subseteq P
  <2>1. SUFFICES ASSUME NEW i \in 1..n
                 PROVE  /\ c[i] \in Intervals /\ c[i][1] \in Nat /\ c[i][2] \in Nat /\ c[i][1] <= c[i][2]
                        /\ c[i][1]..c[i][2] \subseteq P
    OBVIOUS
  <2>2. c[i] \in Intervals /\ c[i] \in table
    BY <1>1
  <2>3. QED
    BY <1>3, <2>2, IntervalType
<1>5. \A x \in P : x \in q[1]..q[2] => \E i \in 1..n : c[i][1] <= x /\ x <= c[i][2]
  <2>1. SUFFICES ASSUME NEW x \in P, x \in q[1]..q[2]
                 PROVE  \E i \in 1..n : c[i][1] <= x /\ x <= c[i][2]
    OBVIOUS
  <2>2. PICK r \in table : x \in Nat /\ r[1] <= x /\ x <= r[2]
    BY <1>3
  <2>3. r[2] >= q[1] /\ r[1] <= q[2]
    BY <1>2, <2>1, <2>2, IntervalType
  <2>4. QED
    BY <1>1, <2>2, <2>3
<1>6. PICK h : /\ h[0] = [current |-> q[1], missing |-> <<>>]
               /\ h[n] = Remainder(q[1], q[2], c)
               /\ \A k \in 1..n : h[k] = Subtract(q[2], h[k - 1], c[k])
  BY <1>1, <1>2, SubtractPasses
<1> HIDE DEF c, P
<1> DEFINE Inv(k) == /\ h[k].current \in Nat /\ q[1] <= h[k].current
                     /\ Canonical(h[k].missing, Holes(h[k].current))
                     /\ h[k].missing # <<>> => Last(h[k].missing)[2] + 1 < h[k].current
                     /\ \A i \in 1..k : c[i][2] < h[k].current \/ q[2] < h[k].current
           Good == {k \in 0..n : Inv(k)}
<1>7. 0 \in Good
  <2>1. Holes(q[1]) = {}
    BY <1>2
  <2>2. h[0].current = q[1] /\ h[0].missing = <<>>
    BY <1>6
  <2> HIDE DEF Holes
  <2>3. Canonical(h[0].missing, Holes(h[0].current))
    BY <2>1, <2>2, NoRows
  <2>4. QED
    BY <1>2, <2>2, <2>3
<1>8. ASSUME NEW k \in 0..(n - 1), k \in Good
      PROVE  k + 1 \in Good
  <2>1. k \in Nat /\ k + 1 \in 1..n /\ (k + 1) - 1 = k /\ k + 1 \in 0..n
    BY <1>1
  <2> DEFINE acc == h[k]
             next == h[k + 1]
             row == c[k + 1]
  <2>2. next = Subtract(q[2], acc, row)
    BY <1>6, <2>1
  <2>3. /\ row \in Intervals /\ row[1] <= q[2] /\ row[1]..row[2] \subseteq P
        /\ row[1] \in Nat /\ row[2] \in Nat
    BY <1>1, <1>4, <2>1
  <2>4. Inv(k)
    BY <1>8
  <2>5. ASSUME NEW x \in P, acc.current <= x, x < row[1] PROVE FALSE
    <3>1. acc.current \in Nat /\ q[1] <= acc.current /\ x \in Nat
      BY <1>3, <2>4
    <3>2. x \in q[1]..q[2] /\ ~(q[2] < acc.current)
      BY <1>2, <2>3, <2>5, <3>1
    <3>3. PICK i \in 1..n : c[i][1] <= x /\ x <= c[i][2]
      BY <1>5, <3>2
    <3>4. c[i][1] \in Nat /\ c[i][2] \in Nat /\ c[i][1] <= c[i][2]
      BY <1>4
    <3>5. ~(k + 1 < i) /\ i # k + 1
      <4>1. k + 1 < i => row[2] + 1 < c[i][1]
        BY <1>1, <2>1
      <4>2. row[1] <= row[2]
        BY <1>4, <2>1
      <4>3. QED
        BY <2>3, <2>5, <3>1, <3>3, <3>4, <4>1, <4>2
    <3>6. i \in 1..k
      BY <2>1, <3>5
    <3>7. c[i][2] < acc.current
      BY <2>4, <3>2, <3>6
    <3>8. QED
      BY <2>5, <3>1, <3>3, <3>4, <3>7
  <2>6. \A x \in P : acc.current <= x /\ x < row[1] => FALSE
    BY <2>5
  <2>7. /\ Scanned(acc, q, P) /\ acc.current \in Nat
        /\ \A i \in 1..k : c[i][2] < acc.current \/ q[2] < acc.current
    BY <2>4 DEF Scanned
  <2> HIDE DEF acc, next, row, Inv
  <2>8. /\ Scanned(next, q, P) /\ acc.current <= next.current
        /\ row[2] < next.current \/ q[2] < next.current
    <3>1. IsNext(row, acc, q, P)
      BY <2>3, <2>6 DEF IsNext
    <3>2. QED
      BY <1>3, <2>2, <2>3, <2>7, <3>1, SubtractStep
  <2>9. \A i \in 1..(k + 1) : c[i][2] < next.current \/ q[2] < next.current
    <3>1. SUFFICES ASSUME NEW i \in 1..(k + 1)
                   PROVE  c[i][2] < next.current \/ q[2] < next.current
      OBVIOUS
    <3>2. CASE i = k + 1
      BY <2>8, <3>2 DEF row
    <3>3. CASE i # k + 1
      <4>1. i \in 1..k /\ i \in 1..n
        BY <1>1, <2>1, <3>3
      <4>2. c[i][2] \in Nat
        BY <1>4, <4>1
      <4>3. QED
        BY <1>2, <2>7, <2>8, <4>1, <4>2 DEF Scanned
    <3>4. QED
      BY <3>2, <3>3
  <2>10. Inv(k + 1)
    BY <2>8, <2>9 DEF Inv, next, Scanned
  <2>11. QED
    BY <2>1, <2>10
<1> HIDE DEF Inv
<1>9. 0..n \subseteq Good
  <2> HIDE DEF Good
  <2> QED
    BY <1>1, <1>7, <1>8, Climb
<1>10. Inv(n)
  BY <1>1, <1>9
<1> DEFINE end == h[n]
<1>11. /\ end.current \in Nat /\ q[1] <= end.current
       /\ Canonical(end.missing, Holes(end.current))
       /\ end.missing # <<>> => Last(end.missing)[2] + 1 < end.current
       /\ \A i \in 1..n : c[i][2] < end.current \/ q[2] < end.current
  BY <1>10 DEF Inv
<1>12. SubtractCoverage(q[1], q[2], c) =
          IF end.current <= q[2] THEN Append(end.missing, <<end.current, q[2]>>)
          ELSE end.missing
  BY <1>6 DEF SubtractCoverage
<1> HIDE DEF end
<1>13. CASE end.current <= q[2]
  <2> DEFINE r == <<end.current, q[2]>>
             out == end.missing
             S == Holes(end.current)
  <2>1. r \in Rows /\ r[1] = end.current /\ r[2] = q[2]
    BY <1>2, <1>11, <1>13 DEF Rows
  <2>2. Canonical(out, S) /\ (out # <<>> => Last(out)[2] + 1 < r[1])
    BY <1>11
  <2>3. S \cup (r[1]..r[2]) = (q[1]..q[2]) \ P
    <3>1. ASSUME NEW x \in r[1]..r[2] PROVE x \in (q[1]..q[2]) \ P
      <4>1. x \in Nat /\ end.current <= x /\ x <= q[2] /\ x \in q[1]..q[2]
        BY <1>2, <1>11, <2>1
      <4>2. x \notin P
        <5>1. SUFFICES ASSUME x \in P PROVE FALSE
          OBVIOUS
        <5>2. PICK i \in 1..n : c[i][1] <= x /\ x <= c[i][2]
          BY <1>5, <4>1, <5>1
        <5>3. c[i][2] < end.current /\ c[i][2] \in Nat
          BY <1>2, <1>4, <1>11, <1>13
        <5>4. QED
          BY <1>11, <4>1, <5>2, <5>3
      <4>3. QED
        BY <4>1, <4>2
    <3>2. ASSUME NEW x \in (q[1]..q[2]) \ P PROVE x \in S \cup (r[1]..r[2])
      BY <1>2, <1>11, <2>1
    <3>3. QED
      BY <3>1, <3>2
  <2> HIDE DEF r, out, S
  <2>4. Canonical(Append(out, r), S \cup (r[1]..r[2]))
    BY <2>1, <2>2, AppendRow
  <2>5. SubtractCoverage(q[1], q[2], c) = Append(out, r)
    BY <1>12, <1>13 DEF out, r
  <2>6. QED
    BY <2>3, <2>4, <2>5 DEF c, P
<1>14. CASE ~(end.current <= q[2])
  <2>1. Holes(end.current) = (q[1]..q[2]) \ P
    BY <1>2, <1>11, <1>14
  <2> HIDE DEF Holes
  <2>2. SubtractCoverage(q[1], q[2], c) = end.missing
    BY <1>12, <1>14
  <2>3. QED
    BY <1>11, <2>1, <2>2 DEF c, P
<1>15. QED
  BY <1>13, <1>14

-----------------------------------------------------------------------------
(* A set of numbers has one canonical form *)

\* The rows of a canonical list.
LEMMA RowFacts ==
    ASSUME NEW S, NEW out, Canonical(out, S), NEW i \in 1..Len(out)
    PROVE  out[i] \in Rows /\ out[i][1] \in Nat /\ out[i][2] \in Nat /\ out[i][1] <= out[i][2]
<1>1. out[i] \in Rows
  BY LenProperties DEF Canonical
<1>2. QED
  BY <1>1, RowType

\* Any two rows of it, not only neighbours, are apart.
LEMMA RowsApart ==
    ASSUME NEW S, NEW out, Canonical(out, S),
           NEW i \in 1..Len(out), NEW j \in 1..Len(out), i < j
    PROVE  out[i][2] + 1 < out[j][1]
<1> DEFINE n == Len(out) - (i + 1)
           Good == {d \in 0..n : out[i][2] + 1 < out[i + 1 + d][1]}
<1>1. Len(out) \in Nat /\ n \in Nat
  BY LenProperties DEF Canonical
<1>2. \A k \in 1..(Len(out) - 1) : out[k][2] + 1 < out[k + 1][1]
  BY DEF Canonical, Ascending
<1>3. 0 \in Good
  BY <1>1, <1>2
<1>4. ASSUME NEW d \in 0..(n - 1), d \in Good
      PROVE  d + 1 \in Good
  <2>1. i + 1 + d \in 1..(Len(out) - 1) /\ i + 1 + (d + 1) = (i + 1 + d) + 1 /\ d + 1 \in 0..n
    BY <1>1
  <2> DEFINE k == i + 1 + d
  <2>2. k \in 1..(Len(out) - 1) /\ k \in 1..Len(out) /\ k + 1 \in 1..Len(out)
    BY <1>1, <2>1
  <2>3. out[i][2] + 1 < out[k][1]
    BY <1>4
  <2> HIDE DEF k
  <2>4. out[k][2] + 1 < out[k + 1][1]
    BY <1>2, <2>2
  <2>5. /\ out[k][1] \in Nat /\ out[k][2] \in Nat /\ out[k][1] <= out[k][2]
        /\ out[k + 1][1] \in Nat /\ out[i][2] \in Nat
    BY <2>2, RowFacts
  <2>6. out[i][2] + 1 < out[k + 1][1]
    <3>1. \A x, y, z, u \in Nat : x + 1 < y /\ y <= z /\ z + 1 < u => x + 1 < u
      OBVIOUS
    <3>2. QED
      BY <2>3, <2>4, <2>5, <3>1
  <2>7. QED
    BY <2>1, <2>6 DEF k
<1> HIDE DEF n
<1>5. 0..n \subseteq Good
  <2> HIDE DEF Good
  <2> QED
    BY <1>1, <1>3, <1>4, Climb
<1>6. j - (i + 1) \in 0..n /\ i + 1 + (j - (i + 1)) = j
  BY <1>1 DEF n
<1>7. QED
  BY <1>5, <1>6

\* The numbers that a canonical list stands for.
LEMMA InCanonical ==
    ASSUME NEW S, NEW out, Canonical(out, S), NEW x
    PROVE  x \in S <=> \E i \in 1..Len(out) : x \in Nat /\ out[i][1] <= x /\ x <= out[i][2]
BY InNumbers DEF Canonical

\* After equal rows, neither list goes on with a row that starts or ends first.
LEMMA NoEarlierRow ==
    ASSUME NEW S, NEW a, NEW b, Canonical(a, S), Canonical(b, S),
           NEW k \in Nat, k + 1 \in 1..Len(a), \A i \in 1..k : i \in 1..Len(b) /\ a[i] = b[i]
    PROVE  /\ k + 1 \in 1..Len(b)
           /\ b[k + 1][1] <= a[k + 1][1]
           /\ b[k + 1][1] = a[k + 1][1] => a[k + 1][2] <= b[k + 1][2]
<1>1. Len(a) \in Nat /\ Len(b) \in Nat
  BY LenProperties DEF Canonical
<1> DEFINE r == a[k + 1]
<1>2. r[1] \in Nat /\ r[2] \in Nat /\ r[1] <= r[2]
  BY RowFacts
<1>3. r[1] \in S
  BY <1>2, InCanonical
<1>4. PICK j \in 1..Len(b) : b[j][1] <= r[1] /\ r[1] <= b[j][2]
  BY <1>3, InCanonical
<1>5. b[j][1] \in Nat /\ b[j][2] \in Nat
  BY RowFacts
<1>6. ~(j <= k)
  <2>1. SUFFICES ASSUME j <= k PROVE FALSE
    OBVIOUS
  <2>2. j \in 1..k /\ j \in 1..Len(a) /\ j < k + 1
    BY <1>1, <2>1
  <2>3. a[j][2] + 1 < r[1]
    BY <2>2, RowsApart
  <2>4. a[j] = b[j]
    BY <2>2
  <2>5. QED
    BY <1>2, <1>4, <1>5, <2>3, <2>4
<1>7. k + 1 \in 1..Len(b) /\ k + 1 <= j
  BY <1>1, <1>6
<1>8. b[k + 1][1] \in Nat /\ b[k + 1][2] \in Nat /\ b[k + 1][1] <= b[k + 1][2]
  BY <1>7, RowFacts
<1>9. b[k + 1][1] <= r[1]
  <2>1. CASE j = k + 1
    BY <1>4, <2>1
  <2>2. CASE j # k + 1
    <3>1. b[k + 1][2] + 1 < b[j][1]
      BY <1>7, <2>2, RowsApart
    <3>2. \A x, y, z, u \in Nat : x <= y /\ y + 1 < z /\ z <= u => x <= u
      OBVIOUS
    <3>3. QED
      BY <1>2, <1>4, <1>5, <1>8, <3>1, <3>2
  <2>3. QED
    BY <2>1, <2>2
<1>10. ASSUME b[k + 1][1] = r[1], ~(r[2] <= b[k + 1][2]) PROVE FALSE
  <2> DEFINE x == b[k + 1][2] + 1
  <2>1. x \in Nat /\ r[1] <= x /\ x <= r[2]
    BY <1>2, <1>8, <1>10
  <2>2. x \in S
    BY <2>1, InCanonical
  <2> HIDE DEF x
  <2>3. PICK i \in 1..Len(b) : b[i][1] <= x /\ x <= b[i][2]
    BY <2>2, InCanonical
  <2>4. b[i][1] \in Nat /\ b[i][2] \in Nat
    BY RowFacts
  <2>5. CASE i < k + 1
    <3>1. b[i][2] + 1 < b[k + 1][1]
      BY <1>7, <2>5, RowsApart
    <3>2. \A p, u, v \in Nat : p + 1 < u /\ u <= v => ~(v + 1 <= p)
      OBVIOUS
    <3>3. b[k + 1][2] + 1 <= b[i][2]
      BY <2>3 DEF x
    <3>4. QED
      BY <1>8, <2>4, <3>1, <3>2, <3>3
  <2>6. CASE i = k + 1
    BY <1>8, <2>3, <2>6 DEF x
  <2>7. CASE k + 1 < i
    <3>1. b[k + 1][2] + 1 < b[i][1]
      BY <1>7, <2>7, RowsApart
    <3>2. \A p, v \in Nat : v + 1 < p => ~(p <= v + 1)
      OBVIOUS
    <3>3. b[i][1] <= b[k + 1][2] + 1
      BY <2>3 DEF x
    <3>4. QED
      BY <1>8, <2>4, <3>1, <3>2, <3>3
  <2>8. QED
    BY <2>5, <2>6, <2>7
<1>11. QED
  BY <1>7, <1>9, <1>10

\* Two canonical lists of the same numbers are equal row by row.
LEMMA CanonicalIsUnique ==
    ASSUME NEW S, NEW a, NEW b, Canonical(a, S), Canonical(b, S)
    PROVE  a = b
<1>1. /\ a \in Seq(Rows) /\ Len(a) \in Nat /\ b \in Seq(Rows) /\ Len(b) \in Nat
  BY LenProperties DEF Canonical
<1> DEFINE n == Len(a)
           Good == {k \in 0..n : \A i \in 1..k : i \in 1..Len(b) /\ a[i] = b[i]}
<1>2. 0 \in Good
  BY <1>1
<1>3. ASSUME NEW k \in 0..(n - 1), k \in Good
      PROVE  k + 1 \in Good
  <2>1. k \in Nat /\ k + 1 \in 1..Len(a) /\ k + 1 \in 0..n
    BY <1>1
  <2>2. \A i \in 1..k : i \in 1..Len(b) /\ a[i] = b[i]
    BY <1>3
  <2>3. /\ k + 1 \in 1..Len(b)
        /\ b[k + 1][1] <= a[k + 1][1]
        /\ b[k + 1][1] = a[k + 1][1] => a[k + 1][2] <= b[k + 1][2]
    BY <2>1, <2>2, NoEarlierRow
  <2>4. \A i \in 1..k : i \in 1..Len(a) /\ b[i] = a[i]
    BY <1>1, <2>1, <2>2
  <2>5. /\ a[k + 1][1] <= b[k + 1][1]
        /\ a[k + 1][1] = b[k + 1][1] => b[k + 1][2] <= a[k + 1][2]
    BY <2>1, <2>3, <2>4, NoEarlierRow
  <2>6. a[k + 1] \in Rows /\ b[k + 1] \in Rows
    BY <2>1, <2>3, RowFacts
  <2>7. a[k + 1] = b[k + 1]
    BY <2>3, <2>5, <2>6, RowType
  <2>8. \A i \in 1..(k + 1) : i \in 1..k \/ i = k + 1
    BY <2>1
  <2>9. QED
    BY <2>1, <2>2, <2>3, <2>7, <2>8
<1>4. 0..n \subseteq Good
  <2> HIDE DEF Good, n
  <2>1. n \in Nat
    BY <1>1 DEF n
  <2> QED
    BY <1>2, <1>3, <2>1, Climb
<1>5. \A i \in 1..Len(a) : i \in 1..Len(b) /\ a[i] = b[i]
  <2>1. n \in 0..n
    BY <1>1
  <2>2. QED
    BY <1>4, <2>1
<1>6. Len(b) <= Len(a)
  <2>1. SUFFICES ASSUME Len(a) < Len(b) PROVE FALSE
    BY <1>1
  <2>2. Len(a) + 1 \in 1..Len(b) /\ \A i \in 1..Len(a) : i \in 1..Len(a) /\ b[i] = a[i]
    BY <1>1, <1>5, <2>1
  <2>3. Len(a) + 1 \in 1..Len(a)
    BY <1>1, <2>2, NoEarlierRow
  <2>4. QED
    BY <1>1, <2>3
<1>7. Len(a) <= Len(b)
  BY <1>1, <1>5
<1>8. QED
  BY <1>1, <1>5, <1>6, <1>7, SeqEqual

-----------------------------------------------------------------------------
(* The first chunk that is missing *)

\* A row of the canonical form holds numbers of the set, and ends where the
\* set's run of numbers does.
LEMMA RowIsRun ==
    ASSUME NEW S, NEW out, Canonical(out, S), NEW i \in 1..Len(out)
    PROVE  out[i][1]..out[i][2] \subseteq S /\ out[i][2] + 1 \notin S
<1>1. Len(out) \in Nat
  BY LenProperties DEF Canonical
<1>2. out[i][1] \in Nat /\ out[i][2] \in Nat /\ out[i][1] <= out[i][2]
  BY RowFacts
<1>3. ASSUME NEW x \in out[i][1]..out[i][2] PROVE x \in S
  <2>1. x \in Nat /\ out[i][1] <= x /\ x <= out[i][2]
    BY <1>2
  <2>2. QED
    BY <2>1, InCanonical
<1>4. ASSUME out[i][2] + 1 \in S PROVE FALSE
  <2> DEFINE x == out[i][2] + 1
  <2>1. PICK j \in 1..Len(out) : x \in Nat /\ out[j][1] <= x /\ x <= out[j][2]
    BY <1>4, InCanonical
  <2>2. out[j][1] \in Nat /\ out[j][2] \in Nat /\ out[j][1] <= out[j][2]
    BY RowFacts
  <2>3. CASE i < j
    <3>1. out[i][2] + 1 < out[j][1]
      BY <2>3, RowsApart
    <3>2. QED
      BY <1>2, <2>1, <2>2, <3>1
  <2>4. CASE j < i
    <3>1. out[j][2] + 1 < out[i][1]
      BY <2>4, RowsApart
    <3>2. QED
      BY <1>2, <2>1, <2>2, <3>1
  <2>5. CASE i = j
    BY <1>2, <2>1, <2>5
  <2>6. QED
    BY <1>1, <2>3, <2>4, <2>5
<1>5. QED
  BY <1>3, <1>4

\* It is empty just when the set is.
LEMMA EmptyCanonical ==
    ASSUME NEW S, NEW out, Canonical(out, S)
    PROVE  out = <<>> <=> S = {}
<1>1. out \in Seq(Rows) /\ Len(out) \in Nat
  BY LenProperties DEF Canonical
<1>2. CASE out = <<>>
  <2>1. Len(out) = 0
    BY <1>2
  <2>2. \A x : x \notin S
    BY <2>1, InCanonical
  <2>3. QED
    BY <1>2, <2>2
<1>3. CASE out # <<>>
  <2>1. 1 \in 1..Len(out)
    BY <1>1, <1>3, EmptySeq
  <2>2. out[1][1] \in out[1][1]..out[1][2]
    BY <2>1, RowFacts
  <2>3. S # {}
    BY <2>1, <2>2, RowIsRun
  <2>4. QED
    BY <1>3, <2>3
<1>4. QED
  BY <1>2, <1>3

\* Numbers of an earlier row are smaller.
LEMMA EarlierRow ==
    ASSUME NEW S, NEW out, Canonical(out, S), NEW i \in 1..Len(out), NEW j \in 1..Len(out),
           i <= j, NEW x \in out[i][1]..out[i][2], NEW y \in out[j][1]..out[j][2]
    PROVE  i = j \/ x + 1 < y
<1>1. Len(out) \in Nat
  BY LenProperties DEF Canonical
<1>2. /\ out[i][1] \in Nat /\ out[i][2] \in Nat /\ out[j][1] \in Nat /\ out[j][2] \in Nat
  BY RowFacts
<1>3. SUFFICES ASSUME i < j PROVE x + 1 < y
  BY <1>1
<1>4. out[i][2] + 1 < out[j][1]
  BY <1>3, RowsApart
<1>5. QED
  BY <1>2, <1>4

\* Its first row starts at the least number and is the whole run of it.
LEMMA FirstRow ==
    ASSUME NEW S, NEW out, Canonical(out, S), S # {}
    PROVE  /\ out[1] \in Rows /\ out[1][1] \in S /\ \A y \in S : out[1][1] <= y
           /\ out[1][1]..out[1][2] \subseteq S /\ out[1][2] + 1 \notin S
<1>1. out \in Seq(Rows) /\ Len(out) \in Nat /\ out # <<>>
  BY LenProperties, EmptyCanonical DEF Canonical
<1>2. 1 \in 1..Len(out)
  BY <1>1, EmptySeq
<1>3. out[1] \in Rows /\ out[1][1] \in Nat /\ out[1][2] \in Nat /\ out[1][1] <= out[1][2]
  BY <1>2, RowFacts
<1>4. out[1][1]..out[1][2] \subseteq S /\ out[1][2] + 1 \notin S
  BY <1>2, RowIsRun
<1>5. ASSUME NEW y \in S PROVE out[1][1] <= y
  <2>1. PICK j \in 1..Len(out) : y \in Nat /\ out[j][1] <= y /\ y <= out[j][2]
    BY InCanonical
  <2>2. out[j][1] \in Nat /\ out[j][2] \in Nat
    BY RowFacts
  <2>3. out[1][1] \in out[1][1]..out[1][2] /\ y \in out[j][1]..out[j][2] /\ 1 <= j
    BY <1>3, <2>1, <2>2
  <2>4. 1 = j \/ out[1][1] + 1 < y
    BY <1>2, <2>3, EarlierRow
  <2>5. QED
    BY <1>3, <2>1, <2>4
<1>6. QED
  BY <1>3, <1>4, <1>5

\* Rows made of sequence numbers are intervals.
LEMMA ManifestRows ==
    ASSUME NEW ranges \in SUBSET Intervals,
           NEW i \in 1..Len(NormalizeRanges(ranges))
    PROVE  NormalizeRanges(ranges)[i] \in Intervals
<1>1. Canonical(NormalizeRanges(ranges), Numbers(ranges))
  BY NormalizeIsExact
<1>2. ASSUME NEW x \in Numbers(ranges) PROVE x \in Seqs
  <2>1. PICK q \in ranges : x \in Nat /\ q[1] <= x /\ x <= q[2]
    BY TableNumbers
  <2>2. q[2] \in 0..MaxSeq
    BY IntervalType
  <2>3. QED
    BY <2>1, <2>2, RangesAssumption DEF Seqs
<1>3. Numbers(ranges) \in SUBSET Seqs
  BY <1>2
<1>4. QED
  BY <1>1, <1>3, RowsOfSeqs

\* A number that is in the set and below all others is its minimum.
LEMMA LeastIsMin ==
    ASSUME NEW S \in SUBSET Nat, NEW x \in S, \A y \in S : x <= y
    PROVE  x = Min(S)
<1>1. Min(S) \in S /\ \A y \in S : Min(S) <= y
  BY MinIsMember
<1>2. x <= Min(S) /\ Min(S) <= x /\ x \in Nat /\ Min(S) \in Nat
  BY <1>1
<1>3. QED
  BY <1>2

\* With an exact coverage table the next request is the first missing chunk.
LEMMA NextIsFirst == IInv => FirstMissingIsFirst
<1> SUFFICES ASSUME IInv PROVE FirstMissingIsFirst
  OBVIOUS
<1> DEFINE N == Numbers(advertised)
           man == NormalizeRanges(advertised)
           missing(r) == SubtractCoverage(r[1], r[2], CoverageFor(coverage, r[1], r[2]))
           lack(i) == (man[i][1]..man[i][2]) \ present
           lacking == N \ present
           holes == {i \in DOMAIN man : missing(man[i]) # <<>>}
           chunk == FirstMissingChunk(man, coverage)
<1>1. /\ advertised \in SUBSET Intervals /\ coverage \in SUBSET Intervals
      /\ Separated(coverage) /\ Numbers(coverage) = present
  BY DEF IInv, TypeInv, CoverageIsExact
<1>2. Canonical(man, N)
  BY <1>1, NormalizeIsExact
<1>3. man \in Seq(Rows) /\ DOMAIN man = 1..Len(man) /\ Len(man) \in Nat
  BY <1>2, LenProperties DEF Canonical
<1>4. ASSUME NEW i \in 1..Len(man)
      PROVE  Canonical(missing(man[i]), lack(i))
  <2>1. man[i] \in Intervals
    BY <1>1, ManifestRows
  <2>2. QED
    BY <1>1, <2>1, SubtractIsExact
<1>5. chunk = IF holes = {} THEN <<>>
              ELSE LET first == missing(man[Min(holes)])[1]
                   IN  ChunkAt(first[1], first[2])
  BY Zenon DEF FirstMissingChunk
<1>6. \A x \in N : x \in Nat
  BY <1>1, TableNumbers
<1> HIDE DEF N, man, missing, lack, chunk
<1>7. ASSUME NEW i \in 1..Len(man)
      PROVE  i \in holes <=> lack(i) # {}
  BY <1>3, <1>4, EmptyCanonical
<1>8. ASSUME NEW x \in lacking
      PROVE  \E j \in holes : x \in lack(j)
  <2>1. PICK j \in 1..Len(man) : x \in Nat /\ man[j][1] <= x /\ x <= man[j][2]
    BY <1>2, InCanonical
  <2>2. man[j][1] \in Nat /\ man[j][2] \in Nat
    BY <1>2, RowFacts
  <2>3. x \in lack(j)
    BY <2>1, <2>2 DEF lack
  <2>4. QED
    BY <1>7, <2>3
<1>9. \A j \in holes : j \in 1..Len(man) /\ lack(j) # {} /\ lack(j) \subseteq lacking
  <2>1. SUFFICES ASSUME NEW j \in holes
                 PROVE  j \in 1..Len(man) /\ lack(j) # {} /\ lack(j) \subseteq lacking
    OBVIOUS
  <2>2. j \in 1..Len(man)
    BY <1>3
  <2>3. lack(j) # {}
    BY <1>7, <2>2
  <2>4. man[j][1]..man[j][2] \subseteq N
    BY <1>2, <2>2, RowIsRun
  <2>5. QED
    BY <2>2, <2>3, <2>4 DEF lack
<1> HIDE DEF holes
<1>10. CASE lacking = {}
  <2>1. holes = {}
    BY <1>9, <1>10
  <2>2. chunk = <<>>
    BY <1>5, <2>1
  <2>3. QED
    BY <1>10, <2>2, Zenon DEF FirstMissingIsFirst, N, man, chunk
<1>11. CASE lacking # {}
  <2>1. holes # {}
    BY <1>8, <1>11
  <2> DEFINE m == Min(holes)
             f == missing(man[m])[1]
  <2>2. m \in holes /\ \A j \in holes : m <= j
    BY <1>9, <2>1, MinIsMember
  <2> HIDE DEF m
  <2>3. m \in 1..Len(man) /\ lack(m) # {} /\ lack(m) \subseteq lacking
    BY <1>9, <2>2
  <2>4. /\ f \in Rows /\ f[1] \in lack(m) /\ \A y \in lack(m) : f[1] <= y
        /\ f[1]..f[2] \subseteq lack(m) /\ f[2] + 1 \notin lack(m)
    BY <1>4, <2>3, FirstRow
  <2>5. f[1] \in Nat /\ f[2] \in Nat /\ f[1] <= f[2]
    BY <2>4, RowType
  <2>6. chunk = <<f[1], Smaller(f[2], f[1] + ChunkSize - 1)>>
    BY <1>5, <2>1 DEF ChunkAt, m
  <2> HIDE DEF f
  <2>7. ASSUME NEW y \in lacking PROVE f[1] <= y
    <3>1. PICK j \in holes : y \in lack(j)
      BY <1>8
    <3>2. j \in 1..Len(man) /\ m <= j
      BY <1>9, <2>2
    <3>3. f[1] \in man[m][1]..man[m][2] /\ y \in man[j][1]..man[j][2]
      BY <2>4, <3>1 DEF lack
    <3>4. m = j \/ f[1] + 1 < y
      BY <1>2, <2>3, <3>2, <3>3, EarlierRow
    <3>5. y \in Nat
      BY <1>6
    <3>6. QED
      BY <2>4, <2>5, <3>1, <3>4, <3>5
  <2>8. f[1] = Min(lacking)
    <3>1. lacking \in SUBSET Nat /\ f[1] \in lacking
      BY <1>6, <2>3, <2>4
    <3> HIDE DEF lacking
    <3>2. QED
      BY <2>7, <3>1, LeastIsMin
  <2>9. f[2] + 1 \notin lacking
    <3>1. SUFFICES ASSUME f[2] + 1 \in lacking PROVE FALSE
      OBVIOUS
    <3>2. f[2] \in man[m][1]..man[m][2] /\ man[m][1] \in Nat /\ man[m][2] \in Nat
      <4>1. f[2] \in f[1]..f[2]
        BY <2>5
      <4>2. QED
        BY <1>2, <2>3, <2>4, <4>1, RowFacts DEF lack
    <3>3. f[2] + 1 \notin man[m][1]..man[m][2]
      BY <2>4, <3>1 DEF lack
    <3>4. f[2] = man[m][2]
      BY <2>5, <3>2, <3>3
    <3>5. QED
      BY <1>2, <2>3, <3>1, <3>4, RowIsRun
  <2>10. /\ chunk[1] = f[1] /\ chunk[2] \in Nat /\ chunk[1] <= chunk[2] /\ chunk[2] <= f[2]
         /\ chunk[2] - chunk[1] < ChunkSize
         /\ chunk[2] - chunk[1] = ChunkSize - 1 \/ chunk[2] = f[2]
    <3>1. chunk[1] = f[1] /\ chunk[2] = Smaller(f[2], f[1] + ChunkSize - 1)
      BY <2>6
    <3>2. QED
      BY <2>5, <3>1, RangesAssumption DEF Smaller
  <2>11. chunk[1]..chunk[2] \subseteq lacking
    <3>1. chunk[1]..chunk[2] \subseteq f[1]..f[2]
      BY <2>5, <2>10
    <3>2. QED
      BY <2>3, <2>4, <3>1
  <2>12. /\ chunk[1] = Min(lacking)
         /\ chunk[1]..chunk[2] \subseteq lacking
         /\ chunk[2] - chunk[1] < ChunkSize
         /\ chunk[2] - chunk[1] = ChunkSize - 1 \/ chunk[2] + 1 \notin lacking
    BY <2>8, <2>9, <2>10, <2>11
  <2>13. QED
    BY <1>11, <2>12, Zenon DEF FirstMissingIsFirst, N, man, chunk
<1>12. QED
  BY <1>10, <1>11

(* The next request starts at the first advertised number that is not       *)
(* archived, never leaves the gap it starts in or the chunk size, and is    *)
(* shorter than a chunk only at the end of that gap; there is none exactly  *)
(* when all that is advertised is archived (_first_missing_chunk over       *)
(* normalize_ranges, _coverage_for and _subtract_coverage).                 *)
THEOREM FirstMissing == Spec => []FirstMissingIsFirst
<1>1. Init => IInv
  BY InitExact
<1>2. IInv /\ [Next]_vars => IInv'
  BY NextExact
<1>3. QED
  BY <1>1, <1>2, NextIsFirst, PTL DEF Spec

-----------------------------------------------------------------------------
(* What is missing, number by number *)

\* What a walk has found missing.
Gaps == Seq(Nat \X Int)

\* The archived numbers of a range.
Within(numbers, r) == {n \in numbers : r[1] <= n /\ n <= r[2]}

\* h[k] is where the walk stands after k numbers.
IsWalk(h, out, r, numbers, n) ==
    /\ h[0] = [current |-> r[1], missing |-> out]
    /\ h[n] = Walk(out, r, numbers)
    /\ \A k \in 1..n : h[k] = StepOver(h[k - 1], Ordered(Within(numbers, r))[k])
    /\ \A k \in 0..n : h[k] \in Scans

\* The walk over the archived numbers of one range, pass by pass.
LEMMA StepOverPasses ==
    ASSUME NEW out \in Gaps, NEW r \in Intervals, NEW numbers,
           NEW n \in Nat, Ordered(Within(numbers, r)) \in [1..n -> Nat]
    PROVE  \E h : IsWalk(h, out, r, numbers, n)
<1> DEFINE base == [current |-> r[1], missing |-> out]
           seq == Ordered(Within(numbers, r))
           G == [i \in 1..n |-> [a \in Scans |-> StepOver(a, seq[i])]]
<1>1. ASSUME NEW a \in Scans, NEW m \in Nat
      PROVE  StepOver(a, m) \in Scans
  <2>1. a.current \in Nat /\ a.missing \in Seq(Nat \X Int)
    BY DEF Scans
  <2>2. <<a.current, m - 1>> \in Nat \X Int
    BY <2>1
  <2>3. Append(a.missing, <<a.current, m - 1>>) \in Seq(Nat \X Int)
    BY <2>1, <2>2, AppendProperties
  <2>4. QED
    BY <2>1, <2>3 DEF StepOver, Scans
<1>2. base \in Scans
  BY IntervalType DEF Scans, Gaps
<1>3. G \in [1..n -> [Scans -> Scans]]
  BY <1>1
<1>4. PICK g \in [SUBSET (1..n) -> Scans] : Folds(g, n, base, G)
  <2> HIDE DEF G, base
  <2> QED
    BY <1>2, <1>3, FoldExists
<1>5. ASSUME NEW s \in SUBSET (1..n), s # {}
      PROVE  g[s] = StepOver(g[s \ {Max(s)}], seq[Max(s)])
  <2>1. Max(s) \in 1..n
    <3>1. s \in SUBSET (0..n)
      OBVIOUS
    <3>2. QED
      BY <1>5, <3>1, MaxIsMember
  <2>2. g[s] = G[Max(s)][g[s \ {Max(s)}]]
    BY <1>4, <1>5 DEF Folds
  <2>3. QED
    BY <2>1, <2>2
<1>6. g[{}] = base
  BY <1>4 DEF Folds
<1>7. g = [s \in SUBSET (1..n) |->
              IF s = {} THEN base ELSE StepOver(g[s \ {Max(s)}], seq[Max(s)])]
  BY <1>5, <1>6
<1> DEFINE iter == CHOOSE f : f = [s \in SUBSET (1..n) |->
              IF s = {} THEN base ELSE StepOver(f[s \ {Max(s)}], seq[Max(s)])]
<1>8. iter = [s \in SUBSET (1..n) |->
              IF s = {} THEN base ELSE StepOver(iter[s \ {Max(s)}], seq[Max(s)])]
  BY <1>7
<1>9. Walk(out, r, numbers) = iter[1..n]
  <2>1. DOMAIN seq = 1..n
    OBVIOUS
  <2>2. QED
    BY <2>1, Zenon DEF Walk, Within, FoldLeft, MapThenFoldSet
<1> HIDE DEF iter, base
<1> DEFINE h == [k \in 0..n |-> iter[1..k]]
<1>10. h[0] = base
  <2>1. 1..0 = {} /\ {} \in SUBSET (1..n)
    OBVIOUS
  <2>2. QED
    BY <1>8, <2>1
<1>11. ASSUME NEW k \in 1..n
       PROVE  h[k] = StepOver(h[k - 1], seq[k])
  <2>1. 1..k \in SUBSET (1..n) /\ 1..k # {} /\ Max(1..k) = k /\ (1..k) \ {k} = 1..(k - 1)
    BY PrefixFacts
  <2>2. iter[1..k] = StepOver(iter[(1..k) \ {Max(1..k)}], seq[Max(1..k)])
    BY <1>8, <2>1
  <2>3. k \in 0..n /\ k - 1 \in 0..n
    OBVIOUS
  <2>4. QED
    BY <2>1, <2>2, <2>3
<1>12. h[n] = Walk(out, r, numbers)
  BY <1>9
<1> HIDE DEF h
<1> DEFINE Good == {k \in 0..n : h[k] \in Scans}
<1>13. ASSUME NEW k \in 0..(n - 1), k \in Good
       PROVE  k + 1 \in Good
  <2>1. k + 1 \in 1..n /\ k + 1 \in 0..n /\ (k + 1) - 1 = k
    OBVIOUS
  <2>2. h[k] \in Scans /\ h[k + 1] = StepOver(h[k], seq[k + 1])
    BY <1>11, <1>13, <2>1
  <2>3. h[k + 1] \in Scans
    BY <1>1, <2>1, <2>2
  <2>4. QED
    BY <2>1, <2>3
<1>14. 0..n \subseteq Good
  <2>1. 0 \in Good
    BY <1>2, <1>10
  <2> HIDE DEF Good
  <2>2. QED
    BY <1>13, <2>1, Climb
<1>15. QED
  BY <1>10, <1>11, <1>12, <1>14 DEF base, IsWalk

\* The walk returns pairs of numbers, whatever it starts from.
LEMMA MissingOfType ==
    ASSUME NEW out \in Gaps, NEW r \in Intervals, NEW numbers \in SUBSET Seqs
    PROVE  MissingOf(out, r, numbers) \in Gaps
<1> DEFINE T == Within(numbers, r)
           n == Cardinality(T)
           s == Ordered(T)
<1>1. T \in SUBSET Nat /\ IsFiniteSet(T)
  <2>1. IsFiniteSet(Seqs) /\ Seqs \subseteq Nat
    BY FS_Interval, RangesAssumption DEF Seqs
  <2>2. T \in SUBSET Seqs
    BY DEF Within
  <2> HIDE DEF T
  <2>3. QED
    BY <2>1, <2>2, FS_Subset
<1>2. n \in Nat /\ s \in [1..n -> T]
  <2> HIDE DEF T
  <2> QED
    BY <1>1, OrderedNumbers
<1>3. s \in [1..n -> Nat]
  BY <1>1, <1>2
<1> HIDE DEF n
<1>4. Walk(out, r, numbers) \in Scans
  <2>1. PICK h : IsWalk(h, out, r, numbers, n)
    BY <1>2, <1>3, StepOverPasses
  <2>2. n \in 0..n
    BY <1>2
  <2>3. QED
    BY <2>1, <2>2 DEF IsWalk
<1> DEFINE end == Walk(out, r, numbers)
<1>5. end.current \in Nat /\ end.missing \in Seq(Nat \X Int)
  BY <1>4 DEF Scans
<1>6. MissingOf(out, r, numbers) = IF end.current <= r[2] THEN Append(end.missing, <<end.current, r[2]>>)
                                   ELSE end.missing
  BY DEF MissingOf
<1> HIDE DEF end
<1>7. <<end.current, r[2]>> \in Nat \X Int
  BY <1>5, IntervalType
<1>8. QED
  BY <1>5, <1>6, <1>7, AppendProperties DEF Gaps

\* What a program's loop computes, pass by pass: the walk over every range.
LEMMA MissingPasses ==
    ASSUME NEW expected \in SUBSET Intervals, NEW numbers \in SUBSET Seqs,
           NEW n \in Nat, NEW man \in [1..n -> Intervals], man = NormalizeRanges(expected)
    PROVE  \E h : /\ h[0] = <<>>
                  /\ h[n] = MissingIntervals(expected, numbers)
                  /\ \A k \in 1..n : h[k] = MissingOf(h[k - 1], man[k], numbers)
<1> DEFINE base == <<>>
           A == Gaps
           G == [i \in 1..n |-> [a \in A |-> MissingOf(a, man[i], numbers)]]
<1>1. ASSUME NEW a \in A, NEW r \in Intervals
      PROVE  MissingOf(a, r, numbers) \in A
  BY MissingOfType
<1>2. base \in A
  BY EmptySeq DEF Gaps
<1> HIDE DEF A
<1>3. G \in [1..n -> [A -> A]]
  BY <1>1
<1>4. PICK g \in [SUBSET (1..n) -> A] : Folds(g, n, base, G)
  <2> HIDE DEF G, base
  <2> QED
    BY <1>2, <1>3, FoldExists
<1>5. ASSUME NEW s \in SUBSET (1..n), s # {}
      PROVE  g[s] = MissingOf(g[s \ {Max(s)}], man[Max(s)], numbers)
  <2>1. Max(s) \in 1..n
    <3>1. s \in SUBSET (0..n)
      OBVIOUS
    <3>2. QED
      BY <1>5, <3>1, MaxIsMember
  <2>2. g[s] = G[Max(s)][g[s \ {Max(s)}]]
    BY <1>4, <1>5 DEF Folds
  <2>3. QED
    BY <2>1, <2>2
<1>6. g[{}] = base
  BY <1>4 DEF Folds
<1>7. g = [s \in SUBSET (1..n) |->
              IF s = {} THEN base ELSE MissingOf(g[s \ {Max(s)}], man[Max(s)], numbers)]
  BY <1>5, <1>6
<1> DEFINE iter == CHOOSE f : f = [s \in SUBSET (1..n) |->
              IF s = {} THEN base ELSE MissingOf(f[s \ {Max(s)}], man[Max(s)], numbers)]
<1>8. iter = [s \in SUBSET (1..n) |->
              IF s = {} THEN base ELSE MissingOf(iter[s \ {Max(s)}], man[Max(s)], numbers)]
  BY <1>7
<1>9. MissingIntervals(expected, numbers) = iter[1..n]
  <2>1. DOMAIN man = 1..n
    OBVIOUS
  <2>2. QED
    BY <2>1, Zenon DEF MissingIntervals, FoldLeft, MapThenFoldSet
<1> HIDE DEF iter, base
<1> DEFINE h == [k \in 0..n |-> iter[1..k]]
<1>10. h[0] = base
  <2>1. 1..0 = {} /\ {} \in SUBSET (1..n)
    OBVIOUS
  <2>2. QED
    BY <1>8, <2>1
<1>11. ASSUME NEW k \in 1..n
       PROVE  h[k] = MissingOf(h[k - 1], man[k], numbers)
  <2>1. 1..k \in SUBSET (1..n) /\ 1..k # {} /\ Max(1..k) = k /\ (1..k) \ {k} = 1..(k - 1)
    BY PrefixFacts
  <2>2. iter[1..k] = MissingOf(iter[(1..k) \ {Max(1..k)}], man[Max(1..k)], numbers)
    BY <1>8, <2>1
  <2>3. k \in 0..n /\ k - 1 \in 0..n
    OBVIOUS
  <2>4. QED
    BY <2>1, <2>2, <2>3
<1>12. h[n] = MissingIntervals(expected, numbers)
  BY <1>9
<1>13. QED
  BY <1>10, <1>11, <1>12 DEF base

\* One number of the archive is stepped over.
LEMMA StepOverIsExact ==
    ASSUME NEW S, NEW acc, acc.current \in Nat, Canonical(acc.missing, S),
           acc.missing # <<>> => Last(acc.missing)[2] + 1 < acc.current,
           NEW m \in Nat, acc.current <= m
    PROVE  LET next == StepOver(acc, m)
           IN  /\ next.current = m + 1
               /\ Canonical(next.missing, S \cup (acc.current..(m - 1)))
               /\ next.missing # <<>> => Last(next.missing)[2] + 1 < m + 1
<1> DEFINE next == StepOver(acc, m)
           out == acc.missing
           cur == acc.current
<1>1. next.current = m + 1
  BY DEF StepOver
<1>2. CASE m > cur
  <2> DEFINE r == <<cur, m - 1>>
  <2>1. next.missing = Append(out, r)
    BY <1>2 DEF StepOver
  <2>2. r \in Rows /\ r[1] = cur /\ r[2] = m - 1
    BY <1>2 DEF Rows
  <2> HIDE DEF r, out, cur, next
  <2>3. Canonical(out, S) /\ (out # <<>> => Last(out)[2] + 1 < r[1])
    BY <2>2 DEF out, cur
  <2>4. /\ Canonical(Append(out, r), S \cup (r[1]..r[2]))
        /\ Last(Append(out, r)) = r
    BY <2>2, <2>3, AppendRow
  <2>5. Last(next.missing)[2] + 1 < m + 1
    BY <2>1, <2>2, <2>4
  <2>6. QED
    BY <1>1, <2>1, <2>2, <2>4, <2>5 DEF next, cur
<1>3. CASE ~(m > cur)
  <2>1. next.missing = out
    BY <1>3 DEF StepOver
  <2>2. m = cur /\ cur..(m - 1) = {}
    BY <1>3
  <2>3. out # <<>> => Last(out)[2] + 1 < m + 1
    <3>1. out # <<>> => Last(out)[2] \in Nat
      <4>1. out # <<>> => Last(out) \in Rows
        BY FrontRows
      <4>2. QED
        BY <4>1, RowType
    <3>2. QED
      BY <2>2, <3>1
  <2>4. S \cup (cur..(m - 1)) = S
    BY <2>2
  <2> HIDE DEF next, out, cur
  <2>5. Canonical(next.missing, S \cup (cur..(m - 1)))
    BY <2>1, <2>4 DEF out
  <2>6. QED
    BY <1>1, <2>1, <2>3, <2>5 DEF next, cur
<1>4. QED
  BY <1>2, <1>3

\* The walk over one range adds the numbers of it that the archive lacks.
LEMMA MissingOfIsExact ==
    ASSUME NEW S, NEW out, Canonical(out, S), NEW r \in Intervals,
           out # <<>> => Last(out)[2] + 1 < r[1],
           NEW numbers \in SUBSET Seqs
    PROVE  LET new == MissingOf(out, r, numbers)
           IN  /\ Canonical(new, S \cup ((r[1]..r[2]) \ numbers))
               /\ new # <<>> => Last(new)[2] <= r[2]
<1> DEFINE T == Within(numbers, r)
           n == Cardinality(T)
           s == Ordered(T)
           Holes(cur) == {x \in (r[1]..r[2]) \ numbers : x < cur}
<1>0. r[1] \in Nat /\ r[2] \in Nat /\ r[1] <= r[2]
  BY IntervalType
<1>1. numbers \in SUBSET Nat /\ T \in SUBSET Nat /\ IsFiniteSet(T)
  <2>1. IsFiniteSet(Seqs) /\ Seqs \subseteq Nat
    BY FS_Interval, RangesAssumption DEF Seqs
  <2>2. T \in SUBSET Seqs
    BY DEF Within
  <2> HIDE DEF T
  <2>3. QED
    BY <2>1, <2>2, FS_Subset
<1>2. /\ n \in Nat /\ s \in [1..n -> T]
      /\ \A x \in T : \E i \in 1..n : s[i] = x
      /\ \A i, j \in 1..n : i < j => s[i] < s[j]
  <2> HIDE DEF T
  <2> QED
    BY <1>1, OrderedNumbers
<1>3. s \in [1..n -> Nat]
  BY <1>1, <1>2
<1>4. \A i \in 1..n : s[i] \in Nat /\ s[i] \in numbers /\ r[1] <= s[i] /\ s[i] <= r[2]
  BY <1>1, <1>2 DEF Within
<1>5. out \in Gaps
  <2>1. out \in Seq(Rows) /\ Rows \subseteq Nat \X Int
    BY DEF Canonical, Rows
  <2>2. QED
    BY <2>1 DEF Gaps
<1>6. \A x \in numbers : r[1] <= x /\ x <= r[2] => \E i \in 1..n : s[i] = x
  BY <1>2 DEF Within
<1> HIDE DEF n, T
<1>7. PICK h : IsWalk(h, out, r, numbers, n)
  BY <1>2, <1>3, <1>5, StepOverPasses DEF T
<1>8. /\ h[0] = [current |-> r[1], missing |-> out]
      /\ h[n] = Walk(out, r, numbers)
      /\ \A k \in 1..n : h[k] = StepOver(h[k - 1], s[k])
  BY <1>7 DEF IsWalk, T
<1> HIDE DEF s
<1> DEFINE Inv(k) == /\ h[k].current \in Nat /\ r[1] <= h[k].current
                     /\ k = 0 => h[k].current = r[1]
                     /\ k # 0 => h[k].current = s[k] + 1
                     /\ Canonical(h[k].missing, S \cup Holes(h[k].current))
                     /\ h[k].missing # <<>> => Last(h[k].missing)[2] + 1 < h[k].current
           Good == {k \in 0..n : Inv(k)}
<1>9. 0 \in Good
  <2>1. h[0].current = r[1] /\ h[0].missing = out /\ 0 \in 0..n
    BY <1>2, <1>8
  <2>2. S \cup Holes(r[1]) = S
    BY <1>0
  <2> HIDE DEF Holes
  <2>3. Canonical(h[0].missing, S \cup Holes(h[0].current))
    BY <2>1, <2>2
  <2>4. h[0].missing # <<>> => Last(h[0].missing)[2] + 1 < h[0].current
    BY <2>1
  <2>5. h[0].current \in Nat /\ r[1] <= h[0].current
    BY <1>0, <2>1
  <2>6. Inv(0)
    BY <2>1, <2>3, <2>4, <2>5, Zenon
  <2>7. QED
    BY <2>1, <2>6
<1>10. ASSUME NEW k \in 0..(n - 1), k \in Good
       PROVE  k + 1 \in Good
  <2>1. k \in Nat /\ k + 1 \in 1..n /\ (k + 1) - 1 = k /\ k + 1 \in 0..n /\ k + 1 # 0
    BY <1>2
  <2> DEFINE acc == h[k]
             next == h[k + 1]
             m == s[k + 1]
             cur == acc.current
  <2>2. next = StepOver(acc, m) /\ m \in Nat /\ r[1] <= m /\ m <= r[2] /\ m \in numbers
    BY <1>4, <1>8, <2>1
  <2>3. Inv(k)
    BY <1>10
  <2>4. cur <= m
    <3>1. CASE k = 0
      BY <2>2, <2>3, <3>1
    <3>2. CASE k # 0
      <4>1. k \in 1..n /\ k < k + 1
        BY <1>2, <2>1, <3>2
      <4>2. s[k] < m /\ s[k] \in Nat
        BY <1>2, <1>4, <2>1, <4>1
      <4>3. QED
        BY <2>2, <2>3, <3>2, <4>2
    <3>3. QED
      BY <3>1, <3>2
  <2>5. ASSUME NEW x \in numbers, cur <= x, x < m PROVE FALSE
    <3>1. x \in Nat /\ r[1] <= x /\ x <= r[2]
      BY <1>0, <1>1, <2>2, <2>3, <2>5
    <3>2. PICK i \in 1..n : s[i] = x
      BY <1>6, <3>1
    <3>3. ~(k + 1 <= i)
      <4>1. k + 1 < i => m < s[i]
        BY <1>2, <2>1
      <4>2. QED
        BY <2>1, <2>2, <2>5, <3>1, <3>2, <4>1
    <3>4. i <= k /\ k # 0 /\ k \in 1..n
      BY <1>2, <2>1, <3>3
    <3>5. i = k \/ s[i] < s[k]
      BY <1>2, <3>4
    <3>6. QED
      BY <1>4, <2>3, <2>5, <3>1, <3>2, <3>4, <3>5
  <2>6. S \cup Holes(cur) \cup (cur..(m - 1)) = S \cup Holes(m + 1)
    <3>1. ASSUME NEW x \in Holes(m + 1) PROVE x \in Holes(cur) \cup (cur..(m - 1))
      <4>1. x \in Nat /\ x < m + 1 /\ x # m /\ x \in (r[1]..r[2]) \ numbers /\ cur \in Nat
        BY <1>0, <2>2, <2>3
      <4>2. QED
        BY <2>2, <4>1
    <3>2. ASSUME NEW x \in Holes(cur) PROVE x \in Holes(m + 1)
      BY <1>0, <2>2, <2>3, <2>4
    <3>3. ASSUME NEW x \in cur..(m - 1) PROVE x \in Holes(m + 1)
      <4>1. x \in Nat /\ cur <= x /\ x < m /\ r[1] <= x /\ x <= r[2]
        BY <1>0, <2>2, <2>3
      <4>2. x \notin numbers
        BY <2>5, <4>1
      <4>3. QED
        BY <1>0, <2>2, <4>1, <4>2
    <3>4. QED
      BY <3>1, <3>2, <3>3
  <2>7. /\ acc.current \in Nat /\ Canonical(acc.missing, S \cup Holes(cur))
        /\ acc.missing # <<>> => Last(acc.missing)[2] + 1 < acc.current
    BY <2>3
  <2> HIDE DEF acc, next, m, Holes
  <2>8. /\ next.current = m + 1
        /\ Canonical(next.missing, (S \cup Holes(cur)) \cup (acc.current..(m - 1)))
        /\ next.missing # <<>> => Last(next.missing)[2] + 1 < m + 1
    BY <2>2, <2>4, <2>7, StepOverIsExact
  <2>9. Canonical(next.missing, S \cup Holes(next.current))
    BY <2>6, <2>8
  <2>10. Inv(k + 1)
    <3>1. next.current \in Nat /\ r[1] <= next.current
      BY <1>0, <2>2, <2>8
    <3>2. next.missing # <<>> => Last(next.missing)[2] + 1 < next.current
      BY <2>8
    <3>3. QED
      BY <2>1, <2>8, <2>9, <3>1, <3>2, Zenon DEF next, m
  <2>11. QED
    BY <2>1, <2>10
<1> HIDE DEF Inv
<1>11. 0..n \subseteq Good
  <2> HIDE DEF Good
  <2> QED
    BY <1>2, <1>9, <1>10, Climb
<1>12. Inv(n)
  BY <1>2, <1>11
<1> DEFINE end == h[n]
<1>13. /\ end.current \in Nat /\ r[1] <= end.current
       /\ Canonical(end.missing, S \cup Holes(end.current))
       /\ end.missing # <<>> => Last(end.missing)[2] + 1 < end.current
       /\ n = 0 => end.current = r[1]
       /\ n # 0 => end.current = s[n] + 1
  BY <1>12 DEF Inv
<1>14. end.current <= r[2] + 1
  <2>1. CASE n = 0
    BY <1>0, <1>13, <2>1
  <2>2. CASE n # 0
    <3>1. n \in 1..n
      BY <1>2, <2>2
    <3>2. QED
      BY <1>0, <1>4, <1>13, <2>2, <3>1
  <2>3. QED
    BY <2>1, <2>2
<1>15. \A x \in numbers : r[1] <= x /\ x <= r[2] => x < end.current
  <2>1. SUFFICES ASSUME NEW x \in numbers, r[1] <= x, x <= r[2] PROVE x < end.current
    OBVIOUS
  <2>2. PICK i \in 1..n : s[i] = x
    BY <1>6, <2>1
  <2>3. n # 0 /\ n \in 1..n /\ i <= n
    BY <1>2
  <2>4. i = n \/ s[i] < s[n]
    BY <1>2, <2>3
  <2>5. QED
    BY <1>4, <1>13, <2>2, <2>3, <2>4
<1>16. MissingOf(out, r, numbers) =
          IF end.current <= r[2] THEN Append(end.missing, <<end.current, r[2]>>)
          ELSE end.missing
  BY <1>8 DEF MissingOf
<1> HIDE DEF end
<1>17. CASE end.current <= r[2]
  <2> DEFINE q == <<end.current, r[2]>>
             o == end.missing
             D == S \cup Holes(end.current)
  <2>1. q \in Rows /\ q[1] = end.current /\ q[2] = r[2]
    BY <1>0, <1>13, <1>17 DEF Rows
  <2>2. Canonical(o, D) /\ (o # <<>> => Last(o)[2] + 1 < q[1])
    BY <1>13
  <2>3. D \cup (q[1]..q[2]) = S \cup ((r[1]..r[2]) \ numbers)
    <3>1. ASSUME NEW x \in q[1]..q[2] PROVE x \in (r[1]..r[2]) \ numbers
      <4>1. x \in Nat /\ end.current <= x /\ x <= r[2] /\ x \in r[1]..r[2]
        BY <1>0, <1>13, <2>1
      <4>2. x \notin numbers
        BY <1>0, <1>13, <1>15, <4>1
      <4>3. QED
        BY <4>1, <4>2
    <3>2. ASSUME NEW x \in (r[1]..r[2]) \ numbers PROVE x \in Holes(end.current) \cup (q[1]..q[2])
      BY <1>0, <1>13, <2>1
    <3>3. QED
      BY <3>1, <3>2
  <2> HIDE DEF q, o, D
  <2>4. Canonical(Append(o, q), D \cup (q[1]..q[2])) /\ Last(Append(o, q)) = q
    BY <2>1, <2>2, AppendRow
  <2>5. MissingOf(out, r, numbers) = Append(o, q)
    BY <1>16, <1>17 DEF o, q
  <2>6. Last(Append(o, q))[2] <= r[2]
    BY <1>0, <2>1, <2>4
  <2>7. QED
    BY <2>3, <2>4, <2>5, <2>6
<1>18. CASE ~(end.current <= r[2])
  <2>1. Holes(end.current) = (r[1]..r[2]) \ numbers
    BY <1>0, <1>13, <1>18
  <2> HIDE DEF Holes
  <2>2. MissingOf(out, r, numbers) = end.missing
    BY <1>16, <1>18
  <2>3. end.missing # <<>> => Last(end.missing)[2] <= r[2]
    <3>1. end.missing # <<>> => Last(end.missing)[2] \in Nat
      <4>1. end.missing # <<>> => Last(end.missing) \in Rows
        BY <1>13, FrontRows
      <4>2. QED
        BY <4>1, RowType
    <3>2. QED
      BY <1>0, <1>13, <1>14, <3>1
  <2>4. QED
    BY <1>13, <2>1, <2>2, <2>3
<1>19. QED
  BY <1>17, <1>18

\* The helper's result, over any ranges, is the canonical form of what of
\* them the archive lacks.
LEMMA MissingIntervalsIsExact ==
    ASSUME NEW expected \in SUBSET Intervals, NEW numbers \in SUBSET Seqs
    PROVE  Canonical(MissingIntervals(expected, numbers), Numbers(expected) \ numbers)
<1> DEFINE man == NormalizeRanges(expected)
           n == Len(man)
           Done(k) == {x \in Nat \ numbers : \E i \in 1..k : man[i][1] <= x /\ x <= man[i][2]}
<1>1. Canonical(man, Numbers(expected))
  BY NormalizeIsExact
<1>2. n \in Nat /\ man \in [1..n -> Intervals]
  <2>1. man \in Seq(Rows) /\ n \in Nat /\ man \in [1..n -> Rows]
    BY <1>1, LenProperties DEF Canonical
  <2>2. \A i \in 1..n : man[i] \in Intervals
    BY ManifestRows
  <2> HIDE DEF man
  <2>3. QED
    BY <2>1, <2>2
<1>3. \A i \in 1..n : man[i] \in Intervals /\ man[i][1] \in Nat /\ man[i][2] \in Nat
  <2> HIDE DEF man
  <2> QED
    BY <1>2, IntervalType
<1>4. PICK h : /\ h[0] = <<>>
               /\ h[n] = MissingIntervals(expected, numbers)
               /\ \A k \in 1..n : h[k] = MissingOf(h[k - 1], man[k], numbers)
  <2> HIDE DEF n
  <2> QED
    BY <1>2, MissingPasses
<1>5. \A i \in 1..(n - 1) : man[i][2] + 1 < man[i + 1][1]
  BY <1>1 DEF Canonical, Ascending
<1>6. \A x : x \in Numbers(expected) <=> \E i \in 1..n : x \in Nat /\ man[i][1] <= x /\ x <= man[i][2]
  BY <1>1, InCanonical
<1> HIDE DEF man, n
<1> DEFINE Inv(k) == /\ Canonical(h[k], Done(k))
                     /\ k # 0 /\ h[k] # <<>> => Last(h[k])[2] <= man[k][2]
                     /\ k = 0 => h[k] = <<>>
           Good == {k \in 0..n : Inv(k)}
<1>7. 0 \in Good
  <2>1. Done(0) = {} /\ 0 \in 0..n
    BY <1>2
  <2>2. Canonical(h[0], Done(0))
    BY <1>4, <2>1, NoRows
  <2>3. QED
    BY <1>4, <2>1, <2>2, Zenon
<1>8. ASSUME NEW k \in 0..(n - 1), k \in Good
      PROVE  k + 1 \in Good
  <2>1. k \in Nat /\ k + 1 \in 1..n /\ (k + 1) - 1 = k /\ k + 1 \in 0..n /\ k + 1 # 0
    BY <1>2
  <2> DEFINE r == man[k + 1]
             out == h[k]
             new == h[k + 1]
  <2>2. new = MissingOf(out, r, numbers) /\ r \in Intervals /\ r[1] \in Nat /\ r[2] \in Nat
    BY <1>3, <1>4, <2>1
  <2>3. Canonical(out, Done(k))
    BY <1>8
  <2>4. ASSUME out # <<>> PROVE Last(out)[2] + 1 < r[1]
    <3>1. k # 0 /\ Last(out)[2] <= man[k][2]
      BY <1>8, <2>4
    <3>2. k \in 1..(n - 1) /\ k \in 1..n
      BY <1>2, <3>1
    <3>3. man[k][2] + 1 < r[1] /\ man[k][2] \in Nat
      BY <1>3, <1>5, <3>2
    <3>4. Last(out) \in Rows
      BY <2>3, <2>4, FrontRows
    <3>5. Last(out)[2] \in Nat
      BY <3>4, RowType
    <3>6. QED
      BY <2>2, <3>1, <3>3, <3>5
  <2>5. Done(k + 1) = Done(k) \cup ((r[1]..r[2]) \ numbers)
    <3>1. \A i : i \in 1..(k + 1) <=> (i \in 1..k \/ i = k + 1)
      BY <2>1
    <3>2. \A x : x \in r[1]..r[2] <=> (x \in Nat /\ r[1] <= x /\ x <= r[2])
      BY <2>2
    <3>3. QED
      BY <3>1, <3>2
  <2> HIDE DEF out, new, Done, r
  <2>6. /\ Canonical(new, Done(k) \cup ((r[1]..r[2]) \ numbers))
        /\ new # <<>> => Last(new)[2] <= r[2]
    BY <2>2, <2>3, <2>4, MissingOfIsExact
  <2>7. Inv(k + 1)
    BY <2>1, <2>5, <2>6, Zenon DEF new, r
  <2>8. QED
    BY <2>1, <2>7
<1> HIDE DEF Inv
<1>9. 0..n \subseteq Good
  <2> HIDE DEF Good
  <2> QED
    BY <1>2, <1>7, <1>8, Climb
<1>10. Inv(n)
  BY <1>2, <1>9
<1>11. Done(n) = Numbers(expected) \ numbers
  BY <1>6
<1> HIDE DEF Done
<1>12. QED
  BY <1>4, <1>10, <1>11 DEF Inv

\* With an exact coverage table both computations return the same list.
LEMMA RequestIsExact == IInv => MissingIsExact
<1> SUFFICES ASSUME IInv PROVE MissingIsExact
  OBVIOUS
<1> DEFINE missing == SubtractCoverage(request[1], request[2],
                                       CoverageFor(coverage, request[1], request[2]))
           S == (request[1]..request[2]) \ present
<1>1. /\ request \in Intervals /\ present \in SUBSET Seqs /\ coverage \in SUBSET Intervals
      /\ Separated(coverage) /\ Numbers(coverage) = present
  BY DEF IInv, TypeInv, CoverageIsExact
<1>2. Canonical(missing, S)
  BY <1>1, SubtractIsExact
<1>3. Canonical(MissingIntervals({request}, present), S)
  <2>1. {request} \in SUBSET Intervals
    BY <1>1
  <2>2. Numbers({request}) = request[1]..request[2]
    BY DEF Numbers
  <2>3. Canonical(MissingIntervals({request}, present), Numbers({request}) \ present)
    BY <1>1, <2>1, MissingIntervalsIsExact
  <2>4. QED
    BY <2>2, <2>3
<1> HIDE DEF missing, S
<1>4. missing = MissingIntervals({request}, present)
  BY <1>2, <1>3, CanonicalIsUnique
<1>5. Numbers(ToSet(missing)) = S /\ Ascending(missing)
  BY <1>2 DEF Canonical
<1>6. QED
  BY <1>4, <1>5, Zenon DEF MissingIsExact, missing, S

(* What is reported missing from a request is what was asked for and is not *)
(* stored, in ascending maximal runs, and the two programs that compute it  *)
(* agree on every row: _subtract_coverage over the coverage table, and      *)
(* missing_intervals over the numbers themselves.                           *)
THEOREM MissingExact == Spec => []MissingIsExact
<1>1. Init => IInv
  BY InitExact
<1>2. IInv /\ [Next]_vars => IInv'
  BY NextExact
<1>3. QED
  BY <1>1, <1>2, RequestIsExact, PTL DEF Spec

-----------------------------------------------------------------------------
(* Stepping an audit *)

\* The range that holds the first number after prior decides the next chunk.
LEMMA NextIs ==
    ASSUME NEW S, NEW man, Canonical(man, S), NEW prior \in Int,
           NEW m \in 1..Len(man), prior < man[m][2],
           \A j \in 1..Len(man) : j < m => man[j][2] <= prior
    PROVE  NextChunkAfter(man, prior) =
              <<Larger(man[m][1], prior + 1),
                Smaller(man[m][2], Larger(man[m][1], prior + 1) + ChunkSize - 1)>>
<1> DEFINE ahead == {i \in DOMAIN man : prior < man[i][2]}
<1>1. DOMAIN man = 1..Len(man) /\ Len(man) \in Nat
  BY LenProperties DEF Canonical
<1>2. \A i \in 1..Len(man) : man[i][2] \in Nat
  BY RowFacts
<1>3. m \in ahead /\ \A i \in ahead : m <= i
  <2>1. m \in ahead
    BY <1>1
  <2>2. ASSUME NEW i \in ahead PROVE m <= i
    <3>1. i \in 1..Len(man) /\ prior < man[i][2] /\ man[i][2] \in Nat
      BY <1>1, <1>2
    <3>2. ~(i < m)
      BY <3>1
    <3>3. QED
      BY <1>1, <3>1, <3>2
  <2>3. QED
    BY <2>1, <2>2
<1>4. m = Min(ahead)
  <2>1. ahead \in SUBSET Nat
    BY <1>1
  <2> HIDE DEF ahead
  <2>2. QED
    BY <1>3, <2>1, LeastIsMin
<1>5. NextChunkAfter(man, prior) =
         IF ahead = {} THEN <<>>
         ELSE ChunkAt(Larger(man[Min(ahead)][1], prior + 1), man[Min(ahead)][2])
  BY Zenon DEF NextChunkAfter
<1> HIDE DEF ahead
<1>6. QED
  BY <1>3, <1>4, <1>5 DEF ChunkAt

\* One step of the audit, from the end of any advertised number.
LEMMA StepIsExact ==
    ASSUME NEW S, S \in SUBSET Nat, NEW man, Canonical(man, S), NEW prior \in {-1} \cup S
    PROVE  LET rest  == {n \in S : n > prior}
               chunk == NextChunkAfter(man, prior)
           IN  IF rest = {} THEN chunk = <<>>
               ELSE /\ chunk[1] = Min(rest)
                    /\ chunk[1]..chunk[2] \subseteq rest
                    /\ chunk[2] - chunk[1] < ChunkSize
                    /\ \/ chunk[2] - chunk[1] = ChunkSize - 1
                       \/ chunk[2] + 1 \notin rest
<1> DEFINE rest == {n \in S : n > prior}
           chunk == NextChunkAfter(man, prior)
           ahead == {i \in DOMAIN man : prior < man[i][2]}
<1>0. prior \in Int /\ prior + 1 \in Nat
  OBVIOUS
<1>1. DOMAIN man = 1..Len(man) /\ Len(man) \in Nat
  BY LenProperties DEF Canonical
<1>2. \A i \in 1..Len(man) : man[i][1] \in Nat /\ man[i][2] \in Nat /\ man[i][1] <= man[i][2]
  BY RowFacts
<1>3. CASE ahead = {}
  <2>1. chunk = <<>>
    BY <1>3, Zenon DEF NextChunkAfter
  <2>2. rest = {}
    <3>1. SUFFICES ASSUME NEW x \in rest PROVE FALSE
      OBVIOUS
    <3>2. PICK j \in 1..Len(man) : x \in Nat /\ man[j][1] <= x /\ x <= man[j][2]
      BY InCanonical
    <3>3. j \in ahead
      BY <1>0, <1>1, <1>2, <3>2
    <3>4. QED
      BY <1>3, <3>3
  <2>3. QED
    BY <2>1, <2>2
<1>4. CASE ahead # {}
  <2> DEFINE m == Min(ahead)
             r == man[m]
             a == Larger(r[1], prior + 1)
  <2>1. m \in ahead /\ \A j \in ahead : m <= j
    <3>1. ahead \in SUBSET Nat
      BY <1>1
    <3> HIDE DEF ahead
    <3>2. QED
      BY <1>4, <3>1, MinIsMember
  <2>2. m \in 1..Len(man) /\ prior < r[2]
    BY <1>1, <2>1
  <2>3. \A j \in 1..Len(man) : j < m => man[j][2] <= prior
    <3>1. SUFFICES ASSUME NEW j \in 1..Len(man), j < m, ~(man[j][2] <= prior) PROVE FALSE
      OBVIOUS
    <3>2. j \in ahead
      BY <1>0, <1>1, <1>2, <3>1
    <3> HIDE DEF m, ahead
    <3>3. m <= j
      BY <2>1, <3>2
    <3>4. QED
      BY <2>2, <3>1, <3>3
  <2>4. \A j \in 1..Len(man) : prior < man[j][2] => m <= j
    BY <1>1, <2>1
  <2> HIDE DEF m
  <2>5. chunk = <<a, Smaller(r[2], a + ChunkSize - 1)>>
    BY <1>0, <2>2, <2>3, NextIs
  <2>6. r[1] \in Nat /\ r[2] \in Nat /\ r[1] <= r[2]
    BY <1>2, <2>2
  <2>7. a \in Nat /\ r[1] <= a /\ a <= r[2] /\ prior < a /\ (a = r[1] \/ a = prior + 1)
    BY <1>0, <2>2, <2>6 DEF Larger
  <2>8. r[1]..r[2] \subseteq S /\ r[2] + 1 \notin S
    BY <2>2, RowIsRun
  <2> HIDE DEF a, chunk
  <2>9. /\ chunk[1] = a /\ chunk[2] \in Nat /\ a <= chunk[2] /\ chunk[2] <= r[2]
        /\ chunk[2] - chunk[1] < ChunkSize
        /\ chunk[2] - chunk[1] = ChunkSize - 1 \/ chunk[2] = r[2]
    <3>1. chunk[1] = a /\ chunk[2] = Smaller(r[2], a + ChunkSize - 1)
      BY <2>5
    <3>2. QED
      BY <2>6, <2>7, <3>1, RangesAssumption DEF Smaller
  <2>10. chunk[1]..chunk[2] \subseteq rest
    <3>1. SUFFICES ASSUME NEW x \in chunk[1]..chunk[2] PROVE x \in rest
      OBVIOUS
    <3>2. x \in Nat /\ a <= x /\ x <= r[2]
      BY <2>6, <2>7, <2>9
    <3>3. x \in r[1]..r[2] /\ x > prior
      BY <1>0, <2>6, <2>7, <3>2
    <3>4. QED
      BY <2>8, <3>3
  <2>11. ASSUME NEW y \in rest PROVE a <= y
    <3>1. PICK j \in 1..Len(man) : y \in Nat /\ man[j][1] <= y /\ y <= man[j][2]
      BY InCanonical
    <3>2. man[j][1] \in Nat /\ man[j][2] \in Nat /\ prior < y
      BY <1>2
    <3>3. m <= j
      BY <1>0, <2>4, <3>1, <3>2
    <3>4. a \in r[1]..r[2] /\ y \in man[j][1]..man[j][2]
      BY <2>6, <2>7, <3>1, <3>2
    <3>5. m = j \/ a + 1 < y
      BY <2>2, <3>3, <3>4, EarlierRow
    <3>6. CASE m = j
      BY <1>0, <2>7, <3>1, <3>2, <3>6
    <3>7. QED
      BY <2>7, <3>1, <3>5, <3>6
  <2>12. a \in rest
    BY <2>6, <2>7, <2>8
  <2>13. a = Min(rest)
    <3>1. rest \in SUBSET Nat
      OBVIOUS
    <3> HIDE DEF rest
    <3>2. QED
      BY <2>11, <2>12, <3>1, LeastIsMin
  <2>14. chunk[2] - chunk[1] = ChunkSize - 1 \/ chunk[2] + 1 \notin rest
    BY <2>8, <2>9
  <2> HIDE DEF rest
  <2>15. rest # {}
    BY <2>12
  <2>16. QED
    BY <2>9, <2>10, <2>13, <2>14, <2>15, Zenon DEF rest, chunk
<1>5. QED
  BY <1>3, <1>4

\* The whole part of a quotient.
LEMMA Division ==
    ASSUME NEW d \in Nat, NEW c \in Nat \ {0}
    PROVE  d \div c \in Nat /\ (d \div c) * c <= d /\ d < (d \div c) * c + c
  OBVIOUS
\* Multiples of the chunk size grow with the factor.
LEMMA Times ==
    ASSUME NEW a \in Nat, NEW b \in Nat, NEW c \in Nat, a <= b
    PROVE  a * c <= b * c /\ a * c \in Nat /\ (a + 1) * c = a * c + c
  OBVIOUS

\* c cuts the row r into consecutive rows that the chunk size allows.
Cuts(c, r) ==
    /\ c \in Seq(Rows) /\ c # <<>>
    /\ c[1][1] = r[1] /\ c[Len(c)][2] = r[2]
    /\ \A i \in 1..Len(c) : /\ r[1] <= c[i][1] /\ c[i][2] <= r[2]
                            /\ c[i] = ChunkAt(c[i][1], r[2])
    /\ \A i \in 1..(Len(c) - 1) : c[i + 1][1] = c[i][2] + 1

\* chunk_intervals cuts a range from its first number to its last.
LEMMA ChunksCut ==
    ASSUME NEW r \in Rows
    PROVE  Cuts(ChunksOf(r), r)
<1> DEFINE c == ChunksOf(r)
           q == (r[2] - r[1]) \div ChunkSize
           start(i) == r[1] + (i - 1) * ChunkSize
<1>1. ChunkSize \in Nat \ {0} /\ r[1] \in Nat /\ r[2] \in Nat /\ r[1] <= r[2]
  BY RangesAssumption, RowType
<1>2. q \in Nat /\ q * ChunkSize <= r[2] - r[1] /\ r[2] - r[1] < q * ChunkSize + ChunkSize
  <2>1. r[2] - r[1] \in Nat
    BY <1>1
  <2>2. QED
    BY <1>1, <2>1, Division
<1>3. c = [i \in 1..(q + 1) |-> <<start(i), Smaller(r[2], start(i) + ChunkSize - 1)>>]
  BY DEF ChunksOf, ChunkAt
<1> HIDE DEF q
<1>4. ASSUME NEW i \in 1..(q + 1)
      PROVE  /\ start(i) \in Nat /\ r[1] <= start(i) /\ start(i) <= r[2]
             /\ start(i + 1) = start(i) + ChunkSize
  <2>1. i - 1 \in Nat /\ i - 1 <= q /\ (i + 1) - 1 = (i - 1) + 1
    BY <1>2
  <2>2. /\ (i - 1) * ChunkSize <= q * ChunkSize /\ (i - 1) * ChunkSize \in Nat
        /\ ((i - 1) + 1) * ChunkSize = (i - 1) * ChunkSize + ChunkSize
    BY <1>1, <1>2, <2>1, Times
  <2>3. q * ChunkSize \in Nat
    BY <1>1, <1>2, Times
  <2> DEFINE p == (i - 1) * ChunkSize
             t == q * ChunkSize
  <2>4. p \in Nat /\ t \in Nat /\ p <= t /\ t <= r[2] - r[1]
    BY <1>2, <2>2, <2>3
  <2>5. start(i) = r[1] + p /\ start(i + 1) = r[1] + (p + ChunkSize)
    BY <2>1, <2>2
  <2> HIDE DEF p, t, start
  <2>6. QED
    BY <1>1, <2>4, <2>5
<1>5. start(1) = r[1]
  <2>1. (1 - 1) * ChunkSize = 0
    BY <1>1
  <2>2. QED
    BY <1>1, <2>1
<1>6. start(q + 1) + ChunkSize > r[2]
  <2> DEFINE t == q * ChunkSize
  <2>1. (q + 1) - 1 = q
    BY <1>2
  <2>2. start(q + 1) = r[1] + t /\ t \in Nat /\ r[2] - r[1] < t + ChunkSize
    BY <1>1, <1>2, <2>1, Times
  <2> HIDE DEF t, start
  <2>3. QED
    BY <1>1, <2>2
<1>7. ASSUME NEW i \in 1..q
      PROVE  start(i) + ChunkSize <= r[2]
  <2>1. i \in 1..(q + 1) /\ i + 1 \in 1..(q + 1)
    BY <1>2
  <2>2. start(i + 1) = start(i) + ChunkSize /\ start(i + 1) <= r[2]
    BY <1>4, <2>1
  <2>3. QED
    BY <2>2
<1> HIDE DEF start
<1>8. \A i \in 1..(q + 1) :
        /\ c[i] = <<start(i), Smaller(r[2], start(i) + ChunkSize - 1)>>
        /\ c[i][1] = start(i) /\ c[i][2] = Smaller(r[2], start(i) + ChunkSize - 1)
  BY <1>3
<1>9. \A i \in 1..(q + 1) : c[i] \in Rows /\ c[i][2] <= r[2]
  BY <1>1, <1>4, <1>8 DEF Rows, Smaller
<1>10. c \in Seq(Rows) /\ Len(c) = q + 1
  <2>1. c \in [1..(q + 1) -> Rows] /\ q + 1 \in Nat
    <3> DEFINE e(i) == <<start(i), Smaller(r[2], start(i) + ChunkSize - 1)>>
    <3>1. \A i \in 1..(q + 1) : e(i) \in Rows
      BY <1>8, <1>9
    <3> HIDE DEF e
    <3>2. [i \in 1..(q + 1) |-> e(i)] \in [1..(q + 1) -> Rows]
      BY <3>1
    <3>3. QED
      BY <1>2, <1>3, <3>2 DEF e
  <2> HIDE DEF c
  <2>2. QED
    BY <2>1
<1> HIDE DEF c
<1>11. c # <<>>
  BY <1>2, <1>10, EmptySeq
<1>12. c[q + 1][2] = r[2]
  <2>1. q + 1 \in 1..(q + 1)
    BY <1>2
  <2>2. QED
    BY <1>1, <1>4, <1>6, <1>8, <2>1 DEF Smaller
<1>13. \A i \in 1..q : c[i + 1][1] = c[i][2] + 1
  <2>1. SUFFICES ASSUME NEW i \in 1..q PROVE c[i + 1][1] = c[i][2] + 1
    OBVIOUS
  <2>2. i \in 1..(q + 1) /\ i + 1 \in 1..(q + 1)
    BY <1>2
  <2>3. /\ c[i + 1][1] = start(i) + ChunkSize
        /\ c[i][2] = Smaller(r[2], start(i) + ChunkSize - 1)
        /\ start(i) + ChunkSize <= r[2] /\ start(i) \in Nat
    BY <1>4, <1>7, <1>8, <2>2
  <2>4. QED
    BY <1>1, <2>3 DEF Smaller
<1>14. c[1][1] = r[1]
  BY <1>2, <1>5, <1>8
<1>15. (q + 1) - 1 = q
  BY <1>2
<1>16. \A i \in 1..(q + 1) : r[1] <= c[i][1] /\ c[i] = ChunkAt(c[i][1], r[2])
  BY <1>4, <1>8 DEF ChunkAt
<1>17. Cuts(c, r)
  BY <1>9, <1>10, <1>11, <1>12, <1>13, <1>14, <1>15, <1>16 DEF Cuts
<1>18. QED
  BY <1>17 DEF c

\* The cuts of a row hold its numbers.
LEMMA CutsCover ==
    ASSUME NEW r \in Rows, NEW c, Cuts(c, r), NEW x
    PROVE  x \in r[1]..r[2] <=> \E i \in 1..Len(c) : x \in Nat /\ c[i][1] <= x /\ x <= c[i][2]
<1> DEFINE n == Len(c) - 1
           Covered(k) == \A y \in r[1]..c[k + 1][2] :
                            \E i \in 1..Len(c) : c[i][1] <= y /\ y <= c[i][2]
           Good == {k \in 0..n : Covered(k)}
<1>1. /\ c \in Seq(Rows) /\ Len(c) \in Nat \ {0} /\ n \in Nat
      /\ c[1][1] = r[1] /\ c[Len(c)][2] = r[2]
  BY LenProperties, EmptySeq DEF Cuts
<1>2. \A i \in 1..Len(c) : c[i][1] \in Nat /\ c[i][2] \in Nat /\ c[i][1] <= c[i][2]
  <2>1. \A i \in 1..Len(c) : c[i] \in Rows
    BY LenProperties DEF Cuts
  <2>2. QED
    BY <2>1, RowType
<1>3. r[1] \in Nat /\ r[2] \in Nat /\ r[1] <= r[2]
  BY RowType
<1>4. 0 \in Good
  BY <1>1, <1>2
<1>5. ASSUME NEW k \in 0..(n - 1), k \in Good
      PROVE  k + 1 \in Good
  <2>1. k \in Nat /\ k + 1 \in 1..(Len(c) - 1) /\ k + 1 \in 1..Len(c) /\ (k + 1) + 1 \in 1..Len(c) /\ k + 1 \in 0..n
    BY <1>1
  <2>2. c[(k + 1) + 1][1] = c[k + 1][2] + 1
    BY <2>1 DEF Cuts
  <2>3. SUFFICES ASSUME NEW y \in r[1]..c[(k + 1) + 1][2]
                 PROVE  \E i \in 1..Len(c) : c[i][1] <= y /\ y <= c[i][2]
    BY <2>1
  <2>4. CASE y <= c[k + 1][2]
    <3>1. y \in r[1]..c[k + 1][2]
      BY <1>2, <1>3, <2>1, <2>4
    <3>2. QED
      BY <1>5, <3>1
  <2>5. CASE ~(y <= c[k + 1][2])
    <3>1. c[(k + 1) + 1][1] <= y /\ y <= c[(k + 1) + 1][2]
      BY <1>2, <1>3, <2>1, <2>2, <2>5
    <3>2. QED
      BY <2>1, <3>1
  <2>6. QED
    BY <2>4, <2>5
<1>6. 0..n \subseteq Good
  <2> HIDE DEF Good, n
  <2> QED
    BY <1>1, <1>4, <1>5, Climb
<1>7. Covered(n)
  <2>1. n \in 0..n
    BY <1>1
  <2>2. QED
    BY <1>6, <2>1
<1>8. n + 1 = Len(c)
  BY <1>1
<1>9. \A i \in 1..Len(c) : r[1] <= c[i][1] /\ c[i][2] <= r[2]
  BY DEF Cuts
<1> HIDE DEF n
<1>10. \A y \in r[1]..r[2] : \E i \in 1..Len(c) : c[i][1] <= y /\ y <= c[i][2]
  BY <1>1, <1>7, <1>8
<1>11. QED
  BY <1>2, <1>3, <1>9, <1>10

\* One advertised range joins the walk.
JoinChunks(out, r) == out \o ChunksOf(r)

\* What a program's loop computes, pass by pass: the list of chunks.
LEMMA ChunkPasses ==
    ASSUME NEW ranges \in SUBSET Intervals,
           NEW n \in Nat, NEW man \in [1..n -> Intervals], man = NormalizeRanges(ranges)
    PROVE  \E h : /\ h[0] = <<>>
                  /\ h[n] = ChunkIntervals(ranges)
                  /\ \A k \in 1..n : h[k] = JoinChunks(h[k - 1], man[k])
<1> DEFINE base == <<>>
           A == Seq(Rows)
           G == [i \in 1..n |-> [a \in A |-> JoinChunks(a, man[i])]]
<1>1. ASSUME NEW a \in A, NEW r \in Intervals
      PROVE  JoinChunks(a, r) \in A
  <2>1. ChunksOf(r) \in Seq(Rows)
    BY IntervalType, ChunksCut DEF Cuts
  <2>2. QED
    BY <2>1, ConcatProperties DEF JoinChunks
<1>2. base \in A
  BY EmptySeq
<1> HIDE DEF A
<1>3. G \in [1..n -> [A -> A]]
  BY <1>1
<1>4. PICK g \in [SUBSET (1..n) -> A] : Folds(g, n, base, G)
  <2> HIDE DEF G, base
  <2> QED
    BY <1>2, <1>3, FoldExists
<1>5. ASSUME NEW s \in SUBSET (1..n), s # {}
      PROVE  g[s] = JoinChunks(g[s \ {Max(s)}], man[Max(s)])
  <2>1. Max(s) \in 1..n
    <3>1. s \in SUBSET (0..n)
      OBVIOUS
    <3>2. QED
      BY <1>5, <3>1, MaxIsMember
  <2>2. g[s] = G[Max(s)][g[s \ {Max(s)}]]
    BY <1>4, <1>5 DEF Folds
  <2>3. QED
    BY <2>1, <2>2
<1>6. g[{}] = base
  BY <1>4 DEF Folds
<1>7. g = [s \in SUBSET (1..n) |->
              IF s = {} THEN base ELSE JoinChunks(g[s \ {Max(s)}], man[Max(s)])]
  BY <1>5, <1>6
<1> DEFINE iter == CHOOSE f : f = [s \in SUBSET (1..n) |->
              IF s = {} THEN base ELSE JoinChunks(f[s \ {Max(s)}], man[Max(s)])]
<1>8. iter = [s \in SUBSET (1..n) |->
              IF s = {} THEN base ELSE JoinChunks(iter[s \ {Max(s)}], man[Max(s)])]
  BY <1>7
<1>9. ChunkIntervals(ranges) = iter[1..n]
  <2>1. DOMAIN man = 1..n
    OBVIOUS
  <2>2. QED
    BY <2>1, Zenon DEF ChunkIntervals, JoinChunks, FoldLeft, MapThenFoldSet
<1> HIDE DEF iter, base
<1> DEFINE h == [k \in 0..n |-> iter[1..k]]
<1>10. h[0] = base
  <2>1. 1..0 = {} /\ {} \in SUBSET (1..n)
    OBVIOUS
  <2>2. QED
    BY <1>8, <2>1
<1>11. ASSUME NEW k \in 1..n
       PROVE  h[k] = JoinChunks(h[k - 1], man[k])
  <2>1. 1..k \in SUBSET (1..n) /\ 1..k # {} /\ Max(1..k) = k /\ (1..k) \ {k} = 1..(k - 1)
    BY PrefixFacts
  <2>2. iter[1..k] = JoinChunks(iter[(1..k) \ {Max(1..k)}], man[Max(1..k)])
    BY <1>8, <2>1
  <2>3. k \in 0..n /\ k - 1 \in 0..n
    OBVIOUS
  <2>4. QED
    BY <2>1, <2>2, <2>3
<1>12. h[n] = ChunkIntervals(ranges)
  BY <1>9
<1>13. QED
  BY <1>10, <1>11, <1>12 DEF base

\* The end of the chunk before place i of a walk.
Prior(w, i) == IF i = 1 THEN -1 ELSE w[i - 1][2]

\* w holds the chunks of the first k rows of a manifest, each of them the
\* one that follows the chunk before it.
Walked(w, man, k) ==
    /\ w \in Seq(Rows)
    /\ k = 0 => w = <<>>
    /\ k # 0 => w # <<>> /\ w[Len(w)][2] = man[k][2]
    /\ \A x \in Nat : (\E i \in 1..Len(w) : w[i][1] <= x /\ x <= w[i][2])
                         <=> \E i \in 1..k : man[i][1] <= x /\ x <= man[i][2]
    /\ \A i \in 1..Len(w) : NextChunkAfter(man, Prior(w, i)) = w[i]

\* The chunks of one more row go on where the walk stands.
LEMMA WalkGoesOn ==
    ASSUME NEW S, NEW man, Canonical(man, S), NEW k \in Nat, k + 1 \in 1..Len(man),
           NEW w, Walked(w, man, k)
    PROVE  Walked(JoinChunks(w, man[k + 1]), man, k + 1)
<1> DEFINE r == man[k + 1]
           c == ChunksOf(r)
           l == Len(w)
           new == JoinChunks(w, r)
<1>1. r \in Rows /\ r[1] \in Nat /\ r[2] \in Nat /\ r[1] <= r[2] /\ Len(man) \in Nat
  BY RowFacts, LenProperties DEF Canonical
<1>2. Cuts(c, r)
  BY <1>1, ChunksCut
<1> HIDE DEF c
<1>3. /\ c \in Seq(Rows) /\ Len(c) \in Nat \ {0} /\ w \in Seq(Rows) /\ l \in Nat
      /\ \A i \in 1..l : w[i] \in Rows
      /\ \A i \in 1..Len(c) : c[i] \in Rows
  BY <1>2, LenProperties, EmptySeq DEF Cuts, Walked
<1>4. /\ new \in Seq(Rows) /\ Len(new) = l + Len(c)
      /\ \A i \in 1..(l + Len(c)) : new[i] = IF i <= l THEN w[i] ELSE c[i - l]
  BY <1>3, ConcatProperties DEF JoinChunks, c
<1>5. /\ \A i \in 1..l : w[i][1] \in Nat /\ w[i][2] \in Nat
      /\ \A i \in 1..Len(c) : c[i][1] \in Nat /\ c[i][2] \in Nat /\ c[i][1] <= c[i][2]
  BY <1>3, RowType
<1> HIDE DEF new, l
<1>6. /\ \A i \in 1..l : i \in 1..Len(new) /\ new[i] = w[i]
      /\ \A i \in 1..Len(c) : l + i \in 1..Len(new) /\ new[l + i] = c[i]
      /\ \A i \in 1..Len(new) : i \in 1..l \/ (i - l \in 1..Len(c) /\ new[i] = c[i - l] /\ i = l + (i - l))
  BY <1>3, <1>4
<1>7. new # <<>> /\ new[Len(new)][2] = r[2]
  <2>1. Len(c) \in 1..Len(c) /\ Len(new) = l + Len(c)
    BY <1>3, <1>4
  <2>2. new[Len(new)] = c[Len(c)] /\ Len(new) # 0
    BY <1>3, <1>6, <2>1
  <2>3. QED
    BY <1>2, <1>4, <2>2, EmptySeq DEF Cuts
<1>8. ASSUME NEW x \in Nat
      PROVE  (\E i \in 1..Len(new) : new[i][1] <= x /\ x <= new[i][2])
                <=> \E i \in 1..(k + 1) : man[i][1] <= x /\ x <= man[i][2]
  <2>1. (\E i \in 1..l : w[i][1] <= x /\ x <= w[i][2])
           <=> \E i \in 1..k : man[i][1] <= x /\ x <= man[i][2]
    BY DEF Walked, l
  <2>2. x \in r[1]..r[2] <=> \E i \in 1..Len(c) : c[i][1] <= x /\ x <= c[i][2]
    BY <1>1, <1>2, CutsCover
  <2>3. x \in r[1]..r[2] <=> r[1] <= x /\ x <= r[2]
    BY <1>1
  <2>4. (\E i \in 1..Len(new) : new[i][1] <= x /\ x <= new[i][2])
           <=> \/ \E i \in 1..l : w[i][1] <= x /\ x <= w[i][2]
               \/ \E i \in 1..Len(c) : c[i][1] <= x /\ x <= c[i][2]
    BY <1>6
  <2>5. \A i : i \in 1..(k + 1) <=> (i \in 1..k \/ i = k + 1)
    OBVIOUS
  <2>6. QED
    BY <2>1, <2>2, <2>3, <2>4, <2>5
<1>9. ASSUME NEW i \in 1..l
      PROVE  NextChunkAfter(man, Prior(new, i)) = new[i]
  <2>1. Prior(new, i) = Prior(w, i)
    <3>1. i # 1 => i - 1 \in 1..l
      BY <1>3
    <3>2. QED
      BY <1>6, <3>1 DEF Prior
  <2>2. QED
    BY <1>6, <2>1 DEF Walked, l
<1>10. ASSUME NEW prior \in Int, NEW j \in 1..Len(c),
              prior < r[2], Larger(r[1], prior + 1) = c[j][1],
              \A i \in 1..k : man[i][2] <= prior
       PROVE  NextChunkAfter(man, prior) = c[j]
  <2>1. \A i \in 1..Len(man) : i < k + 1 => man[i][2] <= prior
    BY <1>10
  <2>2. NextChunkAfter(man, prior) =
              <<Larger(r[1], prior + 1),
                Smaller(r[2], Larger(r[1], prior + 1) + ChunkSize - 1)>>
    BY <1>10, <2>1, NextIs
  <2>3. c[j] = <<c[j][1], Smaller(r[2], c[j][1] + ChunkSize - 1)>>
    <3>1. c[j] = ChunkAt(c[j][1], r[2])
      BY <1>2 DEF Cuts
    <3>2. QED
      BY <3>1, Zenon DEF ChunkAt
  <2>4. QED
    BY <1>10, <2>2, <2>3
<1>11. ASSUME NEW i \in 1..Len(c)
       PROVE  NextChunkAfter(man, Prior(new, l + i)) = new[l + i]
  <2> DEFINE prior == Prior(new, l + i)
  <2>1. CASE i # 1
    <3>1. i - 1 \in 1..(Len(c) - 1) /\ i - 1 \in 1..Len(c) /\ (i - 1) + 1 = i /\ l + i # 1 /\ (l + i) - 1 = l + (i - 1)
      BY <1>3, <2>1
    <3>2. prior = c[i - 1][2] /\ prior \in Nat
      BY <1>5, <1>6, <3>1 DEF Prior
    <3> HIDE DEF prior
    <3>3. c[i][1] = prior + 1 /\ c[i][2] <= r[2] /\ r[1] <= c[i - 1][1] /\ c[i - 1][1] <= prior
      BY <1>2, <1>5, <3>1, <3>2 DEF Cuts
    <3>4. prior < r[2] /\ Larger(r[1], prior + 1) = c[i][1] /\ r[1] <= prior
      <4>1. c[i - 1][1] \in Nat /\ c[i][1] \in Nat /\ c[i][2] \in Nat /\ c[i][1] <= c[i][2]
        BY <1>5, <3>1
      <4> DEFINE before == c[i - 1]
      <4>2. before[1] \in Nat /\ r[1] <= before[1] /\ before[1] <= prior
        BY <3>3, <4>1
      <4> HIDE DEF before
      <4>3. prior < r[2]
        <5>1. \A p, u, v, e \in Nat : u = p + 1 /\ u <= v /\ v <= e => p < e
          OBVIOUS
        <5>2. c[i][1] = prior + 1 /\ c[i][2] <= r[2] /\ prior \in Nat /\ r[2] \in Nat
          BY <1>1, <3>2, <3>3
        <5>3. QED
          BY <4>1, <5>1, <5>2
      <4>4. r[1] <= prior
        BY <1>1, <3>2, <4>2
      <4>5. ~(r[1] > prior + 1)
        BY <1>1, <3>2, <4>4
      <4>6. Larger(r[1], prior + 1) = prior + 1
        BY <4>5 DEF Larger
      <4>7. QED
        BY <3>3, <4>3, <4>4, <4>6
    <3>5. ASSUME NEW j \in 1..k PROVE man[j][2] <= prior
      <4>1. j \in 1..Len(man) /\ j < k + 1
        BY <1>1
      <4>2. man[j][2] + 1 < r[1] /\ man[j][2] \in Nat
        BY <4>1, RowsApart, RowFacts
      <4>3. \A a, b, p \in Nat : b + 1 < a /\ a <= p => b <= p
        OBVIOUS
      <4>4. QED
        BY <1>1, <3>2, <3>4, <4>2, <4>3
    <3>6. prior \in Int
      BY <3>2
    <3>7. NextChunkAfter(man, prior) = c[i]
      BY <1>10, <3>4, <3>5, <3>6
    <3>8. QED
      BY <1>6, <3>7 DEF prior
  <2>2. CASE i = 1 /\ k = 0
    <3>1. l = 0
      BY <2>2, EmptySeq DEF Walked, l
    <3>2. prior = -1
      BY <2>2, <3>1 DEF Prior
    <3> HIDE DEF prior
    <3>3. Larger(r[1], prior + 1) = c[i][1] /\ prior < r[2]
      BY <1>1, <1>2, <2>2, <3>2 DEF Larger, Cuts
    <3>4. \A j \in 1..k : man[j][2] <= prior
      BY <2>2
    <3>5. NextChunkAfter(man, prior) = c[i]
      BY <1>10, <3>2, <3>3, <3>4
    <3>6. QED
      BY <1>6, <3>5 DEF prior
  <2>3. CASE i = 1 /\ k # 0
    <3>1. w # <<>> /\ w[l][2] = man[k][2]
      BY <2>3 DEF Walked, l
    <3>2. l \in 1..l /\ l # 0
      BY <1>3, <3>1, EmptySeq DEF l
    <3>3. prior = man[k][2]
      <4>1. l + i # 1 /\ (l + i) - 1 = l
        BY <1>3, <2>3, <3>2
      <4>2. prior = new[l][2]
        BY <4>1 DEF Prior
      <4>3. QED
        BY <1>6, <3>1, <3>2, <4>2
    <3> HIDE DEF prior
    <3>4. k \in 1..Len(man) /\ k < k + 1
      BY <1>1, <2>3
    <3>5. prior + 1 < r[1] /\ prior \in Nat
      BY <3>3, <3>4, RowsApart, RowFacts
    <3>6. Larger(r[1], prior + 1) = c[i][1] /\ prior < r[2]
      BY <1>1, <1>2, <2>3, <3>5 DEF Larger, Cuts
    <3>7. ASSUME NEW j \in 1..k PROVE man[j][2] <= prior
      <4>1. j \in 1..Len(man)
        BY <1>1
      <4>2. CASE j = k
        BY <3>3, <3>5, <4>2
      <4>3. CASE j # k
        <5>1. man[j][2] + 1 < man[k][1]
          BY <3>4, <4>1, <4>3, RowsApart
        <5>2. man[j][2] \in Nat /\ man[k][1] \in Nat /\ man[k][2] \in Nat /\ man[k][1] <= man[k][2]
          BY <3>4, <4>1, RowFacts
        <5>3. QED
          BY <3>3, <5>1, <5>2
      <4>4. QED
        BY <4>2, <4>3
    <3>8. NextChunkAfter(man, prior) = c[i]
      BY <1>10, <3>5, <3>6, <3>7
    <3>9. QED
      BY <1>6, <3>8 DEF prior
  <2>4. QED
    BY <2>1, <2>2, <2>3
<1>12. \A i \in 1..Len(new) : NextChunkAfter(man, Prior(new, i)) = new[i]
  BY <1>6, <1>9, <1>11
<1>13. QED
  BY <1>4, <1>7, <1>8, <1>12 DEF Walked, new

\* The whole walk: the chunks of every row of the manifest.
LEMMA WalkIsExact ==
    ASSUME NEW ranges \in SUBSET Intervals
    PROVE  LET man == NormalizeRanges(ranges)
           IN  Walked(ChunkIntervals(ranges), man, Len(man))
<1> DEFINE man == NormalizeRanges(ranges)
           n == Len(man)
<1>1. Canonical(man, Numbers(ranges))
  BY NormalizeIsExact
<1>2. n \in Nat /\ man \in [1..n -> Intervals]
  <2>1. man \in Seq(Rows) /\ n \in Nat /\ man \in [1..n -> Rows]
    BY <1>1, LenProperties DEF Canonical
  <2>2. \A i \in 1..n : man[i] \in Intervals
    BY ManifestRows
  <2> HIDE DEF man
  <2>3. QED
    BY <2>1, <2>2
<1>3. PICK h : /\ h[0] = <<>>
               /\ h[n] = ChunkIntervals(ranges)
               /\ \A k \in 1..n : h[k] = JoinChunks(h[k - 1], man[k])
  <2> HIDE DEF n
  <2> QED
    BY <1>2, ChunkPasses
<1> HIDE DEF man
<1> DEFINE Good == {k \in 0..n : Walked(h[k], man, k)}
<1>4. 0 \in Good
  <2> DEFINE none == <<>>
  <2>1. none \in Seq(Rows) /\ Len(none) = 0
    BY EmptySeq
  <2> HIDE DEF none
  <2>2. h[0] = none
    BY <1>3 DEF none
  <2>3. Walked(none, man, 0)
    <3>1. \A x \in Nat : (\E i \in 1..Len(none) : none[i][1] <= x /\ x <= none[i][2])
                         <=> \E i \in 1..0 : man[i][1] <= x /\ x <= man[i][2]
      BY <2>1
    <3>2. none = <<>>
      BY DEF none
    <3>3. \A i \in 1..Len(none) : NextChunkAfter(man, Prior(none, i)) = none[i]
      BY <2>1
    <3>4. QED
      BY <2>1, <3>1, <3>2, <3>3 DEF Walked
  <2>4. QED
    BY <1>2, <2>2, <2>3
<1>5. ASSUME NEW k \in 0..(n - 1), k \in Good
      PROVE  k + 1 \in Good
  <2>1. k \in Nat /\ k + 1 \in 1..n /\ (k + 1) - 1 = k /\ k + 1 \in 0..n
    BY <1>2
  <2>2. Walked(h[k], man, k) /\ h[k + 1] = JoinChunks(h[k], man[k + 1])
    BY <1>3, <1>5, <2>1
  <2>3. Walked(h[k + 1], man, k + 1)
    BY <1>1, <2>1, <2>2, WalkGoesOn DEF n, man
  <2>4. QED
    BY <2>1, <2>3
<1>6. 0..n \subseteq Good
  <2> HIDE DEF Good, n
  <2> QED
    BY <1>2, <1>4, <1>5, Climb
<1>7. n \in 0..n
  BY <1>2
<1>8. QED
  BY <1>3, <1>6, <1>7 DEF man

\* Both schedules, from each advertised number and from the start.
LEMMA AuditIsExact == IInv => AuditStepsForward
<1> SUFFICES ASSUME IInv PROVE AuditStepsForward
  OBVIOUS
<1> DEFINE N == Numbers(advertised)
           man == NormalizeRanges(advertised)
           walk == ChunkIntervals(advertised)
<1>1. advertised \in SUBSET Intervals
  BY DEF IInv, TypeInv
<1>2. Canonical(man, N)
  BY <1>1, NormalizeIsExact
<1>3. Walked(walk, man, Len(man))
  BY <1>1, WalkIsExact
<1>4. \A x \in N : x \in Nat
  BY <1>1, TableNumbers
<1> HIDE DEF N, man, walk
<1>5. walk \in Seq(Rows) /\ DOMAIN walk = 1..Len(walk)
  BY <1>3, LenProperties DEF Walked
<1>6. Numbers(ToSet(walk)) = N
  <2>1. SUFFICES ASSUME NEW x PROVE x \in Numbers(ToSet(walk)) <=> x \in N
    OBVIOUS
  <2>2. x \in Numbers(ToSet(walk)) <=>
           \E i \in 1..Len(walk) : x \in Nat /\ walk[i][1] <= x /\ x <= walk[i][2]
    BY <1>5, InNumbers
  <2>3. x \in N <=> \E i \in 1..Len(man) : x \in Nat /\ man[i][1] <= x /\ x <= man[i][2]
    BY <1>2, InCanonical
  <2>4. QED
    BY <1>3, <2>2, <2>3 DEF Walked
<1>7. \A i \in DOMAIN walk :
         NextChunkAfter(man, IF i = 1 THEN -1 ELSE walk[i - 1][2]) = walk[i]
  BY <1>3, <1>5 DEF Walked, Prior
<1>8. N \in SUBSET Nat
  BY <1>4
<1>9. \A prior \in {-1} \cup N :
         LET rest  == {n \in N : n > prior}
             chunk == NextChunkAfter(man, prior)
         IN  IF rest = {} THEN chunk = <<>>
             ELSE /\ chunk[1] = Min(rest)
                  /\ chunk[1]..chunk[2] \subseteq rest
                  /\ chunk[2] - chunk[1] < ChunkSize
                  /\ \/ chunk[2] - chunk[1] = ChunkSize - 1
                     \/ chunk[2] + 1 \notin rest
  BY <1>2, <1>8, StepIsExact
<1>10. QED
  BY <1>6, <1>7, <1>9, Zenon DEF AuditStepsForward, N, man, walk

(* From any advertised number, and from none, _next_manifest_chunk_after    *)
(* goes on to the first advertised number after it and stays inside the     *)
(* chunk size and the advertised numbers; stepped from its own answers it   *)
(* walks exactly the list of chunk_intervals, and that list holds every     *)
(* advertised number and no other.                                          *)
THEOREM AuditExact == Spec => []AuditStepsForward
<1>1. Init => IInv
  BY InitExact
<1>2. IInv /\ [Next]_vars => IInv'
  BY NextExact
<1>3. QED
  BY <1>1, <1>2, AuditIsExact, PTL DEF Spec
=============================================================================
