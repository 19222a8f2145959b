------------------------------ MODULE ListsProofs ------------------------------
(***************************************************************************)
(* What the other proofs need of natural numbers, of places in a file and  *)
(* of the lines at some of them.  The induction theorems of the library    *)
(* take an operator; here induction is stated for sets.                    *)
(***************************************************************************)
EXTENDS Lists, FiniteSetTheorems, WellFoundedInduction, TLAPS

Less == {e \in Nat \X Nat : e[1] < e[2]}

LEMMA LessIs == OpToRel(<, Nat) = Less
BY Zenon DEF OpToRel, Less

LEMMA LessWellFounded == IsWellFoundedOn(Less, Nat)
BY LessIs, NatLessThanWellFounded, Zenon

\* Every set of natural numbers that is not empty has a least element.
LEMMA LeastOf ==
    ASSUME NEW T \in SUBSET Nat, T # {}
    PROVE  \E x \in T : \A y \in T : x <= y
<1>1. PICK x \in T : \A y \in T : <<y, x>> \notin Less
  BY LessWellFounded, WFMin
<1>2. ASSUME NEW y \in T
      PROVE  x <= y
  <2>1. <<y, x>> \notin Less
    BY <1>1
  <2>2. QED
    BY <2>1 DEF Less
<1>3. QED
  BY <1>2

\* Induction: a set with 0 in it, and with the next number of each of its numbers, has
\* all natural numbers in it.
LEMMA SetInduction ==
    ASSUME NEW T, 0 \in T, \A n \in Nat : n \in T => n + 1 \in T
    PROVE  Nat \subseteq T
<1> SUFFICES ASSUME Nat \ T # {}
             PROVE  FALSE
  OBVIOUS
<1>1. PICK x \in Nat \ T : \A y \in Nat \ T : x <= y
  BY LeastOf
<1>2. x # 0 /\ x - 1 \in Nat
  BY <1>1
<1>3. x - 1 \in T
  BY <1>1, <1>2
<1>4. QED
  BY <1>1, <1>2, <1>3

---------------------------------------------------------------------------
\* Folds.  A fold takes the elements of a set one by one, as c chooses them.

Chooses(c, D) == \A S \in SUBSET D : S # {} => c[S] \in S

\* A subset of D is in T if it is in T without the element that c chooses.
PassedOn(T, c, D) ==
    /\ {} \in T
    /\ \A S \in SUBSET D : S # {} /\ S \ {c[S]} \in T => S \in T

\* Induction over the subsets of a finite set.
LEMMA SubsetInduction ==
    ASSUME NEW D, IsFiniteSet(D), NEW c, Chooses(c, D), NEW T, PassedOn(T, c, D)
    PROVE  SUBSET D \subseteq T
<1> USE DEF Chooses, PassedOn
<1> DEFINE Small(n) == {S \in SUBSET D : Cardinality(S) <= n}
           N == {n \in Nat : Small(n) \subseteq T}
<1>1. \A S \in SUBSET D : IsFiniteSet(S) /\ Cardinality(S) \in Nat
  BY FS_Subset, FS_CardinalityType
<1>2. 0 \in N
  <2>1. ASSUME NEW S \in SUBSET D, Cardinality(S) <= 0
        PROVE  S = {}
    BY <1>1, <2>1, FS_EmptySet
  <2>2. QED
    BY <2>1
<1>3. ASSUME NEW n \in Nat, n \in N
      PROVE  n + 1 \in N
  <2>1. ASSUME NEW S \in SUBSET D, Cardinality(S) <= n + 1, S # {}
        PROVE  S \in T
    <3>1. c[S] \in S /\ S \ {c[S]} \in SUBSET D
      BY <2>1
    <3>2. Cardinality(S \ {c[S]}) = Cardinality(S) - 1
      BY <1>1, <3>1, FS_RemoveElement
    <3>3. Cardinality(S \ {c[S]}) <= n
      BY <1>1, <2>1, <3>2
    <3>4. S \ {c[S]} \in T
      BY <1>3, <3>1, <3>3
    <3>5. QED
      BY <2>1, <3>4
  <2>2. Small(n + 1) \subseteq T
    BY <2>1
  <2>3. QED
    BY <2>2
<1>4. Cardinality(D) \in N
  <2> HIDE DEF N
  <2>1. Nat \subseteq N
    BY <1>2, <1>3, SetInduction
  <2>2. QED
    BY <2>1, FS_CardinalityType
<1>5. ASSUME NEW S \in SUBSET D
      PROVE  S \in T
  <2>1. Cardinality(S) <= Cardinality(D)
    BY FS_Subset
  <2>2. QED
    BY <1>4, <2>1
<1>6. QED
  BY <1>5

\* f gives each subset of D the value in V that G makes, from b, of its elements.
FoldOf(f, D, c, V, b, G) ==
    /\ f \in [SUBSET D -> V]
    /\ \A S \in SUBSET D : f[S] = IF S = {} THEN b ELSE G[<<f[S \ {c[S]}], c[S]>>]

LEMMA FoldExists ==
    ASSUME NEW D, IsFiniteSet(D), NEW c, Chooses(c, D),
           NEW V, NEW b, b \in V, NEW G, G \in [V \X D -> V]
    PROVE  \E f : FoldOf(f, D, c, V, b, G)
<1> USE DEF Chooses
<1> DEFINE Right(f, S) == f[S] = IF S = {} THEN b ELSE G[<<f[S \ {c[S]}], c[S]>>]
           Upto(f, n) == \A S \in SUBSET D : Cardinality(S) <= n => Right(f, S)
           N == {n \in Nat : \E f \in [SUBSET D -> V] : Upto(f, n)}
<1>1. \A S \in SUBSET D : IsFiniteSet(S) /\ Cardinality(S) \in Nat
  BY FS_Subset, FS_CardinalityType
<1>2. 0 \in N
  <2> DEFINE f == [S \in SUBSET D |-> b]
  <2>1. ASSUME NEW S \in SUBSET D, Cardinality(S) <= 0
        PROVE  S = {}
    BY <1>1, <2>1, FS_EmptySet
  <2>2. Upto(f, 0) /\ f \in [SUBSET D -> V]
    BY <2>1
  <2> HIDE DEF f, Upto
  <2>3. QED
    BY <2>2
<1>3. ASSUME NEW n \in Nat, n \in N
      PROVE  n + 1 \in N
  <2>1. PICK f \in [SUBSET D -> V] : Upto(f, n)
    BY <1>3
  <2> DEFINE Value(S) == IF S = {} THEN b ELSE G[<<f[S \ {c[S]}], c[S]>>]
             g == [S \in SUBSET D |-> Value(S)]
  <2>2. ASSUME NEW S \in SUBSET D
        PROVE  Value(S) \in V
    <3>1. CASE S # {}
      <4>1. c[S] \in D /\ f[S \ {c[S]}] \in V
        BY <2>1, <3>1
      <4>2. <<f[S \ {c[S]}], c[S]>> \in V \X D
        BY <4>1
      <4>3. QED
        BY <3>1, <4>2
    <3>2. QED
      BY <3>1
  <2>3. g \in [SUBSET D -> V]
    BY <2>2
  <2>4. ASSUME NEW S \in SUBSET D, Cardinality(S) <= n + 1
        PROVE  Right(g, S)
    <3>1. CASE S = {}
      BY <3>1
    <3>2. CASE S # {}
      <4> DEFINE R == S \ {c[S]}
      <4>1. c[S] \in S /\ R \in SUBSET D
        BY <3>2
      <4>2. Cardinality(R) = Cardinality(S) - 1
        BY <1>1, <4>1, FS_RemoveElement
      <4>3. Cardinality(R) <= n
        BY <1>1, <2>4, <4>2
      <4>4. f[R] = Value(R)
        BY <2>1, <4>1, <4>3
      <4>5. g[R] = f[R]
        BY <4>1, <4>4
      <4>6. g[S] = G[<<f[R], c[S]>>]
        BY <3>2
      <4> HIDE DEF g, R
      <4>7. g[S] = G[<<g[R], c[S]>>]
        BY <4>5, <4>6
      <4>8. QED
        BY <3>2, <4>7 DEF R
    <3>3. QED
      BY <3>1, <3>2
  <2>5. Upto(g, n + 1)
    BY <2>4
  <2> HIDE DEF g, Upto
  <2>6. QED
    BY <2>3, <2>5
<1>4. Cardinality(D) \in N
  <2> HIDE DEF N
  <2>1. Nat \subseteq N
    BY <1>2, <1>3, SetInduction
  <2>2. QED
    BY <2>1, FS_CardinalityType
<1>5. PICK f \in [SUBSET D -> V] : Upto(f, Cardinality(D))
  BY <1>4
<1>6. \A S \in SUBSET D : Cardinality(S) <= Cardinality(D)
  BY FS_Subset
<1>7. \A S \in SUBSET D : Right(f, S)
  BY <1>5, <1>6
<1>8. FoldOf(f, D, c, V, b, G)
  BY <1>7 DEF FoldOf
<1>9. QED
  BY <1>8

\* A set of natural numbers that has a bound, and is not empty, has a greatest element.
LEMMA GreatestOf ==
    ASSUME NEW n \in Nat, NEW S \in SUBSET (1 .. n), S # {}
    PROVE  \E x \in S : \A y \in S : x >= y
<1> DEFINE T == {k \in Nat : \E x \in S : k = n - x}
<1>1. T # {}
  <2>1. PICK x \in S : TRUE
    OBVIOUS
  <2>2. n - x \in T
    BY <2>1
  <2>3. QED
    BY <2>2
<1>2. PICK k \in T : \A j \in T : k <= j
  <2> HIDE DEF T
  <2>1. T \in SUBSET Nat
    BY DEF T
  <2>2. QED
    BY <1>1, <2>1, LeastOf
<1>3. PICK x \in S : k = n - x
  OBVIOUS
<1>4. ASSUME NEW y \in S
      PROVE  x >= y
  <2>1. n - y \in T
    OBVIOUS
  <2>2. k <= n - y
    BY <1>2, <2>1
  <2>3. QED
    BY <1>3, <2>2
<1>5. QED
  BY <1>4

\* The function that chooses the greatest place.
Latest(s) == [S \in SUBSET DOMAIN s |-> CHOOSE x \in S : \A y \in S : x >= y]

\* By it the folds of the community modules go over a list.
LEMMA LatestIs ==
    ASSUME NEW L, NEW s \in Seq(L)
    PROVE  IsFiniteSet(DOMAIN s) /\ Chooses(Latest(s), DOMAIN s)
<1>1. DOMAIN s = 1 .. Len(s) /\ Len(s) \in Nat
  OBVIOUS
<1>2. IsFiniteSet(DOMAIN s)
  BY <1>1, FS_Interval
<1>3. ASSUME NEW S \in SUBSET DOMAIN s, S # {}
      PROVE  Latest(s)[S] \in S
  <2>1. \E x \in S : \A y \in S : x >= y
    BY <1>1, <1>3, GreatestOf
  <2>2. QED
    BY <2>1, Zenon DEF Latest
<1>4. QED
  BY <1>2, <1>3 DEF Chooses

---------------------------------------------------------------------------
\* The ranks of the places in a finite set

LEMMA RankBounds ==
    ASSUME NEW K \in SUBSET Int, IsFiniteSet(K), NEW k \in K
    PROVE  Rank(K, k) \in 1 .. Cardinality(K)
<1> DEFINE L == {h \in K : h <= k}
<1>1. IsFiniteSet(L) /\ Cardinality(L) <= Cardinality(K)
  BY FS_Subset
<1>2. k \in L
  OBVIOUS
<1>3. Cardinality(L) \in Nat /\ Cardinality(L) # 0 /\ Cardinality(K) \in Nat
  BY <1>1, <1>2, FS_EmptySet, FS_CardinalityType
<1>4. QED
  BY <1>1, <1>3 DEF Rank

LEMMA RankAscends ==
    ASSUME NEW K \in SUBSET Int, IsFiniteSet(K), NEW j \in K, NEW k \in K, j < k
    PROVE  Rank(K, j) < Rank(K, k)
<1> DEFINE L(h) == {i \in K : i <= h}
<1>1. L(j) \subseteq L(k)
  <2>1. \A i \in Int : i <= j => i <= k
    OBVIOUS
  <2>2. QED
    BY <2>1
<1>2. k \in L(k) /\ k \notin L(j)
  OBVIOUS
<1>3. IsFiniteSet(L(k)) /\ IsFiniteSet(L(j))
  BY FS_Subset
<1>4. Cardinality(L(j)) <= Cardinality(L(k)) /\ Cardinality(L(j)) # Cardinality(L(k))
  BY <1>1, <1>2, <1>3, FS_Subset, Zenon
<1>5. Cardinality(L(j)) \in Nat /\ Cardinality(L(k)) \in Nat
  BY <1>3, FS_CardinalityType
<1>6. QED
  BY <1>4, <1>5 DEF Rank

\* Every rank up to the number of places is the rank of one place.
LEMMA RankOnto ==
    ASSUME NEW K \in SUBSET Int, IsFiniteSet(K), NEW i \in 1 .. Cardinality(K)
    PROVE  \E k \in K : Rank(K, k) = i
<1> DEFINE f == [k \in K |-> Rank(K, k)]
           n == Cardinality(K)
<1>1. f \in [K -> 1 .. n]
  BY RankBounds
<1>2. \A j, k \in K : f[j] = f[k] => j = k
  <2> SUFFICES ASSUME NEW j \in K, NEW k \in K, f[j] = f[k], j # k
               PROVE  FALSE
    OBVIOUS
  <2>1. CASE j < k
    BY <2>1, <1>1, RankAscends
  <2>2. CASE k < j
    BY <2>2, <1>1, RankAscends
  <2>3. QED
    BY <2>1, <2>2
<1>3. f \in Injection(K, 1 .. n)
  BY <1>1, <1>2 DEF Injection, IsInjective
<1>4. n \in Nat
  BY FS_CardinalityType
<1>5. IsFiniteSet(1 .. n) /\ Cardinality(1 .. n) = n
  BY <1>4, FS_Interval
<1>6. f \in Surjection(K, 1 .. n)
  BY <1>3, <1>5, FS_Injection
<1>7. QED
  BY <1>6 DEF Surjection

LEMMA RankInjective ==
    ASSUME NEW K \in SUBSET Int, IsFiniteSet(K), NEW j \in K, NEW k \in K,
           Rank(K, j) = Rank(K, k)
    PROVE  j = k
<1>1. Rank(K, j) \in Int /\ Rank(K, k) \in Int
  BY RankBounds
<1>2. ~(j < k) /\ ~(k < j)
  BY <1>1, RankAscends
<1>3. QED
  BY <1>2

---------------------------------------------------------------------------
\* What Keep keeps, and where

LEMMA KeepIs ==
    ASSUME NEW S, NEW s \in Seq(S), NEW K \in SUBSET DOMAIN s
    PROVE  /\ IsFiniteSet(K) /\ Cardinality(K) \in Nat
           /\ Keep(s, K) \in Seq(S)
           /\ Len(Keep(s, K)) = Cardinality(K)
           /\ DOMAIN Keep(s, K) = 1 .. Cardinality(K)
           /\ \A k \in K : Rank(K, k) \in 1 .. Cardinality(K) /\ Keep(s, K)[Rank(K, k)] = s[k]
           /\ \A i \in DOMAIN Keep(s, K) :
                  \E k \in K : Rank(K, k) = i /\ Keep(s, K)[i] = s[k]
<1> DEFINE n == Cardinality(K)
<1>1. K \subseteq 1 .. Len(s) /\ Len(s) \in Nat /\ K \in SUBSET Int
  OBVIOUS
<1>2. IsFiniteSet(K) /\ n \in Nat
  <2>1. IsFiniteSet(1 .. Len(s))
    BY <1>1, FS_Interval
  <2>2. QED
    BY <2>1, <1>1, FS_Subset, FS_CardinalityType
<1>3. \A k \in K : Rank(K, k) \in 1 .. n
  BY <1>1, <1>2, RankBounds
<1>4. ASSUME NEW i \in 1 .. n
      PROVE  LET k == CHOOSE k \in K : Rank(K, k) = i IN k \in K /\ Rank(K, k) = i
  BY <1>1, <1>2, RankOnto
<1>5. ASSUME NEW k \in K
      PROVE  Keep(s, K)[Rank(K, k)] = s[k]
  <2> DEFINE i == Rank(K, k)
             h == CHOOSE h \in K : Rank(K, h) = i
  <2>1. i \in 1 .. n
    BY <1>3
  <2>2. h \in K /\ Rank(K, h) = i
    BY <2>1, <1>4
  <2>3. h = k
    BY <2>2, <1>1, <1>2, RankInjective
  <2>4. Keep(s, K)[i] = s[h]
    BY <2>1 DEF Keep
  <2>5. QED
    BY <2>3, <2>4
<1>6. ASSUME NEW i \in 1 .. n
      PROVE  \E k \in K : Rank(K, k) = i /\ Keep(s, K)[i] = s[k]
  BY <1>4, <1>5
<1>7. Keep(s, K) \in [1 .. n -> S]
  <2>1. \A i \in 1 .. n : Keep(s, K)[i] \in S
    BY <1>6, <1>1
  <2>2. QED
    BY <2>1 DEF Keep
<1>8. Keep(s, K) \in Seq(S) /\ Len(Keep(s, K)) = n /\ DOMAIN Keep(s, K) = 1 .. n
  BY <1>7, <1>2
<1>9. QED
  BY <1>2, <1>3, <1>5, <1>6, <1>8

LEMMA KeptOnce ==
    ASSUME NEW S, NEW s \in Seq(S), NEW K \in SUBSET DOMAIN s, NEW M \in SUBSET K,
           NEW k \in M, M = {k}
    PROVE  {i \in DOMAIN Keep(s, K) : \E h \in M : Rank(K, h) = i} = {Rank(K, k)}
<1>1. Rank(K, k) \in DOMAIN Keep(s, K)
  BY KeepIs
<1>2. QED
  BY <1>1

---------------------------------------------------------------------------
\* Largest numbers

LEMMA LargestOf ==
    ASSUME NEW K \in SUBSET Int, IsFiniteSet(K), K # {}
    PROVE  \E n \in K : \A m \in K : m <= n
<1> DEFINE c == Cardinality(K)
<1>1. c \in Nat /\ c # 0
  BY FS_CardinalityType, FS_EmptySet
<1>2. PICK n \in K : Rank(K, n) = c
  BY <1>1, RankOnto
<1>3. ASSUME NEW m \in K
      PROVE  m <= n
  <2>1. ~(n < m)
    BY <1>1, <1>2, RankAscends, RankBounds
  <2>2. QED
    BY <2>1
<1>4. QED
  BY <1>3

\* If one of finitely many has number 0 and no number is left out, then all numbers are
\* smaller than their number.
LEMMA DenseIsBounded ==
    ASSUME NEW R, IsFiniteSet(R), NEW f \in [R -> Nat], NEW r \in R, f[r] = 0,
           NEW p \in R, \A n \in 1 .. f[p] : \E q \in R : f[q] = n
    PROVE  Cardinality(R) \in Nat /\ f[p] < Cardinality(R)
<1> DEFINE T == R \ {r}
           m == f[p]
           g == [q \in T |-> IF f[q] \in 1 .. m THEN f[q] ELSE 1]
<1>1. IsFiniteSet(T) /\ Cardinality(T) = Cardinality(R) - 1
      /\ Cardinality(R) \in Nat /\ Cardinality(T) \in Nat
  BY FS_RemoveElement, FS_CardinalityType
<1>2. CASE m = 0
  BY <1>1, <1>2
<1>3. CASE m # 0
  <2>1. m \in Nat \ {0} /\ 1 \in 1 .. m
    BY <1>3
  <2>2. g \in [T -> 1 .. m]
    BY <2>1
  <2>3. ASSUME NEW n \in 1 .. m
        PROVE  \E q \in T : g[q] = n
    <3>1. PICK q \in R : f[q] = n
      OBVIOUS
    <3>2. q \in T
      BY <3>1
    <3>3. QED
      BY <3>1, <3>2
  <2>4. g \in Surjection(T, 1 .. m)
    BY <2>2, <2>3 DEF Surjection
  <2>5. Cardinality(1 .. m) <= Cardinality(T) /\ Cardinality(1 .. m) = m
    BY <1>1, <2>1, <2>4, FS_Surjection, FS_Interval
  <2>6. QED
    BY <1>1, <2>1, <2>5
<1>4. QED
  BY <1>2, <1>3
==============================================================================
