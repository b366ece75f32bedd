------------------------- MODULE SubsequencesProofs -------------------------
(***************************************************************************)
(* Ranks number the members of a finite set of integers, and counting the  *)
(* earlier ones those of any finite set in a total order.                  *)
(***************************************************************************)
EXTENDS Subsequences, FiniteSetTheorems, TLAPS

\* A rank is a position of the subsequence.
LEMMA RankType ==
  ASSUME NEW S \in SUBSET Int, IsFiniteSet(S), NEW i \in S
  PROVE  Rank(S, i) \in 1..Cardinality(S)
  <1> DEFINE T == {j \in S : j <= i}
  <1>1. IsFiniteSet(T) /\ Cardinality(T) <= Cardinality(S)
    BY FS_Subset
  <1>2. Cardinality(T) \in Nat /\ Cardinality(S) \in Nat
    BY <1>1, FS_CardinalityType
  <1>3. Cardinality(T) # 0
    <2>1. i \in T
      OBVIOUS
    <2> QED
      BY <1>1, <2>1, FS_EmptySet
  <1> QED
    BY <1>1, <1>2, <1>3 DEF Rank

\* A later position has a greater rank.
LEMMA RankGrows ==
  ASSUME NEW S \in SUBSET Int, IsFiniteSet(S), NEW i \in S, NEW j \in S, i < j
  PROVE  Rank(S, i) < Rank(S, j)
  <1> DEFINE T == {l \in S : l <= i}
             U == {l \in S : l <= j}
  <1>1. IsFiniteSet(T) /\ IsFiniteSet(U)
    BY FS_Subset
  <1>2. T \in SUBSET U /\ T # U
    <2>1. j \in U /\ j \notin T
      OBVIOUS
    <2>2. \A l \in T : l \in U
      OBVIOUS
    <2> QED
      BY <2>1, <2>2
  <1>3. Cardinality(T) <= Cardinality(U) /\ Cardinality(T) # Cardinality(U)
    BY <1>1, <1>2, FS_Subset
  <1>4. Cardinality(T) \in Nat /\ Cardinality(U) \in Nat
    BY <1>1, FS_CardinalityType
  <1> QED
    BY <1>3, <1>4 DEF Rank

\* So ranks tell positions apart and order them.
LEMMA RankOrders ==
  ASSUME NEW S \in SUBSET Int, IsFiniteSet(S), NEW i \in S, NEW j \in S
  PROVE  /\ Rank(S, i) = Rank(S, j) <=> i = j
         /\ Rank(S, i) < Rank(S, j) <=> i < j
  <1>1. Rank(S, i) \in Int /\ Rank(S, j) \in Int
    BY RankType
  <1>2. i < j => Rank(S, i) < Rank(S, j)
    BY RankGrows
  <1>3. j < i => Rank(S, j) < Rank(S, i)
    BY RankGrows
  <1> QED
    BY <1>1, <1>2, <1>3

\* Every number up to the cardinality is the rank of exactly one position.
LEMMA NthExists ==
  ASSUME NEW S \in SUBSET Int, IsFiniteSet(S), NEW k \in 1..Cardinality(S)
  PROVE  Nth(S, k) \in S /\ Rank(S, Nth(S, k)) = k
  <1> DEFINE n == Cardinality(S)
             rank == [i \in S |-> Rank(S, i)]
  <1>1. n \in Nat
    BY FS_CardinalityType
  <1>2. rank \in [S -> 1..n]
    BY RankType
  <1>3. \A i, j \in S : rank[i] = rank[j] => i = j
    BY RankOrders
  <1>4. rank \in Injection(S, 1..n)
    BY <1>2, <1>3 DEF Injection, IsInjective
  <1>5. IsFiniteSet(1..n) /\ Cardinality(1..n) = n
    BY <1>1, FS_Interval
  <1>6. rank \in Surjection(S, 1..n)
    BY <1>4, <1>5, FS_Injection
  <1>7. \E i \in S : Rank(S, i) = k
    BY <1>6 DEF Surjection
  <1> QED
    BY <1>7 DEF Nth

\* Rank and Nth undo each other.
LEMMA NthOfRank ==
  ASSUME NEW S \in SUBSET Int, IsFiniteSet(S), NEW i \in S
  PROVE  Nth(S, Rank(S, i)) = i
  <1>1. Rank(S, i) \in 1..Cardinality(S)
    BY RankType
  <1>2. Nth(S, Rank(S, i)) \in S /\ Rank(S, Nth(S, Rank(S, i))) = Rank(S, i)
    BY <1>1, NthExists
  <1> QED
    BY <1>2, RankOrders

\* A map between two sets of positions that keeps their order keeps their ranks.
LEMMA RankKept ==
  ASSUME NEW S \in SUBSET Int, IsFiniteSet(S), NEW T \in SUBSET Int, IsFiniteSet(T),
         NEW f \in [S -> T],
         \A i, j \in S : i < j => f[i] < f[j],
         \A t \in T : \E i \in S : f[i] = t
  PROVE  /\ Cardinality(S) = Cardinality(T)
         /\ \A i \in S : Rank(T, f[i]) = Rank(S, i)
  <1>0. \A i, j \in S : i \in Int /\ j \in Int /\ f[i] \in Int /\ f[j] \in Int
    OBVIOUS
  <1>1. \A i, j \in S : (f[i] = f[j] => i = j) /\ (f[i] <= f[j] <=> i <= j)
    BY <1>0
  <1>2. ASSUME NEW A \in SUBSET S, NEW B \in SUBSET T,
               \A i \in S : i \in A <=> f[i] \in B
        PROVE  Cardinality(A) = Cardinality(B)
    <2> DEFINE g == [i \in A |-> f[i]]
    <2>1. IsFiniteSet(A)
      BY FS_Subset
    <2>2. g \in [A -> B]
      BY <1>2
    <2>3. \A i, j \in A : g[i] = g[j] => i = j
      BY <1>1
    <2>4. \A t \in B : \E i \in A : g[i] = t
      BY <1>2
    <2>5. g \in Bijection(A, B)
      BY <2>2, <2>3, <2>4 DEF Bijection, Injection, IsInjective, Surjection
    <2> QED
      BY <2>1, <2>5, FS_Bijection DEF ExistsBijection
  <1>3. Cardinality(S) = Cardinality(T)
    BY <1>2
  <1>4. ASSUME NEW i \in S PROVE Rank(T, f[i]) = Rank(S, i)
    <2> DEFINE A == {j \in S : j <= i}
               B == {t \in T : t <= f[i]}
    <2>1. \A j \in S : j \in A <=> f[j] \in B
      BY <1>1
    <2>2. A \in SUBSET S /\ B \in SUBSET T
      OBVIOUS
    <2>3. Cardinality(A) = Cardinality(B)
      BY <1>2, <2>1, <2>2
    <2> QED
      BY <2>3 DEF Rank
  <1> QED
    BY <1>3, <1>4

-----------------------------------------------------------------------------
(***************************************************************************)
(* A set in an order.                                                      *)
(***************************************************************************)
\* A strict total order of a set.
Orders(S, before) ==
  /\ \A s \in S : <<s, s>> \notin before
  /\ \A s, t \in S : s # t => <<s, t>> \in before \/ <<t, s>> \in before
  /\ \A s, t, u \in S : <<s, t>> \in before /\ <<t, u>> \in before => <<s, u>> \in before

\* Fewer members come before an earlier one.
LEMMA EarlierGrows ==
  ASSUME NEW S, IsFiniteSet(S), NEW before, Orders(S, before),
         NEW s \in S, NEW t \in S, <<s, t>> \in before
  PROVE  Cardinality(Earlier(S, before, s)) < Cardinality(Earlier(S, before, t))
  <1> DEFINE A == Earlier(S, before, s)
             B == Earlier(S, before, t)
  <1>1. A \in SUBSET B
    BY DEF Earlier, Orders
  <1>2. s \in B /\ s \notin A
    BY DEF Earlier, Orders
  <1>3. IsFiniteSet(B) /\ IsFiniteSet(A)
    <2>1. B \in SUBSET S /\ A \in SUBSET S
      BY DEF Earlier
    <2> QED
      BY <2>1, FS_Subset
  <1>4. Cardinality(A) <= Cardinality(B) /\ Cardinality(A) # Cardinality(B)
    BY <1>1, <1>2, <1>3, FS_Subset
  <1>5. Cardinality(A) \in Nat /\ Cardinality(B) \in Nat
    BY <1>3, FS_CardinalityType
  <1> QED
    BY <1>4, <1>5

\* The members of a finite set in a total order: all of them, each once, sorted.
LEMMA InOrderSorts ==
  ASSUME NEW S, IsFiniteSet(S), NEW before, Orders(S, before)
  PROVE  /\ Cardinality(S) \in Nat
         /\ InOrder(S, before) \in [1..Cardinality(S) -> S]
         /\ \A s \in S : \E k \in 1..Cardinality(S) : InOrder(S, before)[k] = s
         /\ \A j, k \in 1..Cardinality(S) :
              j < k => <<InOrder(S, before)[j], InOrder(S, before)[k]>> \in before
  <1> DEFINE n == Cardinality(S)
             sorted == InOrder(S, before)
             Place(s) == Cardinality(Earlier(S, before, s)) + 1
             place == [s \in S |-> Place(s)]
  <1>1. n \in Nat
    BY FS_CardinalityType
  <1>2. ASSUME NEW s \in S PROVE Place(s) \in 1..n
    <2> DEFINE A == Earlier(S, before, s)
    <2>1. A \in SUBSET S /\ s \notin A
      BY DEF Earlier, Orders
    <2>2. IsFiniteSet(A) /\ Cardinality(A) <= n /\ Cardinality(A) # n
      BY <2>1, FS_Subset
    <2>3. Cardinality(A) \in Nat
      BY <2>2, FS_CardinalityType
    <2> QED
      BY <1>1, <2>2, <2>3
  <1>3. ASSUME NEW s \in S, NEW t \in S, <<s, t>> \in before
        PROVE  Place(s) < Place(t)
    <2> DEFINE c == Cardinality(Earlier(S, before, s))
               e == Cardinality(Earlier(S, before, t))
    <2>1. c + 1 \in 1..n /\ e + 1 \in 1..n
      BY <1>2
    <2>2. c < e
      BY <1>3, EarlierGrows
    <2>3. IsFiniteSet(Earlier(S, before, s)) /\ IsFiniteSet(Earlier(S, before, t))
      BY FS_Subset DEF Earlier
    <2>4. c \in Nat /\ e \in Nat
      BY <2>3, FS_CardinalityType
    <2> QED
      BY <2>2, <2>4
  <1>4. ASSUME NEW s \in S, NEW t \in S
        PROVE  /\ Place(s) = Place(t) => s = t
               /\ Place(s) < Place(t) => <<s, t>> \in before
    <2>1. Place(s) \in Nat /\ Place(t) \in Nat
      BY <1>1, <1>2
    <2>2. /\ <<s, t>> \in before => Place(s) < Place(t)
          /\ <<t, s>> \in before => Place(t) < Place(s)
      BY <1>3
    <2>3. s = t \/ <<s, t>> \in before \/ <<t, s>> \in before
      BY DEF Orders
    <2> HIDE DEF Place
    <2> QED
      BY <2>1, <2>2, <2>3
  <1>5. place \in [S -> 1..n]
    BY <1>2
  <1>6. place \in Injection(S, 1..n)
    BY <1>4, <1>5 DEF Injection, IsInjective
  <1>7. IsFiniteSet(1..n) /\ Cardinality(1..n) = n
    BY <1>1, FS_Interval
  <1>8. place \in Surjection(S, 1..n)
    BY <1>6, <1>7, FS_Injection
  <1>9. ASSUME NEW k \in 1..n PROVE sorted[k] \in S /\ Place(sorted[k]) = k
    <2>1. \E s \in S : Place(s) = k
      BY <1>8 DEF Surjection
    <2>2. PICK s \in S : Place(s) = k
      BY <2>1
    <2>3. \E t \in S : Cardinality(Earlier(S, before, t)) = k - 1
      <3>1. Cardinality(Earlier(S, before, s)) \in Nat
        BY FS_CardinalityType, FS_Subset DEF Earlier
      <3> QED
        BY <2>2, <3>1
    <2>4. sorted[k] = CHOOSE t \in S : Cardinality(Earlier(S, before, t)) = k - 1
      BY DEF InOrder
    <2>5. sorted[k] \in S /\ Cardinality(Earlier(S, before, sorted[k])) = k - 1
      BY <2>3, <2>4
    <2> QED
      BY <2>5
  <1>10. sorted = [k \in 1..n |-> sorted[k]]
    BY DEF InOrder
  <1>11. ASSUME NEW s \in S PROVE \E k \in 1..n : sorted[k] = s
    <2>1. Place(s) \in 1..n
      BY <1>2
    <2>2. sorted[Place(s)] \in S /\ Place(sorted[Place(s)]) = Place(s)
      BY <2>1, <1>9
    <2>3. sorted[Place(s)] = s
      BY <2>2, <1>4
    <2> QED
      BY <2>1, <2>3
  <1>12. ASSUME NEW j \in 1..n, NEW k \in 1..n, j < k
         PROVE  <<sorted[j], sorted[k]>> \in before
    <2>1. sorted[j] \in S /\ sorted[k] \in S /\ Place(sorted[j]) < Place(sorted[k])
      BY <1>9, <1>12
    <2> QED
      BY <2>1, <1>4
  <1>13. sorted \in [1..n -> S]
    BY <1>9, <1>10
  <1> HIDE DEF sorted
  <1> QED
    BY <1>1, <1>11, <1>12, <1>13 DEF sorted

\* A finite set that is not empty has a first member.
LEMMA FirstExists ==
  ASSUME NEW S, IsFiniteSet(S), S # {}, NEW before, Orders(S, before)
  PROVE  \E m \in S : \A s \in S : s = m \/ <<m, s>> \in before
  <1> DEFINE n == Cardinality(S)
             sorted == InOrder(S, before)
  <1>1. /\ n \in Nat
        /\ sorted \in [1..n -> S]
        /\ \A s \in S : \E k \in 1..n : sorted[k] = s
        /\ \A j, k \in 1..n : j < k => <<sorted[j], sorted[k]>> \in before
    BY InOrderSorts
  <1>2. 1 \in 1..n
    BY <1>1, FS_EmptySet
  <1> HIDE DEF n, sorted
  <1>3. ASSUME NEW s \in S PROVE s = sorted[1] \/ <<sorted[1], s>> \in before
    <2>1. PICK k \in 1..n : sorted[k] = s
      BY <1>1
    <2>2. k = 1 \/ 1 < k
      BY <1>1
    <2> QED
      BY <1>1, <1>2, <2>1, <2>2
  <1> QED
    BY <1>1, <1>2, <1>3

=============================================================================
