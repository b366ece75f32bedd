-------------------------- MODULE IngestionProofs ---------------------------
(***************************************************************************)
(* The fingerprint of a form stands for its content: two forms have the    *)
(* same fingerprint exactly when one is the other with pairs moved in ways *)
(* that change neither the order of the fields nor the order of the values *)
(* of a field.                                                             *)
(***************************************************************************)
EXTENDS Ingestion, SubsequencesProofs

-----------------------------------------------------------------------------
(***************************************************************************)
(* The positions of a form.                                                *)
(***************************************************************************)
Firsts(items)     == {i \in DOMAIN items : FirstOfName(items, i)}
Same(items, name) == {i \in DOMAIN items : items[i].name = name}

Fingerprint(items) == payload_fingerprint(fields(items))

\* Sets of positions are finite sets of integers.
LEMMA Positions ==
  ASSUME NEW a, IsForm(a), NEW name
  PROVE  /\ Len(a) \in Nat
         /\ IsFiniteSet(DOMAIN a) /\ Cardinality(DOMAIN a) = Len(a)
         /\ Firsts(a) \in SUBSET Int /\ IsFiniteSet(Firsts(a))
         /\ Same(a, name) \in SUBSET Int /\ IsFiniteSet(Same(a, name))
  <1>1. DOMAIN a = 1..Len(a) /\ Len(a) \in Nat
    BY DEF IsForm
  <1>2. IsFiniteSet(DOMAIN a) /\ Cardinality(DOMAIN a) = Len(a)
    <2>1. PICK n \in Nat : n = Len(a)
      BY <1>1
    <2>2. n \in Int /\ 1 \in Int
      OBVIOUS
    <2>3. IsFiniteSet(1..n) /\ Cardinality(1..n) = IF 1 > n THEN 0 ELSE n - 1 + 1
      BY <2>2, FS_Interval
    <2>4. Cardinality(1..n) = n
      BY <2>3
    <2> QED
      BY <1>1, <2>1, <2>3, <2>4
  <1>3. Firsts(a) \in SUBSET (DOMAIN a) /\ Same(a, name) \in SUBSET (DOMAIN a)
    BY DEF Firsts, Same
  <1> QED
    BY <1>1, <1>2, <1>3, FS_Subset

\* Two pairs that are each the first of one name are one pair.
LEMMA OneFirst ==
  ASSUME NEW a, IsForm(a), NEW i \in Firsts(a), NEW j \in Firsts(a), a[i].name = a[j].name
  PROVE  i = j
  <1>1. i \in Int /\ j \in Int /\ 1 <= i /\ 1 <= j
    BY DEF Firsts, IsForm
  <1> QED
    BY <1>1 DEF Firsts, FirstOfName

\* The first of a name is the pair of that name with rank 1.
LEMMA FirstIsRankOne ==
  ASSUME NEW a, IsForm(a), NEW i \in DOMAIN a
  PROVE  /\ 1 \in 1..Cardinality(Same(a, a[i].name))
         /\ Nth(Same(a, a[i].name), 1) \in Firsts(a)
         /\ a[Nth(Same(a, a[i].name), 1)].name = a[i].name
         /\ i \in Firsts(a) => Nth(Same(a, a[i].name), 1) = i
  <1> DEFINE S == Same(a, a[i].name)
  <1>1. S \in SUBSET Int /\ IsFiniteSet(S) /\ i \in S
    BY Positions DEF Same
  <1>2. 1 \in 1..Cardinality(S)
    <2>1. Rank(S, i) \in 1..Cardinality(S)
      BY <1>1, RankType
    <2>2. Cardinality(S) \in Nat
      BY <1>1, FS_CardinalityType
    <2> QED
      BY <2>1, <2>2
  <1>3. Nth(S, 1) \in S /\ Rank(S, Nth(S, 1)) = 1
    BY <1>1, <1>2, NthExists
  <1>4. \A j \in S : ~(j < Nth(S, 1))
    <2> SUFFICES ASSUME NEW j \in S, j < Nth(S, 1) PROVE FALSE
      OBVIOUS
    <2>1. Rank(S, j) < 1 /\ Rank(S, j) \in 1..Cardinality(S)
      BY <1>1, <1>3, RankGrows, RankType
    <2> QED
      BY <2>1
  <1>5. Nth(S, 1) \in DOMAIN a /\ a[Nth(S, 1)].name = a[i].name
    BY <1>3 DEF Same
  <1>6. FirstOfName(a, Nth(S, 1))
    <2> SUFFICES ASSUME NEW j \in 1..(Nth(S, 1) - 1) PROVE a[j].name # a[Nth(S, 1)].name
      BY DEF FirstOfName
    <2>1. j \in DOMAIN a /\ j < Nth(S, 1)
      BY <1>5 DEF IsForm
    <2> QED
      BY <1>4, <1>5, <2>1 DEF Same
  <1>7. Nth(S, 1) \in Firsts(a)
    BY <1>5, <1>6 DEF Firsts
  <1> QED
    BY <1>2, <1>5, <1>7, OneFirst

\* What the fingerprint is made of.
LEMMA FingerprintParts ==
  ASSUME NEW a, IsForm(a)
  PROVE  /\ DOMAIN Fingerprint(a) = 1..Cardinality(Firsts(a))
         /\ Fingerprint(a) = [k \in 1..Cardinality(Firsts(a)) |->
              <<a[Nth(Firsts(a), k)].name, ValuesOf(a, a[Nth(Firsts(a), k)].name)>>]
         /\ \A name : ValuesOf(a, name) =
              [k \in 1..Cardinality(Same(a, name)) |-> a[Nth(Same(a, name), k)].value]
  <1>1. ASSUME NEW k \in 1..Cardinality(Firsts(a))
        PROVE  Nth(Firsts(a), k) \in DOMAIN a
    <2>1. Firsts(a) \in SUBSET Int /\ IsFiniteSet(Firsts(a))
      BY Positions
    <2>2. Nth(Firsts(a), k) \in Firsts(a)
      BY <2>1, NthExists
    <2> QED
      BY <2>2 DEF Firsts
  <1>2. FieldNames(a) = [k \in 1..Cardinality(Firsts(a)) |-> a[Nth(Firsts(a), k)].name]
    BY <1>1 DEF FieldNames, SubSeqAt, Firsts
  <1>3. ASSUME NEW name, NEW k \in 1..Cardinality(Same(a, name))
        PROVE  Nth(Same(a, name), k) \in DOMAIN a
    <2>1. Same(a, name) \in SUBSET Int /\ IsFiniteSet(Same(a, name))
      BY Positions
    <2>2. Nth(Same(a, name), k) \in Same(a, name)
      BY <2>1, NthExists
    <2> QED
      BY <2>2 DEF Same
  <1>4. ASSUME NEW name
        PROVE  ValuesOf(a, name) =
                 [k \in 1..Cardinality(Same(a, name)) |-> a[Nth(Same(a, name), k)].value]
    BY <1>3 DEF ValuesOf, SubSeqAt, Same
  <1>5. fields(a) = [k \in 1..Cardinality(Firsts(a)) |->
          [name |-> a[Nth(Firsts(a), k)].name, values |-> ValuesOf(a, a[Nth(Firsts(a), k)].name)]]
    BY <1>2 DEF fields
  <1>6. Fingerprint(a) = [k \in 1..Cardinality(Firsts(a)) |->
          <<a[Nth(Firsts(a), k)].name, ValuesOf(a, a[Nth(Firsts(a), k)].name)>>]
    BY <1>5 DEF Fingerprint, payload_fingerprint
  <1> QED
    BY <1>4, <1>6

-----------------------------------------------------------------------------
(***************************************************************************)
(* The same content has the same fingerprint.                              *)
(***************************************************************************)
Moves(moved, a, b) ==
  /\ \A i \in DOMAIN a : b[moved[i]] = a[i]
  /\ \A i, j \in DOMAIN a :
       /\ moved[i] = moved[j] => i = j
       /\ i < j /\ a[i].name = a[j].name => moved[i] < moved[j]
       /\ i < j /\ FirstOfName(a, i) /\ FirstOfName(a, j) => moved[i] < moved[j]

\* The pairs of one name keep their ranks, and so do the firsts.
LEMMA RanksMoved ==
  ASSUME NEW a, IsForm(a), NEW b, IsForm(b), Len(a) = Len(b),
         NEW moved \in [DOMAIN a -> DOMAIN b], Moves(moved, a, b)
  PROVE  /\ \A name : /\ Cardinality(Same(a, name)) = Cardinality(Same(b, name))
                      /\ \A i \in Same(a, name) :
                           moved[i] \in Same(b, name) /\ Rank(Same(b, name), moved[i]) = Rank(Same(a, name), i)
         /\ Cardinality(Firsts(a)) = Cardinality(Firsts(b))
         /\ \A i \in Firsts(a) :
              moved[i] \in Firsts(b) /\ Rank(Firsts(b), moved[i]) = Rank(Firsts(a), i)
  <1>0. \A t \in DOMAIN b : \E i \in DOMAIN a : moved[i] = t
    <2>1. moved \in Injection(DOMAIN a, DOMAIN b)
      BY DEF Moves, Injection, IsInjective
    <2>2. /\ IsFiniteSet(DOMAIN a) /\ Cardinality(DOMAIN a) = Len(a)
          /\ IsFiniteSet(DOMAIN b) /\ Cardinality(DOMAIN b) = Len(b)
      BY Positions
    <2>3. moved \in Surjection(DOMAIN a, DOMAIN b)
      BY <2>1, <2>2, FS_Injection
    <2> QED
      BY <2>3 DEF Surjection
  <1>1. ASSUME NEW name
        PROVE  /\ Cardinality(Same(a, name)) = Cardinality(Same(b, name))
               /\ \A i \in Same(a, name) :
                    moved[i] \in Same(b, name) /\ Rank(Same(b, name), moved[i]) = Rank(Same(a, name), i)
    <2> DEFINE f == [i \in Same(a, name) |-> moved[i]]
    <2>1. f \in [Same(a, name) -> Same(b, name)]
      BY DEF Same, Moves
    <2>2. \A i, j \in Same(a, name) : i < j => f[i] < f[j]
      BY DEF Same, Moves
    <2>3. \A t \in Same(b, name) : \E i \in Same(a, name) : f[i] = t
      BY <1>0 DEF Same, Moves
    <2>4. /\ Cardinality(Same(a, name)) = Cardinality(Same(b, name))
          /\ \A i \in Same(a, name) : Rank(Same(b, name), f[i]) = Rank(Same(a, name), i)
      <3>1. /\ Same(a, name) \in SUBSET Int /\ IsFiniteSet(Same(a, name))
            /\ Same(b, name) \in SUBSET Int /\ IsFiniteSet(Same(b, name))
        BY Positions
      <3> HIDE DEF f
      <3> QED
        BY <2>1, <2>2, <2>3, <3>1, RankKept
    <2> QED
      BY <2>1, <2>4
  <1>2. ASSUME NEW i \in DOMAIN a PROVE i \in Firsts(a) <=> moved[i] \in Firsts(b)
    <2> DEFINE S == Same(a, a[i].name)
               T == Same(b, a[i].name)
    <2>1. /\ S \in SUBSET Int /\ IsFiniteSet(S) /\ i \in S
          /\ T \in SUBSET Int /\ IsFiniteSet(T) /\ moved[i] \in T
          /\ Rank(T, moved[i]) = Rank(S, i)
          /\ moved[i] \in DOMAIN b /\ b[moved[i]].name = a[i].name
      <3>1. S \in SUBSET Int /\ IsFiniteSet(S) /\ T \in SUBSET Int /\ IsFiniteSet(T)
        BY Positions
      <3>2. i \in S
        BY DEF Same
      <3>3. moved[i] \in T /\ Rank(T, moved[i]) = Rank(S, i)
        BY <1>1, <3>2
      <3> QED
        BY <3>1, <3>2, <3>3 DEF Moves
    <2>2. i \in Firsts(a) <=> Rank(S, i) = 1
      <3>1. /\ 1 \in 1..Cardinality(S) /\ Nth(S, 1) \in Firsts(a)
            /\ i \in Firsts(a) => Nth(S, 1) = i
        BY FirstIsRankOne
      <3>2. Rank(S, Nth(S, 1)) = 1
        BY <2>1, <3>1, NthExists
      <3>3. Nth(S, Rank(S, i)) = i
        BY <2>1, NthOfRank
      <3> QED
        BY <3>1, <3>2, <3>3
    <2>3. moved[i] \in Firsts(b) <=> Rank(T, moved[i]) = 1
      <3>1. /\ 1 \in 1..Cardinality(T) /\ Nth(T, 1) \in Firsts(b)
            /\ moved[i] \in Firsts(b) => Nth(T, 1) = moved[i]
        BY <2>1, FirstIsRankOne
      <3>2. Rank(T, Nth(T, 1)) = 1
        BY <2>1, <3>1, NthExists
      <3>3. Nth(T, Rank(T, moved[i])) = moved[i]
        BY <2>1, NthOfRank
      <3> QED
        BY <3>1, <3>2, <3>3
    <2> QED
      BY <2>1, <2>2, <2>3
  <1>3. /\ Cardinality(Firsts(a)) = Cardinality(Firsts(b))
        /\ \A i \in Firsts(a) : Rank(Firsts(b), moved[i]) = Rank(Firsts(a), i)
    <2> DEFINE f == [i \in Firsts(a) |-> moved[i]]
    <2>0. \A i \in Firsts(a) : i \in DOMAIN a /\ FirstOfName(a, i)
      BY DEF Firsts
    <2>1. f \in [Firsts(a) -> Firsts(b)]
      BY <1>2, <2>0
    <2>2. \A i, j \in Firsts(a) : i < j => f[i] < f[j]
      BY <2>0 DEF Moves
    <2>3. \A t \in Firsts(b) : \E i \in Firsts(a) : f[i] = t
      <3>1. \A t \in Firsts(b) : t \in DOMAIN b
        BY DEF Firsts
      <3> QED
        BY <1>0, <1>2, <3>1
    <2>4. /\ Cardinality(Firsts(a)) = Cardinality(Firsts(b))
          /\ \A i \in Firsts(a) : Rank(Firsts(b), f[i]) = Rank(Firsts(a), i)
      <3>1. /\ Firsts(a) \in SUBSET Int /\ IsFiniteSet(Firsts(a))
            /\ Firsts(b) \in SUBSET Int /\ IsFiniteSet(Firsts(b))
        BY Positions
      <3> HIDE DEF f
      <3> QED
        BY <2>1, <2>2, <2>3, <3>1, RankKept
    <2> QED
      BY <2>4
  <1>4. \A i \in Firsts(a) : moved[i] \in Firsts(b)
    BY <1>2 DEF Firsts
  <1> QED
    BY <1>1, <1>3, <1>4

\* Forms that carry the same content have the same fingerprint: the names first
\* appear in the same order, and each name has the same values in the same order.
LEMMA ContentToFingerprint ==
  ASSUME NEW a, IsForm(a), NEW b, IsForm(b), SameContent(a, b)
  PROVE  Fingerprint(a) = Fingerprint(b)
  <1>1. PICK moved \in [DOMAIN a -> DOMAIN b] : Len(a) = Len(b) /\ Moves(moved, a, b)
    BY DEF SameContent, Moves
  <1>2. ASSUME NEW name PROVE ValuesOf(a, name) = ValuesOf(b, name)
    <2> DEFINE S == Same(a, name)
               T == Same(b, name)
    <2>1. /\ S \in SUBSET Int /\ IsFiniteSet(S) /\ T \in SUBSET Int /\ IsFiniteSet(T)
          /\ Cardinality(S) = Cardinality(T)
          /\ \A i \in S : moved[i] \in T /\ Rank(T, moved[i]) = Rank(S, i)
      BY <1>1, Positions, RanksMoved
    <2>2. ASSUME NEW k \in 1..Cardinality(S) PROVE a[Nth(S, k)].value = b[Nth(T, k)].value
      <3>1. Nth(S, k) \in S /\ Rank(S, Nth(S, k)) = k
        BY <2>1, NthExists
      <3>2. moved[Nth(S, k)] \in T /\ Rank(T, moved[Nth(S, k)]) = k
        BY <2>1, <3>1
      <3>3. Nth(T, k) = moved[Nth(S, k)]
        BY <2>1, <3>2, NthOfRank
      <3>4. Nth(S, k) \in DOMAIN a
        BY <3>1 DEF Same
      <3> QED
        BY <1>1, <3>3, <3>4 DEF Moves
    <2>3. ValuesOf(a, name) = [k \in 1..Cardinality(S) |-> a[Nth(S, k)].value]
      BY FingerprintParts
    <2>4. ValuesOf(b, name) = [k \in 1..Cardinality(T) |-> b[Nth(T, k)].value]
      BY FingerprintParts
    <2> QED
      BY <2>1, <2>2, <2>3, <2>4
  <1>3. ASSUME NEW k \in 1..Cardinality(Firsts(a))
        PROVE  a[Nth(Firsts(a), k)].name = b[Nth(Firsts(b), k)].name
    <2>1. /\ Firsts(a) \in SUBSET Int /\ IsFiniteSet(Firsts(a))
          /\ Firsts(b) \in SUBSET Int /\ IsFiniteSet(Firsts(b))
      BY Positions
    <2>2. Nth(Firsts(a), k) \in Firsts(a) /\ Rank(Firsts(a), Nth(Firsts(a), k)) = k
      BY <2>1, NthExists
    <2>3. /\ moved[Nth(Firsts(a), k)] \in Firsts(b)
          /\ Rank(Firsts(b), moved[Nth(Firsts(a), k)]) = k
      BY <1>1, <2>2, RanksMoved
    <2>4. Nth(Firsts(b), k) = moved[Nth(Firsts(a), k)]
      BY <2>1, <2>3, NthOfRank
    <2> QED
      BY <1>1, <2>2, <2>4 DEF Moves, Firsts
  <1>4. Cardinality(Firsts(a)) = Cardinality(Firsts(b))
    BY <1>1, RanksMoved
  <1>5. Fingerprint(a) = [k \in 1..Cardinality(Firsts(a)) |->
          <<a[Nth(Firsts(a), k)].name, ValuesOf(a, a[Nth(Firsts(a), k)].name)>>]
    BY FingerprintParts
  <1>6. Fingerprint(b) = [k \in 1..Cardinality(Firsts(b)) |->
          <<b[Nth(Firsts(b), k)].name, ValuesOf(b, b[Nth(Firsts(b), k)].name)>>]
    BY FingerprintParts
  <1> QED
    BY <1>2, <1>3, <1>4, <1>5, <1>6

-----------------------------------------------------------------------------
(***************************************************************************)
(* The same fingerprint is the same content.                               *)
(***************************************************************************)

\* Under one fingerprint a name has as many pairs in the other form, with the same values
\* in the same order, and its first is a first of the same rank.
LEMMA NamesAlike ==
  ASSUME NEW a, IsForm(a), NEW b, IsForm(b), Fingerprint(a) = Fingerprint(b), NEW i \in DOMAIN a
  PROVE  LET S == Same(a, a[i].name)
             T == Same(b, a[i].name)
         IN  /\ Cardinality(S) = Cardinality(T)
             /\ \A k \in 1..Cardinality(S) : a[Nth(S, k)].value = b[Nth(T, k)].value
             /\ Nth(T, 1) \in Firsts(b)
             /\ Rank(Firsts(b), Nth(T, 1)) = Rank(Firsts(a), Nth(S, 1))
  <1> DEFINE name == a[i].name
             S == Same(a, name)
             T == Same(b, name)
             F == Firsts(a)
             G == Firsts(b)
             k == Rank(F, Nth(S, 1))
  <1>1. /\ F \in SUBSET Int /\ IsFiniteSet(F) /\ G \in SUBSET Int /\ IsFiniteSet(G)
        /\ S \in SUBSET Int /\ IsFiniteSet(S) /\ T \in SUBSET Int /\ IsFiniteSet(T)
    BY Positions
  <1>2. Nth(S, 1) \in F /\ a[Nth(S, 1)].name = name
    BY FirstIsRankOne
  <1>3. k \in 1..Cardinality(F) /\ Nth(F, k) = Nth(S, 1)
    BY <1>1, <1>2, RankType, NthOfRank
  <1>4. Fingerprint(a) = [l \in 1..Cardinality(F) |->
          <<a[Nth(F, l)].name, ValuesOf(a, a[Nth(F, l)].name)>>]
    BY FingerprintParts
  <1>5. Fingerprint(b) = [l \in 1..Cardinality(G) |->
          <<b[Nth(G, l)].name, ValuesOf(b, b[Nth(G, l)].name)>>]
    BY FingerprintParts
  <1>6. /\ k \in 1..Cardinality(G)
        /\ b[Nth(G, k)].name = name
        /\ ValuesOf(a, name) = ValuesOf(b, name)
    <2>1. k \in DOMAIN Fingerprint(b)
      BY <1>3, <1>4
    <2>2. k \in 1..Cardinality(G)
      BY <1>5, <2>1
    <2>3. Fingerprint(a)[k] = <<name, ValuesOf(a, name)>>
      BY <1>2, <1>3, <1>4
    <2>4. Fingerprint(b)[k] = <<b[Nth(G, k)].name, ValuesOf(b, b[Nth(G, k)].name)>>
      BY <1>5, <2>2
    <2> QED
      BY <2>2, <2>3, <2>4
  <1>7. ValuesOf(a, name) = [l \in 1..Cardinality(S) |-> a[Nth(S, l)].value]
    BY FingerprintParts
  <1>8. ValuesOf(b, name) = [l \in 1..Cardinality(T) |-> b[Nth(T, l)].value]
    BY FingerprintParts
  <1>9. Cardinality(S) \in Nat /\ Cardinality(T) \in Nat
    BY <1>1, FS_CardinalityType
  <1>10. Cardinality(S) = Cardinality(T)
    <2>1. 1..Cardinality(S) = 1..Cardinality(T)
      BY <1>6, <1>7, <1>8
    <2> QED
      BY <1>9, <2>1
  <1>11. ASSUME NEW l \in 1..Cardinality(S) PROVE a[Nth(S, l)].value = b[Nth(T, l)].value
    <2>1. ValuesOf(a, name)[l] = a[Nth(S, l)].value
      BY <1>7
    <2>2. ValuesOf(b, name)[l] = b[Nth(T, l)].value
      BY <1>8, <1>10
    <2> QED
      BY <1>6, <2>1, <2>2
  <1>12. Nth(G, k) \in G /\ Rank(G, Nth(G, k)) = k
    BY <1>1, <1>6, NthExists
  <1>13. Nth(T, 1) = Nth(G, k)
    <2>1. Nth(G, k) \in DOMAIN b
      BY <1>12 DEF Firsts
    <2> QED
      BY <1>6, <1>12, <2>1, FirstIsRankOne
  <1> QED
    BY <1>10, <1>11, <1>12, <1>13

\* Where each pair goes: to the pair of its name with its rank.
Moved(a, b) ==
  [i \in DOMAIN a |-> Nth(Same(b, a[i].name), Rank(Same(a, a[i].name), i))]

\* Between forms of one fingerprint, Moved pairs the entries up: it keeps names
\* and values, the order within a name, and the order of the names' first entries.
LEMMA MovedMoves ==
  ASSUME NEW a, IsForm(a), NEW b, IsForm(b), Fingerprint(a) = Fingerprint(b)
  PROVE  Moved(a, b) \in [DOMAIN a -> DOMAIN b] /\ Moves(Moved(a, b), a, b)
  <1> DEFINE moved == Moved(a, b)
             S(i) == Same(a, a[i].name)
             T(i) == Same(b, a[i].name)
  <1>1. ASSUME NEW i \in DOMAIN a
        PROVE  /\ S(i) \in SUBSET Int /\ IsFiniteSet(S(i)) /\ T(i) \in SUBSET Int /\ IsFiniteSet(T(i))
               /\ i \in S(i)
               /\ Rank(S(i), i) \in 1..Cardinality(S(i))
               /\ moved[i] \in T(i)
               /\ Rank(T(i), moved[i]) = Rank(S(i), i)
               /\ b[moved[i]] = a[i]
    <2>1. S(i) \in SUBSET Int /\ IsFiniteSet(S(i)) /\ T(i) \in SUBSET Int /\ IsFiniteSet(T(i))
      BY Positions
    <2>2. i \in S(i)
      BY DEF Same
    <2>3. Rank(S(i), i) \in 1..Cardinality(S(i)) /\ Nth(S(i), Rank(S(i), i)) = i
      BY <2>1, <2>2, RankType, NthOfRank
    <2>4. /\ Cardinality(S(i)) = Cardinality(T(i))
          /\ \A k \in 1..Cardinality(S(i)) : a[Nth(S(i), k)].value = b[Nth(T(i), k)].value
      BY NamesAlike
    <2>5. moved[i] = Nth(T(i), Rank(S(i), i))
      BY DEF Moved
    <2>6. moved[i] \in T(i) /\ Rank(T(i), moved[i]) = Rank(S(i), i)
      BY <2>1, <2>3, <2>4, <2>5, NthExists
    <2>7. a[i].value = b[moved[i]].value
      BY <2>3, <2>4, <2>5
    <2>8. a[i].name = b[moved[i]].name /\ moved[i] \in DOMAIN b
      BY <2>6 DEF Same
    <2>9. b[moved[i]] = a[i]
      BY <2>7, <2>8 DEF IsForm
    <2> QED
      BY <2>1, <2>2, <2>3, <2>6, <2>9
  <1>2. moved \in [DOMAIN a -> DOMAIN b]
    <2>1. \A i \in DOMAIN a : moved[i] \in DOMAIN b
      BY <1>1 DEF Same
    <2> QED
      BY <2>1 DEF Moved
  <1>3. ASSUME NEW i \in DOMAIN a, NEW j \in DOMAIN a, moved[i] = moved[j] PROVE i = j
    <2>1. a[i] = a[j]
      BY <1>1, <1>3
    <2>2. Rank(S(i), i) = Rank(S(i), j) /\ j \in S(i)
      BY <1>1, <1>3, <2>1
    <2> QED
      BY <1>1, <2>2, RankOrders
  <1>4. ASSUME NEW i \in DOMAIN a, NEW j \in DOMAIN a, i < j, a[i].name = a[j].name
        PROVE  moved[i] < moved[j]
    <2>1. j \in S(i) /\ moved[j] \in T(i) /\ Rank(T(i), moved[j]) = Rank(S(i), j)
      BY <1>1, <1>4
    <2>2. Rank(S(i), i) < Rank(S(i), j)
      BY <1>1, <1>4, <2>1, RankOrders
    <2> QED
      BY <1>1, <2>1, <2>2, RankOrders
  <1>5. ASSUME NEW i \in Firsts(a)
        PROVE  moved[i] \in Firsts(b) /\ Rank(Firsts(b), moved[i]) = Rank(Firsts(a), i)
    <2>1. i \in DOMAIN a
      BY DEF Firsts
    <2>2. Nth(S(i), 1) = i /\ 1 \in 1..Cardinality(S(i))
      BY <2>1, FirstIsRankOne
    <2>3. Rank(S(i), i) = 1
      BY <1>1, <2>1, <2>2, NthExists
    <2>4. moved[i] = Nth(T(i), 1)
      BY <2>1, <2>3 DEF Moved
    <2> QED
      BY <2>1, <2>2, <2>4, NamesAlike
  <1>6. ASSUME NEW i \in DOMAIN a, NEW j \in DOMAIN a, i < j, FirstOfName(a, i), FirstOfName(a, j)
        PROVE  moved[i] < moved[j]
    <2>1. i \in Firsts(a) /\ j \in Firsts(a)
      BY <1>6 DEF Firsts
    <2>2. /\ Firsts(a) \in SUBSET Int /\ IsFiniteSet(Firsts(a))
          /\ Firsts(b) \in SUBSET Int /\ IsFiniteSet(Firsts(b))
      BY Positions
    <2>3. Rank(Firsts(a), i) < Rank(Firsts(a), j)
      BY <1>6, <2>1, <2>2, RankOrders
    <2>4. Rank(Firsts(b), moved[i]) < Rank(Firsts(b), moved[j])
      BY <1>5, <2>1, <2>3
    <2> QED
      BY <1>5, <2>1, <2>2, <2>4, RankOrders
  <1>7. Moves(moved, a, b)
    <2> HIDE DEF moved
    <2> QED
      BY <1>1, <1>3, <1>4, <1>6 DEF Moves
  <1> QED
    BY <1>2, <1>7

\* Neither form is longer.
LEMMA NoShorter ==
  ASSUME NEW a, IsForm(a), NEW b, IsForm(b), Fingerprint(a) = Fingerprint(b)
  PROVE  Len(a) <= Len(b)
  <1>1. Moved(a, b) \in Injection(DOMAIN a, DOMAIN b)
    BY MovedMoves DEF Moves, Injection, IsInjective
  <1>2. /\ IsFiniteSet(DOMAIN a) /\ Cardinality(DOMAIN a) = Len(a)
        /\ IsFiniteSet(DOMAIN b) /\ Cardinality(DOMAIN b) = Len(b)
    BY Positions
  <1> QED
    BY <1>1, <1>2, FS_Injection

\* payload_fingerprint is exact: a retry with the same key is recognised by it whichever
\* way its fields were laid out in the body, and nothing else is taken for a retry.
THEOREM FingerprintIsExact ==
  ASSUME NEW a, IsForm(a), NEW b, IsForm(b)
  PROVE  payload_fingerprint(fields(a)) = payload_fingerprint(fields(b)) <=> SameContent(a, b)
  <1>1. ASSUME Fingerprint(a) = Fingerprint(b) PROVE SameContent(a, b)
    <2>1. Len(a) <= Len(b) /\ Len(b) <= Len(a) /\ Len(a) \in Nat /\ Len(b) \in Nat
      BY <1>1, NoShorter DEF IsForm
    <2>2. Moved(a, b) \in [DOMAIN a -> DOMAIN b] /\ Moves(Moved(a, b), a, b)
      BY <1>1, MovedMoves
    <2>3. Len(a) = Len(b)
      BY <2>1
    <2> QED
      BY <2>2, <2>3, Zenon DEF SameContent, Moves
  <1>2. ASSUME SameContent(a, b) PROVE Fingerprint(a) = Fingerprint(b)
    BY <1>2, ContentToFingerprint
  <1> QED
    BY <1>1, <1>2 DEF Fingerprint

=============================================================================
