---------------------------- MODULE SelectionProofs ----------------------------
(***************************************************************************)
(* What a selection has of the sequence it is taken from, for sequences of *)
(* every length: by counting, not by induction over the sequence.          *)
(***************************************************************************)
EXTENDS Selections, Sequences, SequenceTheorems, FiniteSetTheorems, TLAPS

\* A rank counts at least the position itself, and at most all of them; it
\* grows with the position.
LEMMA RankGrows ==
    ASSUME NEW S \in SUBSET Nat, IsFiniteSet(S), NEW i \in S
    PROVE  /\ Rank(i, S) \in 1..Cardinality(S)
           /\ \A j \in S : i < j => Rank(i, S) < Rank(j, S)
<1> DEFINE Upto(k) == {j \in S : j <= k}
<1>1. \A k \in Nat : /\ IsFiniteSet(Upto(k)) /\ Cardinality(Upto(k)) \in Nat
                     /\ Cardinality(Upto(k)) <= Cardinality(S)
  BY FS_Subset, FS_CardinalityType
<1>2. Cardinality(S) \in Nat
  BY FS_CardinalityType
<1>3. Cardinality(Upto(i)) # 0
  <2>1. i \in Upto(i)
    BY SMT
  <2> QED
    BY <1>1, <2>1, FS_EmptySet
<1>4. ASSUME NEW j \in S, i < j PROVE Cardinality(Upto(i)) < Cardinality(Upto(j))
  <2>1. i \in Nat /\ j \in Nat /\ S \subseteq Nat
    BY <1>4
  <2>2. \A k \in Nat : k <= i => k <= j
    BY <1>4, <2>1, SMT
  <2>3. j <= j /\ ~(j <= i)
    BY <1>4, <2>1, SMT
  <2>4. Upto(i) \subseteq Upto(j) /\ j \in Upto(j) /\ j \notin Upto(i)
    BY <2>1, <2>2, <2>3
  <2>5. /\ Cardinality(Upto(i)) <= Cardinality(Upto(j))
        /\ Cardinality(Upto(i)) # Cardinality(Upto(j))
    BY <1>1, <2>1, <2>4, FS_Subset
  <2> HIDE DEF Upto
  <2> QED
    BY <1>1, <2>1, <2>5, SMT
<1>5. i \in Nat
  OBVIOUS
<1> QED
  BY <1>1, <1>2, <1>3, <1>4, <1>5, SMT DEF Rank

\* Every rank up to the number of the positions is the rank of one of them.
LEMMA NthHasRank ==
    ASSUME NEW S \in SUBSET Nat, IsFiniteSet(S), NEW k \in 1..Cardinality(S)
    PROVE  Nth(k, S) \in S /\ Rank(Nth(k, S), S) = k
<1>1. Cardinality(S) \in Nat /\ k \in Nat
  BY FS_CardinalityType, SMT
<1>2. \E i \in S : Rank(i, S) = k
  <2> SUFFICES ASSUME \A i \in S : Rank(i, S) # k PROVE FALSE
    OBVIOUS
  <2> DEFINE T == (1..Cardinality(S)) \ {k}
             f == [i \in S |-> Rank(i, S)]
  <2>1. f \in [S -> T]
    BY RankGrows
  <2>2. IsFiniteSet(T) /\ Cardinality(T) < Cardinality(S)
    <3>1. IsFiniteSet(1..Cardinality(S)) /\ Cardinality(1..Cardinality(S)) = Cardinality(S)
      BY <1>1, FS_Interval, SMT
    <3>2. IsFiniteSet(T) /\ Cardinality(T) = Cardinality(1..Cardinality(S)) - 1
      BY <3>1, FS_RemoveElement
    <3> HIDE DEF T
    <3> QED
      BY <1>1, <3>1, <3>2, SMT
  <2>3. \E x, y \in S : x # y /\ f[x] = f[y]
    <3> HIDE DEF T, f
    <3> QED
      BY <2>1, <2>2, FS_PigeonHole
  <2>4. PICK x \in S, y \in S : x # y /\ Rank(x, S) = Rank(y, S)
    BY <2>3
  <2>5. x \in Nat /\ y \in Nat /\ Rank(x, S) \in Nat /\ Rank(y, S) \in Nat
    BY <1>1, RankGrows, SMT
  <2>6. x < y \/ y < x
    BY <2>4, <2>5, SMT
  <2>7. Rank(x, S) < Rank(y, S) \/ Rank(y, S) < Rank(x, S)
    BY <2>6, RankGrows
  <2> QED
    BY <2>4, <2>5, <2>7, SMT
<1> QED
  BY <1>2 DEF Nth

\* Nth enumerates the positions, in order and leaving none out.
LEMMA NthEnumerates ==
    ASSUME NEW S \in SUBSET Nat, IsFiniteSet(S)
    PROVE  /\ \A k, l \in 1..Cardinality(S) : k < l => Nth(k, S) < Nth(l, S)
           /\ \A i \in S : \E k \in 1..Cardinality(S) : Nth(k, S) = i
<1>1. Cardinality(S) \in Nat
  BY FS_CardinalityType
<1>2. \A i, j \in S : i \in Nat /\ j \in Nat /\ Rank(i, S) \in Nat
                         /\ (Rank(i, S) < Rank(j, S) => i < j)
                         /\ (Rank(i, S) = Rank(j, S) => i = j)
  <2> SUFFICES ASSUME NEW i \in S, NEW j \in S
               PROVE  /\ i \in Nat /\ j \in Nat /\ Rank(i, S) \in Nat
                      /\ (Rank(i, S) < Rank(j, S) => i < j)
                      /\ (Rank(i, S) = Rank(j, S) => i = j)
    OBVIOUS
  <2>1. i \in Nat /\ j \in Nat /\ Rank(i, S) \in Nat /\ Rank(j, S) \in Nat
    BY <1>1, RankGrows, SMT
  <2>2. (i < j => Rank(i, S) < Rank(j, S)) /\ (j < i => Rank(j, S) < Rank(i, S))
    BY RankGrows
  <2> QED
    BY <2>1, <2>2, SMT
<1>3. ASSUME NEW k \in 1..Cardinality(S), NEW l \in 1..Cardinality(S), k < l
      PROVE  Nth(k, S) < Nth(l, S)
  <2>1. Nth(k, S) \in S /\ Nth(l, S) \in S /\ Rank(Nth(k, S), S) < Rank(Nth(l, S), S)
    BY <1>3, NthHasRank
  <2> QED
    BY <1>2, <2>1
<1>4. ASSUME NEW i \in S PROVE \E k \in 1..Cardinality(S) : Nth(k, S) = i
  <2>1. Rank(i, S) \in 1..Cardinality(S)
    BY RankGrows
  <2>2. Nth(Rank(i, S), S) \in S /\ Rank(Nth(Rank(i, S), S), S) = Rank(i, S)
    BY <2>1, NthHasRank
  <2> QED
    BY <1>2, <2>1, <2>2
<1> QED
  BY <1>3, <1>4

\* A nonempty finite set of numbers has a least and a greatest element.
LEMMA LeastAndGreatest ==
    ASSUME NEW S \in SUBSET Nat, IsFiniteSet(S), S # {}
    PROVE  /\ \E i \in S : \A j \in S : i <= j
           /\ \E i \in S : \A j \in S : i >= j
<1> DEFINE n == Cardinality(S)
<1>1. n \in Nat /\ n # 0
  BY FS_CardinalityType, FS_EmptySet
<1>2. 1 \in 1..n /\ n \in 1..n
  BY <1>1, SMT
<1>3. Nth(1, S) \in S /\ Nth(n, S) \in S
  BY <1>2, NthHasRank
<1>4. ASSUME NEW j \in S PROVE Nth(1, S) <= j /\ Nth(n, S) >= j
  <2>1. PICK k \in 1..n : Nth(k, S) = j
    BY NthEnumerates
  <2>2. (1 < k => Nth(1, S) < Nth(k, S)) /\ (k < n => Nth(k, S) < Nth(n, S))
    BY <1>2, NthEnumerates
  <2>3. Nth(1, S) \in Nat /\ Nth(n, S) \in Nat /\ j \in Nat
    BY <1>3
  <2>4. (k = 1 \/ 1 < k) /\ (k = n \/ k < n)
    BY <1>1, SMT
  <2> HIDE DEF n
  <2> QED
    BY <2>1, <2>2, <2>3, <2>4, SMT
<1> QED
  BY <1>3, <1>4

\* What is kept of a sequence: a sequence of its elements, in their order, with
\* every element at a position that is kept.
LEMMA KeptIsSubsequence ==
    ASSUME NEW D, NEW s \in Seq(D), NEW S \in SUBSET DOMAIN s
    PROVE  /\ IsFiniteSet(S) /\ S \subseteq Nat
           /\ Kept(s, S) \in Seq(D)
           /\ DOMAIN Kept(s, S) = 1..Cardinality(S) /\ Len(Kept(s, S)) = Cardinality(S)
           /\ \A k \in 1..Cardinality(S) : Nth(k, S) \in S /\ Kept(s, S)[k] = s[Nth(k, S)]
           /\ \A k, l \in 1..Cardinality(S) : k < l => Nth(k, S) < Nth(l, S)
           /\ \A i \in S : \E k \in 1..Cardinality(S) : Nth(k, S) = i
<1>1. DOMAIN s = 1..Len(s) /\ Len(s) \in Nat
  BY SMT
<1>2. IsFiniteSet(1..Len(s))
  BY <1>1, FS_Interval, SMT
<1>3. S \subseteq Nat /\ IsFiniteSet(S)
  BY <1>1, <1>2, FS_Subset, SMT
<1>4. Cardinality(S) \in Nat
  BY <1>3, FS_CardinalityType
<1>5. \A k \in 1..Cardinality(S) : Nth(k, S) \in S
  BY <1>3, NthHasRank
<1>6. \A k \in 1..Cardinality(S) : s[Nth(k, S)] \in D
  BY <1>1, <1>5, SMT
<1>7. Kept(s, S) \in [1..Cardinality(S) -> D]
  BY <1>6 DEF Kept
<1>8. Kept(s, S) \in Seq(D) /\ Len(Kept(s, S)) = Cardinality(S)
  BY <1>4, <1>7, SMT
<1>9. /\ \A k \in 1..Cardinality(S) : Kept(s, S)[k] = s[Nth(k, S)]
      /\ DOMAIN Kept(s, S) = 1..Cardinality(S)
  BY DEF Kept
<1> QED
  BY <1>3, <1>5, <1>8, <1>9, NthEnumerates
=============================================================================
