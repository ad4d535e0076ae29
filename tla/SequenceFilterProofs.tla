------------------------ MODULE SequenceFilterProofs ------------------------
(***************************************************************************)
(* Facts about Keep that the proofs of the queue and of the assignment     *)
(* table rest on: it contains exactly the kept elements, each as often as  *)
(* before and in the same order.                                           *)
(***************************************************************************)
EXTENDS SequenceFilter, FiniteSetTheorems, SequenceTheorems, TLAPS

\* Ranks within a set of positions are distinct, increase with the position
\* and lie below the number of positions.
LEMMA RankProperties ==
  ASSUME NEW n \in Nat, NEW I \in SUBSET (1..n)
  PROVE  /\ IsFiniteSet(I)
         /\ Cardinality(I) \in Nat
         /\ \A i \in I : RankIn(I, i) \in 0..(Cardinality(I) - 1)
         /\ \A i, k \in I : i < k => RankIn(I, i) < RankIn(I, k)
<1>1. IsFiniteSet(I)
  <2>1. IsFiniteSet(1..n)
    BY FS_Interval
  <2>2. QED
    BY <2>1, FS_Subset
<1>2. Cardinality(I) \in Nat
  BY <1>1, FS_CardinalityType
<1>3. \A i \in I : RankIn(I, i) \in 0..(Cardinality(I) - 1)
  <2> TAKE i \in I
  <2> DEFINE B == {j \in I : j < i}
  <2>1. B \in SUBSET (I \ {i})
    OBVIOUS
  <2>2. IsFiniteSet(I \ {i}) /\ Cardinality(I \ {i}) = Cardinality(I) - 1
    BY <1>1, FS_RemoveElement
  <2>3. IsFiniteSet(B) /\ Cardinality(B) <= Cardinality(I) - 1
    BY <2>1, <2>2, FS_Subset
  <2>4. Cardinality(B) \in Nat
    BY <2>3, FS_CardinalityType
  <2>5. QED
    BY <2>3, <2>4, <1>2 DEF RankIn
<1>4. \A i, k \in I : i < k => RankIn(I, i) < RankIn(I, k)
  <2> SUFFICES ASSUME NEW i \in I, NEW k \in I, i < k
               PROVE  RankIn(I, i) < RankIn(I, k)
    OBVIOUS
  <2> DEFINE B == {j \in I : j < i}
             C == {j \in I : j < k}
  <2>1. IsFiniteSet(B) /\ IsFiniteSet(C)
    BY <1>1, FS_Subset
  <2>2. Cardinality(B \cup {i}) = Cardinality(B) + 1
    BY <2>1, FS_AddElement
  <2>3. B \cup {i} \in SUBSET C
    <3>1. \A j \in I : j < i => j < k
      <4>1. \A j \in I : j \in Int
        OBVIOUS
      <4>2. QED
        BY <4>1
    <3>2. QED
      BY <3>1
  <2>4. Cardinality(B \cup {i}) <= Cardinality(C)
    BY <2>1, <2>3, FS_Subset
  <2>5. Cardinality(B) \in Nat /\ Cardinality(C) \in Nat
    BY <2>1, FS_CardinalityType
  <2>6. QED
    BY <2>2, <2>4, <2>5 DEF RankIn
<1>5. QED
  BY <1>1, <1>2, <1>3, <1>4

\* Every number below the number of positions is the rank of exactly one
\* position: the ranks are an injection into a set of the same size.
LEMMA RankOnto ==
  ASSUME NEW n \in Nat, NEW I \in SUBSET (1..n),
         NEW r \in 1..Cardinality(I)
  PROVE  \E i \in I : RankIn(I, i) = r - 1
<1> DEFINE f == [i \in I |-> RankIn(I, i) + 1]
           N == 1..Cardinality(I)
<1>1. IsFiniteSet(I) /\ Cardinality(I) \in Nat
  BY RankProperties
<1>2. \A i \in I : RankIn(I, i) \in 0..(Cardinality(I) - 1)
  BY RankProperties
<1>2a. f \in [I -> N]
  BY <1>1, <1>2
<1>3. \A i, k \in I : f[i] = f[k] => i = k
  <2> SUFFICES ASSUME NEW i \in I, NEW k \in I, f[i] = f[k], i # k
               PROVE  FALSE
    OBVIOUS
  <2>1. RankIn(I, i) \in Nat /\ RankIn(I, k) \in Nat
    BY <1>1, <1>2
  <2>2. i < k \/ k < i
    OBVIOUS
  <2>3. /\ i < k => RankIn(I, i) < RankIn(I, k)
        /\ k < i => RankIn(I, k) < RankIn(I, i)
    BY RankProperties
  <2>4. QED
    BY <2>1, <2>2, <2>3
<1>4. f \in Injection(I, N)
  BY <1>2a, <1>3 DEF Injection, IsInjective
<1>5. IsFiniteSet(N) /\ Cardinality(N) = Cardinality(I)
  BY <1>1, FS_Interval
<1>6. f \in Surjection(I, N)
  BY <1>4, <1>5, FS_Injection
<1>7. PICK i \in I : f[i] = r
  BY <1>6 DEF Surjection
<1>8. RankIn(I, i) \in Nat
  BY <1>1, <1>2
<1>9. QED
  BY <1>7, <1>8

\* The position that the n-th element of Keep(s, S) comes from.
Source(s, S, n) ==
  CHOOSE i \in Kept(s, S) : RankIn(Kept(s, S), i) = n - 1

\* Keep(s, S) enumerates the kept positions in increasing order.
LEMMA KeepSource ==
  ASSUME NEW T, NEW s \in Seq(T), NEW S
  PROVE  /\ Len(Keep(s, S)) = Cardinality(Kept(s, S))
         /\ Len(Keep(s, S)) \in Nat
         /\ \A n \in 1..Len(Keep(s, S)) :
              /\ Source(s, S, n) \in Kept(s, S)
              /\ RankIn(Kept(s, S), Source(s, S, n)) = n - 1
              /\ Keep(s, S)[n] = s[Source(s, S, n)]
         /\ \A i \in Kept(s, S) : \E n \in 1..Len(Keep(s, S)) :
              Source(s, S, n) = i
         /\ Keep(s, S) \in Seq(T)
<1> DEFINE I == Kept(s, S)
<1>1. Len(s) \in Nat /\ I \in SUBSET (1..Len(s))
  BY LenProperties DEF Kept
<1>2. /\ Cardinality(I) \in Nat
      /\ \A i \in I : RankIn(I, i) \in 0..(Cardinality(I) - 1)
      /\ \A i, k \in I : i < k => RankIn(I, i) < RankIn(I, k)
  BY <1>1, RankProperties
<1>3. Keep(s, S) = [n \in 1..Cardinality(I) |-> s[Source(s, S, n)]]
  BY DEF Keep, Source
<1>4. Len(Keep(s, S)) = Cardinality(I)
  BY <1>2, <1>3
<1>5. \A n \in 1..Cardinality(I) :
        Source(s, S, n) \in I /\ RankIn(I, Source(s, S, n)) = n - 1
  BY <1>1, RankOnto DEF Source
<1>6. \A i \in I : \E n \in 1..Cardinality(I) : Source(s, S, n) = i
  <2> TAKE i \in I
  <2> DEFINE n == RankIn(I, i) + 1
  <2>1. n \in 1..Cardinality(I) /\ RankIn(I, i) \in Nat
    BY <1>2
  <2>2. Source(s, S, n) \in I /\ RankIn(I, Source(s, S, n)) = RankIn(I, i)
    BY <2>1, <1>5
  <2>3. Source(s, S, n) = i
    <3>1. PICK j \in I : j = Source(s, S, n)
      BY <2>2
    <3>2. ~ (j < i) /\ ~ (i < j)
      BY <1>2, <2>1, <2>2, <3>1
    <3>3. i \in Int /\ j \in Int
      BY <1>1
    <3>4. QED
      BY <3>1, <3>2, <3>3
  <2>4. QED
    BY <2>1, <2>3
<1>7. Keep(s, S) \in Seq(T)
  <2>1. \A n \in 1..Cardinality(I) : s[Source(s, S, n)] \in T
    BY <1>1, <1>5, ElementOfSeq
  <2>2. Keep(s, S) \in [1..Cardinality(I) -> T]
    BY <1>3, <2>1
  <2>3. QED
    BY <2>2, <1>2, SeqDef
<1>8. QED
  BY <1>2, <1>3, <1>4, <1>5, <1>6, <1>7

\* Keep(s, S) holds the elements of s that are in S and no other.
LEMMA KeepElems ==
  ASSUME NEW T, NEW s \in Seq(T), NEW S
  PROVE  /\ Keep(s, S) \in Seq(T)
         /\ Elems(Keep(s, S)) = Elems(s) \cap S
<1>1. Keep(s, S) \in Seq(T)
  BY KeepSource
<1>2. Elems(Keep(s, S)) \subseteq Elems(s) \cap S
  <2>1. \A n \in 1..Len(Keep(s, S)) :
          Source(s, S, n) \in Kept(s, S) /\ Keep(s, S)[n] = s[Source(s, S, n)]
    BY KeepSource
  <2>2. \A i \in Kept(s, S) : s[i] \in Elems(s) \cap S
    BY DEF Elems, Kept
  <2>3. QED
    BY <2>1, <2>2 DEF Elems
<1>3. Elems(s) \cap S \subseteq Elems(Keep(s, S))
  <2> SUFFICES ASSUME NEW x \in Elems(s) \cap S
               PROVE  x \in Elems(Keep(s, S))
    OBVIOUS
  <2>1. PICK i \in Kept(s, S) : s[i] = x
    BY DEF Elems, Kept
  <2>2. PICK n \in 1..Len(Keep(s, S)) : Source(s, S, n) = i
    BY <2>1, KeepSource
  <2>3. QED
    BY <2>1, <2>2, KeepSource DEF Elems
<1>4. QED
  BY <1>1, <1>2, <1>3

\* Keep(s, S) repeats nothing that s does not repeat: distinct positions of
\* the result come from distinct positions of s.
LEMMA KeepDistinct ==
  ASSUME NEW T, NEW s \in Seq(T), NEW S, Distinct(s)
  PROVE  Distinct(Keep(s, S))
<1> SUFFICES ASSUME NEW m \in 1..Len(Keep(s, S)),
                    NEW n \in 1..Len(Keep(s, S)),
                    Keep(s, S)[m] = Keep(s, S)[n]
             PROVE  m = n
  BY DEF Distinct
<1>1. s[Source(s, S, m)] = s[Source(s, S, n)]
  BY KeepSource
<1>2. Source(s, S, m) = Source(s, S, n)
  BY <1>1, KeepSource DEF Distinct, Kept
<1>3. m - 1 = n - 1
  BY <1>2, KeepSource
<1>4. QED
  BY <1>3

\* The elements that remain keep their order.
LEMMA KeepOrder ==
  ASSUME NEW T, NEW s \in Seq(T), NEW S, NEW x \in S, NEW y \in S,
         Precedes(s, x, y)
  PROVE  Precedes(Keep(s, S), x, y)
<1> DEFINE I == Kept(s, S)
<1>0. Len(s) \in Nat /\ I \in SUBSET (1..Len(s))
  BY LenProperties DEF Kept
<1>1. PICK i, j \in 1..Len(s) : i < j /\ s[i] = x /\ s[j] = y
  BY DEF Precedes
<1>2. i \in I /\ j \in I
  BY <1>1 DEF Kept
<1>3. PICK m, n \in 1..Len(Keep(s, S)) :
        Source(s, S, m) = i /\ Source(s, S, n) = j
  BY <1>2, KeepSource
<1>4. m - 1 < n - 1
  <2>1. RankIn(I, i) < RankIn(I, j)
    BY <1>0, <1>1, <1>2, RankProperties
  <2>2. RankIn(I, i) = m - 1 /\ RankIn(I, j) = n - 1
    BY <1>3, KeepSource
  <2>3. QED
    BY <2>1, <2>2
<1>5. Keep(s, S)[m] = x /\ Keep(s, S)[n] = y
  BY <1>1, <1>3, KeepSource
<1>6. m < n
  BY <1>4, KeepSource
<1>7. QED
  BY <1>5, <1>6 DEF Precedes
=============================================================================
