--------------------------- MODULE SequenceFilter ---------------------------
(***************************************************************************)
(* The order-preserving restriction of a sequence, which is what the       *)
(* coordinator's drain-and-requeue loops, the gesture queue and the parser *)
(* of search results compute.  It is SelectSeq written without recursion   *)
(* (element n of the result is the kept element that has n-1 kept elements *)
(* before it), so that facts about it can be proved; the MC module of the  *)
(* coordinator compares the two definitions.                               *)
(***************************************************************************)
EXTENDS Naturals, Sequences, FiniteSets

\* The elements of a sequence.
Elems(s) == {s[i] : i \in 1..Len(s)}

\* No element occurs twice.
Distinct(s) == \A i, j \in 1..Len(s) : s[i] = s[j] => i = j

\* The positions of s whose element is in S.
Kept(s, S) == {i \in 1..Len(s) : s[i] \in S}

\* How many of the positions in I come before i.
RankIn(I, i) == Cardinality({j \in I : j < i})

\* The subsequence of s made of its elements in S.
Keep(s, S) ==
  LET I == Kept(s, S)
  IN  [n \in 1..Cardinality(I) |-> s[CHOOSE i \in I : RankIn(I, i) = n - 1]]

\* x comes before y in s.
Precedes(s, x, y) ==
  \E i, j \in 1..Len(s) : i < j /\ s[i] = x /\ s[j] = y
=============================================================================
