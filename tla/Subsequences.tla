---------------------------- MODULE Subsequences -----------------------------
(***************************************************************************)
(* Filtering a list, as [x for x in s if x in S] does, and sorting a set,  *)
(* in a form that can be reasoned about: the k-th element of the result is *)
(* the one with k elements up to it.                                       *)
(***************************************************************************)
EXTENDS Integers, Sequences, FiniteSets

\* The positions of s whose elements are in S
Kept(s, S) == {i \in 1..Len(s) : s[i] \in S}

\* The number of kept positions up to i
Rank(I, i) == Cardinality({j \in I : j <= i})

\* The subsequence of s of its elements in S
Keep(s, S) ==
    LET I == Kept(s, S)
    IN  [k \in 1..Cardinality(I) |-> s[CHOOSE i \in I : Rank(I, i) = k]]

\* The elements of S in the total order R
InOrder(S, R) ==
    [k \in 1..Cardinality(S) |-> CHOOSE x \in S : Cardinality({y \in S : <<y, x>> \in R}) = k]
==============================================================================
