------------------------------- MODULE Selections -------------------------------
(***************************************************************************)
(* What Python's `[x for x in s if ...]` keeps of a list, by the set of    *)
(* the positions that are kept.  SelectSeq says the same of a test; it is  *)
(* defined by recursion over the sequence, of which the provers know       *)
(* nothing, and this is not.                                               *)
(***************************************************************************)
EXTENDS Naturals, FiniteSets

\* How many of S come up to i, and the k-th of S.
Rank(i, S) == Cardinality({j \in S : j <= i})
Nth(k, S) == CHOOSE i \in S : Rank(i, S) = k

\* The elements of s at the positions S, in their order.
Kept(s, S) == [k \in 1..Cardinality(S) |-> s[Nth(k, S)]]
=============================================================================
