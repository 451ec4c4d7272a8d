---------------------------- MODULE Subsequences ----------------------------
(* Sequences from which some elements are taken out, the others keeping     *)
(* their order: what a DELETE leaves of a table in rowid order, or what a   *)
(* dictionary or a deque holds after entries were dropped.                  *)
EXTENDS Integers, Sequences, FiniteSets

\* How many of a set of positions come up to i, and the k-th of them.
UpTo(I, i) == Cardinality({j \in I : j <= i})
Nth(I, k) == CHOOSE i \in I : UpTo(I, i) = k

\* The elements of s at the positions I.
Picked(s, I) == [k \in 1..Cardinality(I) |-> s[Nth(I, k)]]
=============================================================================
