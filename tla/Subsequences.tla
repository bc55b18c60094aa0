---------------------------- MODULE Subsequences ----------------------------
(* The elements of a sequence at some of its positions, in their order: what    *)
(* std::remove_if and a copy with a condition leave.  The same as SelectSeq,    *)
(* from positions instead of a test.                                            *)
EXTENDS Naturals, Sequences, FiniteSets

\* how many numbers of K are not above i
Rank(K, i) == Cardinality({j \in K : j <= i})

Picked(s, K) == [n \in 1 .. Cardinality(K) |-> s[CHOOSE i \in K : Rank(K, i) = n]]
=============================================================================
