------------------------------- MODULE Sorting -------------------------------
(***************************************************************************)
(* sorted() of Python, as the file servers use it on the names of a folder.   *)
(***************************************************************************)
EXTENDS Naturals, FiniteSets

\* A finite set of numbers in order: the i-th has i - 1 smaller ones.
Sorted(S) == [i \in 1 .. Cardinality(S) |-> CHOOSE n \in S : Cardinality({m \in S : m < n}) = i - 1]
=============================================================================
