------------------------------ MODULE NumberLists ------------------------------
(* Sets of numbers as lists. *)
EXTENDS Integers, FiniteSets

\* The elements of S, in order.
Sorted(S) ==
  [n \in 1..Cardinality(S) |-> CHOOSE x \in S : Cardinality({y \in S : y < x}) = n - 1]
=============================================================================
