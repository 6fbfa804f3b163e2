-------------------------------- MODULE Order --------------------------------
(***************************************************************************)
(* A set of numbers as a sequence.                                         *)
(***************************************************************************)
EXTENDS Naturals, FiniteSets

\* The members of S from the least on: the i-th has i members up to it.
InOrder(S) ==
  [i \in 1..Cardinality(S) |-> CHOOSE x \in S : Cardinality({y \in S : y <= x}) = i]

=============================================================================
