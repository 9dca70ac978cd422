------------------------------- MODULE Lists --------------------------------
(* Lists made of sets, as the sorts of the code make them.                 *)
EXTENDS Integers, FiniteSets, Sequences

\* A finite set in the order of a relation that orders it totally: sorted().  An element
\* has as many before it as there are that precede it.
Sorted(S, before) ==
  [k \in 1..Cardinality(S) |->
     CHOOSE x \in S : Cardinality({y \in S : <<y, x>> \in before}) = k - 1]
=============================================================================
