-------------------------------- MODULE Ordered --------------------------------
(***************************************************************************)
(* A finite set of numbers as a sequence, the smallest first: what sorted() *)
(* makes of it.  SetToSortSeq of the community modules says the same with  *)
(* an operator of TLC, about which nothing can be proved.                  *)
(***************************************************************************)
EXTENDS Naturals, FiniteSets

Rank(S, x) == Cardinality({y \in S : y <= x})

InOrder(S) ==
    [k \in 1..Cardinality(S) |-> CHOOSE x \in {y \in S : Rank(S, y) = k} : TRUE]
=============================================================================
