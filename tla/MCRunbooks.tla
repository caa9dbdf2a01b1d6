----------------------------- MODULE MCRunbooks -----------------------------
(* Instances of Runbooks for TLC: two requests, the operator and one chat. *)
EXTENDS Runbooks, TLC

CONSTANTS b1, b2

\* The first text has one section, the second two.
MCSections == b1 :> 1 @@ b2 :> 2

\* Requests are interchangeable, and no property is liveness.  Titles are not
\* permuted: an idle job holds one chosen title.
MCSymmetry == Permutations(Requests)
=============================================================================
