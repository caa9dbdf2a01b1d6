---------------------------- MODULE MCAlertIntake ----------------------------
(***************************************************************************)
(* Two requests that may be webhooks of two episodes, one of them labelled *)
(* with a team that may not exist yet; a reader of both teams.             *)
(***************************************************************************)
EXTENDS AlertIntake, TLC

CONSTANTS ops, payments, e1, e2

MCLabel == e1 :> ops @@ e2 :> payments
MCSymmetry == Permutations(Requests)
=============================================================================
