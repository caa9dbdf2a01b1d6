-------------------------- MODULE MCTenantContext --------------------------
(***************************************************************************)
(* Two requests of any two users over two server connections, every        *)
(* combination of roles in two teams.                                      *)
(***************************************************************************)
EXTENDS TenantContext, TLC

MCSymmetry == Permutations(Requests) \cup Permutations(Servers)
=============================================================================
