---------------------------- MODULE MCRoleGrants ----------------------------
(* RoleGrants for TLC.                                                     *)
EXTENDS RoleGrants, TLC

Symmetry == Permutations(Roles)

=============================================================================
