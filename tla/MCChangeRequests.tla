--------------------------- MODULE MCChangeRequests ---------------------------
(* ChangeRequests for TLC.                                                 *)
EXTENDS ChangeRequests, TLC

Symmetry == Permutations(Users) \cup Permutations(Ids) \cup Permutations(Roles)

=============================================================================
