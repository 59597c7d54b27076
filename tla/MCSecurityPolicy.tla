-------------------------- MODULE MCSecurityPolicy --------------------------
(* SecurityPolicy for TLC.                                                 *)
EXTENDS SecurityPolicy, TLC

\* Both requests come from the same browser, so their answers compete.
MCBrowserOf == [q \in Requests |-> CHOOSE b \in Browsers : TRUE]

Symmetry == Permutations(Requests)

=============================================================================
