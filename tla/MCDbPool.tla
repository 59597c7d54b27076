------------------------------ MODULE MCDbPool ------------------------------
(* DbPool for TLC: threads and connections are interchangeable.            *)
EXTENDS DbPool, TLC

Symmetry == Permutations(Threads) \cup Permutations(Conns)

=============================================================================
