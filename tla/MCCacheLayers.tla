---------------------------- MODULE MCCacheLayers ----------------------------
(* CacheLayers for TLC: the query cache and one key of the repository cache. *)
EXTENDS CacheLayers, TLC

\* The upper layer lives longer, as most keys of the repository cache do; a
\* unit is the time a load takes.
MCTTL == <<1, 2>>
MCBudget == [i \in 0 .. 2 |-> <<0, 2, 5>>[i + 1]]

Symmetry == Permutations(Readers) \cup Permutations(Writers)

=============================================================================
