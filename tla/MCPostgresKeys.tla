--------------------------- MODULE MCPostgresKeys ---------------------------
(* An instance of PostgresKeys for TLC. *)
EXTENDS PostgresKeys, TLC

\* One step of the duration either way.
BothWays == {-1, 1}

Interchangeable == Permutations(Codes) \cup Permutations(ValidIps) \cup Permutations(Threads)
=============================================================================
