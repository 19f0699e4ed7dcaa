-------------------------- MODULE MCPostgresLedger --------------------------
(* Small instances of PostgresLedger.                                      *)
EXTENDS PostgresLedger, TLC
CONSTANTS t1, t2, k1, k2

\* Each tenant hashes to an advisory lock of its own.
OwnKeys == t1 :> k1 @@ t2 :> k2

\* Writers and clients are interchangeable; so are the request identifiers.
Interchangeable == Permutations(Writers) \cup Permutations(Requests)
=============================================================================
