--------------------------- MODULE MCScoreService ---------------------------
(* Small instances of ScoreService.                                        *)
EXTENDS ScoreService, TLC

Interchangeable == Permutations(Gateways) \cup Permutations(ScoreTenants)
=============================================================================
