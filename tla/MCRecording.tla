---------------------------- MODULE MCRecording ----------------------------
(* Small instances of what is recorded of a call: the ledger in Postgres   *)
(* and the scoring of one company.  They share no state: a behaviour       *)
(* belongs to one of them ("part").                                        *)
EXTENDS MCPostgresLedger, ScoreService
VARIABLE part

RecordingInit == Init /\ ScoreInit /\ part \in {"ledger", "score"}

RecordingNext ==
  /\ UNCHANGED part
  /\ IF part = "ledger" THEN Next ELSE UNCHANGED vars
  /\ IF part = "score" THEN ScoreNext ELSE UNCHANGED scoreVars

RecordingSpec == RecordingInit /\ [][RecordingNext]_<<vars, scoreVars, part>>
=============================================================================
