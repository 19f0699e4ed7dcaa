----------------------------- MODULE Migrations -----------------------------
(***************************************************************************)
(* scripts/migrate.py: the runner that brings a database to the schema of  *)
(* a release.  Runners take no lock: two of them may read the same list of *)
(* pending files.  A file and its row of public.schema_migrations are one  *)
(* transaction, and "version" is the primary key of that table.            *)
(***************************************************************************)
EXTENDS Naturals, Sequences

CONSTANTS Runners,
          Files,    \* number of files of scripts/migrations, in sorted order
          MaxEdits, \* bound of the model: edits of the files
          MaxRuns   \* bound of the model: starts of one runner

ASSUME MigrationsAssumption == Files \in Nat /\ MaxEdits \in Nat /\ MaxRuns \in Nat

VARIABLES control, \* whether public.schema_migrations exists
          rows,    \* its rows: what each version was applied with
          effects, \* history: the scripts whose effects are committed
          content, \* content[v]: the edition of file v
          runs,    \* runs[r]: history
          runner   \* runner[r]: the process of a run

migrationVars == <<control, rows, effects, content, runs, runner>>

Versions == 1..Files
Row(v, c) == [version |-> v, checksum |-> c]
Recorded == {row.version : row \in rows}
Idle == [at |-> "idle", applied |-> {}, pending |-> {},
         content |-> [v \in Versions |-> 0]]

MigrationsInit ==
  /\ control = FALSE /\ rows = {} /\ effects = <<>>
  /\ content = [v \in Versions |-> 0]
  /\ runs = [r \in Runners |-> 0]
  /\ runner = [r \in Runners |-> Idle]
-----------------------------------------------------------------------------
At(r, place) == runner[r].at = place
Goto(r, place) == runner' = [runner EXCEPT ![r].at = place]
\* The files of a run are applied in order: this one is next.
NextFile(r, v) == v \in runner[r].pending /\ \A w \in runner[r].pending : v <= w

\* The process ends, and with it its transaction: an error of any statement.
Stop(r) == runner' = [runner EXCEPT ![r] = Idle]

\* _ensure_control_table.  While the table is new, another runner that
\* creates it at the same time makes the statement fail.
EnsureControlTable(r) ==
  /\ At(r, "idle") /\ runs[r] < MaxRuns
  /\ runs' = [runs EXCEPT ![r] = @ + 1]
  /\ \/ control' = TRUE /\ Goto(r, "started")
     \/ ~control /\ UNCHANGED <<control, runner>>
  /\ UNCHANGED <<rows, effects, content>>

ReadApplied(r) ==
  /\ At(r, "started")
  /\ runner' = [runner EXCEPT ![r].at = "read", ![r].applied = Recorded]
  /\ UNCHANGED <<control, rows, effects, content, runs>>

\* discover, and the list of the pending files.  A run with --status ends
\* here, as one that has nothing to apply; a changed file is only reported.
Discover(r) ==
  /\ At(r, "read")
  /\ \/ runner' = [runner EXCEPT ![r].at = "ready", ![r].content = content,
                                 ![r].pending = Versions \ runner[r].applied]
     \/ Stop(r)
  /\ UNCHANGED <<control, rows, effects, content, runs>>

\* Seeded fault: the script ends the transaction of the runner.
ExecuteAutocommit(r, v) ==
  /\ At(r, "ready") /\ NextFile(r, v)
  /\ Goto(r, "executed")
  /\ effects' = Append(effects, Row(v, runner[r].content[v]))
  /\ UNCHANGED <<control, rows, content, runs>>

\* conn.exec_driver_sql(sql), which may raise.
Execute(r, v) ==
  /\ At(r, "ready") /\ NextFile(r, v)
  /\ Goto(r, "executed") \/ Stop(r)
  /\ UNCHANGED <<control, rows, effects, content, runs>>

\* Seeded fault: the table has no primary key.
RecordAnyway(r, v) ==
  /\ At(r, "executed") /\ NextFile(r, v)
  /\ Goto(r, "recorded")
  /\ UNCHANGED <<control, rows, effects, content, runs>>

\* The INSERT of the row.  The index of the primary key makes it wait while
\* another transaction inserts the same version, and fail once that row is
\* committed.
Record(r, v) ==
  /\ At(r, "executed") /\ NextFile(r, v)
  /\ \A q \in Runners : ~ (At(q, "recorded") /\ NextFile(q, v))
  /\ IF v \in Recorded THEN Stop(r) ELSE Goto(r, "recorded")
  /\ UNCHANGED <<control, rows, effects, content, runs>>

\* The end of engine.begin(): the script and its row become visible.
Commit(r, v) ==
  /\ At(r, "recorded") /\ NextFile(r, v)
  /\ rows' = rows \cup {Row(v, runner[r].content[v])}
  /\ effects' = Append(effects, Row(v, runner[r].content[v]))
  /\ runner' = [runner EXCEPT ![r].at = "ready", ![r].pending = @ \ {v}]
  /\ UNCHANGED <<control, content, runs>>

\* The last file is applied, or the process is killed.
End(r) ==
  /\ ~ At(r, "idle") /\ Stop(r)
  /\ UNCHANGED <<control, rows, effects, content, runs>>

\* A new release changes a file.
Edit(v) ==
  /\ content[v] < MaxEdits
  /\ content' = [content EXCEPT ![v] = @ + 1]
  /\ UNCHANGED <<control, rows, effects, runs, runner>>

MigrationsNext ==
  \/ \E r \in Runners : EnsureControlTable(r) \/ ReadApplied(r) \/ Discover(r) \/ End(r)
  \/ \E r \in Runners, v \in Versions : Execute(r, v) \/ Record(r, v) \/ Commit(r, v)
  \/ \E v \in Versions : Edit(v)

MigrationsSpec == MigrationsInit /\ [][MigrationsNext]_migrationVars
-----------------------------------------------------------------------------
(* Properties *)

Places == {"idle", "started", "read", "ready", "executed", "recorded"}
Contents == [Versions -> 0..MaxEdits]

MigrationsTypeOK ==
  /\ control \in BOOLEAN /\ content \in Contents
  /\ rows \subseteq [version : Versions, checksum : 0..MaxEdits]
  /\ effects \in Seq([version : Versions, checksum : 0..MaxEdits])
  /\ runs \in [Runners -> Nat]
  /\ runner \in [Runners -> [at : Places, applied : SUBSET Versions,
                             pending : SUBSET Versions, content : Contents]]

(* The control table holds exactly the scripts that took effect, each with *)
(* the checksum of the text that ran (migrate.py 7-9), whatever runners    *)
(* overlap or die and whatever files change under them.                    *)
RowsAreWhatRan == rows = {effects[i] : i \in DOMAIN effects}

(* Scripts take effect in the order of their names, none is skipped and    *)
(* none takes effect twice: a release never runs on a later one's schema   *)
(* with a gap before it (migrate.py 5-7, 15).                              *)
AppliedInOrder == \A i \in DOMAIN effects : effects[i].version = i
=============================================================================
