------------------------------ MODULE BatchJob ------------------------------
(***************************************************************************)
(* Scoring a list of companies in the background: POST and GET             *)
(* /legalscore/batch (batch_score, batch_status of the gateway), the       *)
(* tracker in Redis (create_batch_job, get_batch_status and                *)
(* update_batch_progress of services/scoring/idempotency.py) and the       *)
(* Celery task run_batch_score (services/scoring/tasks.py).                *)
(*                                                                         *)
(* Celery acknowledges a message before it runs the task, so a task runs   *)
(* at most once and a worker that dies takes it along.  A tracker update   *)
(* is three Redis commands: GET, TTL, SETEX; the key may expire or be      *)
(* evicted between any two of them.                                        *)
(***************************************************************************)
EXTENDS Naturals, FiniteSets

CONSTANTS Jobs, Items,
          ProgressEvery, \* a progress update after that many items (100)
          BatchTtl       \* _BATCH_TTL, in ticks of the clock

ASSUME BatchAssumption ==
  IsFiniteSet(Items) /\ ProgressEvery \in Nat \ {0} /\ BatchTtl \in Nat \ {0}

VARIABLES tracker, \* tracker[j]: the value of batch:{job_id}
          left,    \* left[j]: ticks until that key expires
          queue,   \* messages in the broker
          phase,   \* phase[j]: where the task of job j stands
          step,    \* step[j]: the next command of an update in progress
          scored,  \* scored[j]: results of the task so far
          read,    \* read[j]: the payload that GET returned
          ttl      \* ttl[j]: what TTL returned, 0 for a missing key

taskVars == <<phase, step, scored, read, ttl>>
batchVars == <<tracker, left, queue, taskVars>>

NoEntry == [none |-> TRUE]
Total == Cardinality(Items)

\* The name the gateway sends and the one Celery registers: module.function.
SentName == "scoring.tasks.run_batch_score"
RegisteredName == "services.scoring.tasks.run_batch_score"

Status == {"queued", "processing", "done"}
Entry == [status : Status, processed : 0..Total, results : SUBSET Items]
Phases == {"none", "sending", "sent", "first", "scoring", "progress", "final",
           "finished", "lost"}

BatchInit ==
  /\ tracker = [j \in Jobs |-> NoEntry]
  /\ left = [j \in Jobs |-> 0]
  /\ queue = {}
  /\ phase = [j \in Jobs |-> "none"]
  /\ step = [j \in Jobs |-> "idle"]
  /\ scored = [j \in Jobs |-> {}]
  /\ read = [j \in Jobs |-> NoEntry]
  /\ ttl = [j \in Jobs |-> 0]
-----------------------------------------------------------------------------
(* The gateway                                                             *)

CreateJob(j) ==
  /\ phase[j] = "none"
  /\ tracker' = [tracker EXCEPT ![j] =
                   [status |-> "queued", processed |-> 0, results |-> {}]]
  /\ left' = [left EXCEPT ![j] = BatchTtl]
  /\ phase' = [phase EXCEPT ![j] = "sending"]
  /\ UNCHANGED <<queue, step, scored, read, ttl>>

SendAs(j, name) ==
  /\ phase[j] = "sending"
  /\ queue' = queue \cup {[name |-> name, job |-> j]}
  /\ phase' = [phase EXCEPT ![j] = "sent"]
  /\ UNCHANGED <<tracker, left, step, scored, read, ttl>>

SendTask(j) == SendAs(j, SentName)

\* Whoever calls the task object itself (run_batch_score.delay) has its name.
CallTask(j) == SendAs(j, RegisteredName)

\* The broker refuses: 202 with a warning, and nobody will run the job.
SendFails(j) ==
  /\ phase[j] = "sending"
  /\ phase' = [phase EXCEPT ![j] = "lost"]
  /\ UNCHANGED <<tracker, left, queue, step, scored, read, ttl>>
-----------------------------------------------------------------------------
(* The worker                                                              *)

\* run_batch_score starts with an update to "processing".
StartTask(m) ==
  /\ m \in queue /\ m.name = RegisteredName
  /\ queue' = queue \ {m}
  /\ phase' = [phase EXCEPT ![m.job] = "first"]
  /\ step' = [step EXCEPT ![m.job] = "get"]
  /\ UNCHANGED <<tracker, left, scored, read, ttl>>

\* A message for a task that is not registered is logged and dropped.
DropUnknown(m) ==
  /\ m \in queue /\ m.name # RegisteredName
  /\ queue' = queue \ {m}
  /\ phase' = [phase EXCEPT ![m.job] = "lost"]
  /\ UNCHANGED <<tracker, left, step, scored, read, ttl>>

\* What comes after an update: the pool, or the end of the task.
AfterUpdate(j) == IF phase[j] = "final" THEN "finished" ELSE "scoring"

\* Seeded fault: an update waits for its entry.
GetWaits(j) ==
  /\ step[j] = "get" /\ tracker[j] # NoEntry
  /\ read' = [read EXCEPT ![j] = tracker[j]]
  /\ step' = [step EXCEPT ![j] = "ttl"]
  /\ UNCHANGED <<tracker, left, queue, phase, scored, ttl>>

\* GET; without an entry the update is given up.
GetEntry(j) ==
  /\ step[j] = "get"
  /\ read' = [read EXCEPT ![j] = tracker[j]]
  /\ IF tracker[j] = NoEntry
     THEN step' = [step EXCEPT ![j] = "idle"] /\ phase' = [phase EXCEPT ![j] = AfterUpdate(j)]
     ELSE step' = [step EXCEPT ![j] = "ttl"] /\ UNCHANGED phase
  /\ UNCHANGED <<tracker, left, queue, scored, ttl>>

\* TTL: -2 for a key that is gone, which the code treats like 0.
ReadTtl(j) ==
  /\ step[j] = "ttl"
  /\ ttl' = [ttl EXCEPT ![j] = left[j]]
  /\ step' = [step EXCEPT ![j] = "setex"]
  /\ UNCHANGED <<tracker, left, queue, phase, scored, read>>

\* Seeded fault: only the results since the last update are written.
NewResultsOnly(j) ==
  LET fresh == scored[j] \ read[j].results
  IN  [status    |-> IF phase[j] = "final" THEN "done" ELSE "processing",
       processed |-> Cardinality(fresh),
       results   |-> fresh]

\* The payload of the update: processed and results replace what was read.
Updated(j) ==
  [read[j] EXCEPT !.status = IF phase[j] = "final" THEN "done" ELSE "processing",
                  !.processed = Cardinality(scored[j]),
                  !.results = scored[j]]

\* Seeded fault: the key is written without a time to live.
TtlForEver(j) == 0

\* Seeded fault: the full time is added to the remaining one.
TtlAdded(j) == BatchTtl + ttl[j]

\* The remaining time is kept; without any, the entry gets a full new one.
NewTtl(j) == IF ttl[j] > 0 THEN ttl[j] ELSE BatchTtl

WriteEntry(j) ==
  /\ step[j] = "setex"
  /\ tracker' = [tracker EXCEPT ![j] = Updated(j)]
  /\ left' = [left EXCEPT ![j] = NewTtl(j)]
  /\ step' = [step EXCEPT ![j] = "idle"]
  /\ phase' = [phase EXCEPT ![j] = AfterUpdate(j)]
  /\ UNCHANGED <<queue, scored, read, ttl>>

\* as_completed yields the next result, in any order of the items; a failed
\* item has a result too, with its error.
ScoreItem(j, i) ==
  LET all == scored[j] \cup {i}
  IN  /\ phase[j] = "scoring" /\ step[j] = "idle" /\ i \notin scored[j]
      /\ scored' = [scored EXCEPT ![j] = all]
      /\ IF Cardinality(all) % ProgressEvery = 0
         THEN phase' = [phase EXCEPT ![j] = "progress"] /\ step' = [step EXCEPT ![j] = "get"]
         ELSE UNCHANGED <<phase, step>>
      /\ UNCHANGED <<tracker, left, queue, read, ttl>>

\* Seeded fault: the pool is left while some item is still being scored.
FinishEarly(j) ==
  /\ phase[j] = "scoring" /\ step[j] = "idle" /\ scored[j] # {}
  /\ phase' = [phase EXCEPT ![j] = "final"]
  /\ step' = [step EXCEPT ![j] = "get"]
  /\ UNCHANGED <<tracker, left, queue, scored, read, ttl>>

\* The loop is over: the update to "done".
Finish(j) ==
  /\ phase[j] = "scoring" /\ step[j] = "idle" /\ scored[j] = Items
  /\ phase' = [phase EXCEPT ![j] = "final"]
  /\ step' = [step EXCEPT ![j] = "get"]
  /\ UNCHANGED <<tracker, left, queue, scored, read, ttl>>

Running(j) == phase[j] \in {"first", "scoring", "progress", "final"}

\* The worker dies, or a Redis command raises: the task is not retried.
TaskDies(j) ==
  /\ Running(j)
  /\ phase' = [phase EXCEPT ![j] = "lost"]
  /\ step' = [step EXCEPT ![j] = "idle"]
  /\ UNCHANGED <<tracker, left, queue, scored, read, ttl>>
-----------------------------------------------------------------------------
(* Redis                                                                   *)

\* One tick of the clock; keys whose time is over are gone.
Tick ==
  /\ \E j \in Jobs : tracker[j] # NoEntry
  /\ left' = [j \in Jobs |-> IF left[j] > 0 THEN left[j] - 1 ELSE 0]
  /\ tracker' = [j \in Jobs |-> IF left[j] = 1 THEN NoEntry ELSE tracker[j]]
  /\ UNCHANGED <<queue, taskVars>>

\* allkeys-lru under memory pressure.
Evict(j) ==
  /\ tracker[j] # NoEntry
  /\ tracker' = [tracker EXCEPT ![j] = NoEntry]
  /\ left' = [left EXCEPT ![j] = 0]
  /\ UNCHANGED <<queue, taskVars>>
-----------------------------------------------------------------------------
Submit(j) == CreateJob(j) \/ SendTask(j) \/ CallTask(j) \/ SendFails(j)

Deliver(m) == StartTask(m) \/ DropUnknown(m)

Work(j) ==
  \/ GetEntry(j) \/ ReadTtl(j) \/ WriteEntry(j)
  \/ \E i \in Items : ScoreItem(j, i)
  \/ Finish(j)

BatchNext ==
  \/ \E j \in Jobs : Submit(j) \/ Work(j) \/ TaskDies(j) \/ Evict(j)
  \/ \E m \in queue : Deliver(m)
  \/ Tick

BatchSpec == BatchInit /\ [][BatchNext]_batchVars

\* Time passes, and a worker that lives goes on with its task.
BatchFairSpec ==
  /\ BatchSpec /\ WF_batchVars(Tick)
  /\ \A j \in Jobs : WF_batchVars(Work(j))
  /\ WF_batchVars(\E m \in queue : Deliver(m))
-----------------------------------------------------------------------------
(* Properties *)

Rank(s) == CASE s = "queued" -> 0 [] s = "processing" -> 1 [] s = "done" -> 2

BatchTypeOK ==
  /\ tracker \in [Jobs -> Entry \cup {NoEntry}]
  /\ left \in [Jobs -> 0..BatchTtl] /\ ttl \in [Jobs -> 0..BatchTtl]
  /\ phase \in [Jobs -> Phases]
  /\ step \in [Jobs -> {"idle", "get", "ttl", "setex"}]
  /\ scored \in [Jobs -> SUBSET Items]

(* A job is shown as done only with the results of all its items, and the  *)
(* progress counter always is the number of results beside it, although    *)
(* they are read, changed and written back over three commands.            *)
ProgressTruthful ==
  \A j \in Jobs : tracker[j] # NoEntry =>
    /\ tracker[j].processed = Cardinality(tracker[j].results)
    /\ tracker[j].status = "done" => tracker[j].results = Items

(* A client that polls never sees a job go back: neither its status nor    *)
(* its progress, and no result disappears, as long as the key is there.    *)
NeverGoesBack ==
  [][\A j \in Jobs : tracker[j] # NoEntry /\ tracker'[j] # NoEntry =>
       /\ Rank(tracker[j].status) <= Rank(tracker'[j].status)
       /\ tracker[j].results \subseteq tracker'[j].results]_batchVars

(* No tracker entry stays in Redis for ever, whenever workers die and      *)
(* however often updates write the key again.                              *)
EveryEntryExpires == \A j \in Jobs : tracker[j] # NoEntry ~> tracker[j] = NoEntry

(* An entry that a task has started on is finished by it, is lost with its *)
(* worker, or is gone from Redis.                                          *)
StartedJobSettles ==
  \A j \in Jobs : Running(j) ~> (phase[j] \in {"finished", "lost"})

(* What celery_app.py 13 says of the registration it makes: that with it   *)
(* the worker runs what the gateway sends.                                 *)
SentTaskRuns ==
  \A j \in Jobs : (\E m \in queue : m.job = j) ~> Running(j) \/ phase[j] = "finished"

(* What a client reads of a job is true when it is read, although each     *)
(* update rewrites an entry it read before (idempotency.py 60-85).         *)
TrackerSound == BatchTypeOK /\ ProgressTruthful
=============================================================================
