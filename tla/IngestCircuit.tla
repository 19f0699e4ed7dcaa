---------------------------- MODULE IngestCircuit ----------------------------
(***************************************************************************)
(* A weekly ingestion (services/ingest/tasks/pgfn.py) behind the circuit   *)
(* breaker of services/ingest/pipeline/base.py.  A worker process goes     *)
(* through a list of companies one by one: an answer in the cache of Redis *)
(* is used, otherwise the source is asked, unless the circuit is open; a   *)
(* company without an answer is left out.                                  *)
(*                                                                         *)
(* The breaker lives in the process, and is gone when the process is; the  *)
(* cache is shared by all workers.                                         *)
(***************************************************************************)
EXTENDS Naturals, Sequences, FiniteSets

CONSTANTS Workers, Cnpjs,
          Lists,     \* the lists of companies a task is given
          Threshold, \* failure_threshold (5)
          Recovery,  \* recovery_timeout (300 s), in ticks of the clock
          MaxClock,  \* bound of the model: the last tick
          MaxTasks   \* bound of the model: tasks

ASSUME CircuitAssumption ==
  /\ IsFiniteSet(Workers)
  /\ Lists \subseteq Seq(Cnpjs) \ {<<>>}
  /\ Threshold \in Nat \ {0} /\ Recovery \in Nat \ {0}
  /\ MaxClock \in Nat /\ MaxTasks \in Nat

VARIABLES clock,   \* time.monotonic()
          pc,      \* pc[w]: "idle", "loop", or "calling" the source
          todo,    \* todo[w]: the companies that are left
          breaker, \* breaker[w]: _state, _failure_count and _opened_at
          cache,   \* cache[c]: the answer in Redis, if any
          tasks,   \* history: tasks begun
          begun,   \* begun[w]: history: when the call in progress began
          failing, \* failing[w]: history: consecutive failed calls, and the last
          stored,  \* stored[c]: history: answers put into the cache
          expired  \* expired[c]: history: how often the cache lost one

history == <<tasks, begun, failing, stored, expired>>
vars == <<clock, pc, todo, breaker, cache, history>>

Closed == [state |-> "CLOSED", failures |-> 0, openedAt |-> 0]
NoAnswer == "none"
NoFailure == [count |-> 0, at |-> 0]

Init ==
  /\ clock = 0 /\ tasks = 0
  /\ pc = [w \in Workers |-> "idle"]
  /\ todo = [w \in Workers |-> <<>>]
  /\ breaker = [w \in Workers |-> Closed]
  /\ cache = [c \in Cnpjs |-> NoAnswer]
  /\ begun = [w \in Workers |-> 0]
  /\ failing = [w \in Workers |-> NoFailure]
  /\ stored = [c \in Cnpjs |-> 0] /\ expired = [c \in Cnpjs |-> 0]
-----------------------------------------------------------------------------
(* CircuitBreaker *)

\* The property "state": an open circuit is half open once the time is over.
Observed(b) ==
  IF b.state = "OPEN" /\ clock - b.openedAt >= Recovery
  THEN [b EXCEPT !.state = "HALF_OPEN"] ELSE b

\* Seeded fault: the failures are not forgotten.
RecordSuccessCounting(b) == [b EXCEPT !.state = "CLOSED", !.openedAt = 0]

RecordSuccess(b) == Closed

\* Seeded fault: the time of the first opening is kept.
RecordFailureOnce(b) ==
  LET n == b.failures + 1
  IN  IF b.state = "HALF_OPEN" THEN [b EXCEPT !.state = "OPEN", !.failures = n]
      ELSE IF n >= Threshold
           THEN [state |-> "OPEN", failures |-> n, openedAt |-> clock]
           ELSE [b EXCEPT !.failures = n]

RecordFailure(b) ==
  LET n == b.failures + 1
  IN  IF b.state = "HALF_OPEN" \/ n >= Threshold
      THEN [state |-> "OPEN", failures |-> n, openedAt |-> clock]
      ELSE [b EXCEPT !.failures = n]
-----------------------------------------------------------------------------
(* run_weekly_ingest and _fetch_pgfn_cnpj *)

StartTask(w, list) ==
  /\ pc[w] = "idle" /\ tasks < MaxTasks
  /\ tasks' = tasks + 1
  /\ pc' = [pc EXCEPT ![w] = "loop"]
  /\ todo' = [todo EXCEPT ![w] = list]
  /\ UNCHANGED <<clock, breaker, cache, begun, failing, stored, expired>>

\* On to the next company; what is counted for the report is left out.
Advance(w) ==
  /\ pc' = [pc EXCEPT ![w] = "loop"]
  /\ todo' = [todo EXCEPT ![w] = Tail(@)]

AtCompany(w) == pc[w] = "loop" /\ todo[w] # <<>>

FromCache(w) ==
  /\ AtCompany(w)
  /\ cache[Head(todo[w])] # NoAnswer
  /\ Advance(w)
  /\ UNCHANGED <<clock, breaker, cache, history>>

Blocked(w) ==
  /\ AtCompany(w)
  /\ cache[Head(todo[w])] = NoAnswer
  /\ Observed(breaker[w]).state = "OPEN"
  /\ Advance(w)
  /\ UNCHANGED <<clock, breaker, cache, history>>

BeginCall(w) ==
  /\ AtCompany(w)
  /\ cache[Head(todo[w])] = NoAnswer
  /\ Observed(breaker[w]).state # "OPEN"
  /\ breaker' = [breaker EXCEPT ![w] = Observed(@)]
  /\ pc' = [pc EXCEPT ![w] = "calling"]
  /\ begun' = [begun EXCEPT ![w] = clock]
  /\ UNCHANGED <<clock, todo, cache, tasks, failing, stored, expired>>

\* Seeded fault: an answer that breaks the contract is not cached.
AnsweredUncached(w, answer) ==
  /\ pc[w] = "calling"
  /\ breaker' = [breaker EXCEPT ![w] = RecordSuccess(@)]
  /\ cache' = IF answer = "valid" THEN [cache EXCEPT ![Head(todo[w])] = answer] ELSE cache
  /\ stored' = [stored EXCEPT ![Head(todo[w])] = @ + 1]
  /\ failing' = [failing EXCEPT ![w] = NoFailure]
  /\ Advance(w)
  /\ UNCHANGED <<clock, tasks, begun, expired>>

Answered(w, answer) ==
  /\ pc[w] = "calling"
  /\ breaker' = [breaker EXCEPT ![w] = RecordSuccess(@)]
  /\ cache' = [cache EXCEPT ![Head(todo[w])] = answer]
  /\ stored' = [stored EXCEPT ![Head(todo[w])] = @ + 1]
  /\ failing' = [failing EXCEPT ![w] = NoFailure]
  /\ Advance(w)
  /\ UNCHANGED <<clock, tasks, begun, expired>>

\* A status of success with a body that is not JSON: the success is recorded
\* before the body is read, the failure after.
Garbled(w) ==
  /\ pc[w] = "calling"
  /\ breaker' = [breaker EXCEPT ![w] = RecordFailure(RecordSuccess(@))]
  /\ failing' = [failing EXCEPT ![w] = [count |-> 1, at |-> clock]]
  /\ Advance(w)
  /\ UNCHANGED <<clock, cache, tasks, begun, stored, expired>>

\* A timeout, a refused connection, a status of failure.
Fails(w) ==
  /\ pc[w] = "calling"
  /\ breaker' = [breaker EXCEPT ![w] = RecordFailure(@)]
  /\ failing' = [failing EXCEPT ![w] = [count |-> @.count + 1, at |-> clock]]
  /\ Advance(w)
  /\ UNCHANGED <<clock, cache, tasks, begun, stored, expired>>

\* Redis raises, at GET or at SETEX after a good answer: the task fails.
RedisRaises(w) ==
  /\ \/ AtCompany(w) /\ UNCHANGED <<breaker, failing>>
     \/ /\ pc[w] = "calling"
        /\ breaker' = [breaker EXCEPT ![w] = RecordSuccess(@)]
        /\ failing' = [failing EXCEPT ![w] = NoFailure]
  /\ pc' = [pc EXCEPT ![w] = "idle"]
  /\ todo' = [todo EXCEPT ![w] = <<>>]
  /\ UNCHANGED <<clock, cache, tasks, begun, stored, expired>>

\* The reconciliation is reported.
Finish(w) ==
  /\ pc[w] = "loop" /\ todo[w] = <<>>
  /\ pc' = [pc EXCEPT ![w] = "idle"]
  /\ UNCHANGED <<clock, todo, breaker, cache, history>>

\* The process is replaced.
Restart(w) ==
  /\ pc[w] # "idle"
  /\ pc' = [pc EXCEPT ![w] = "idle"]
  /\ todo' = [todo EXCEPT ![w] = <<>>]
  /\ breaker' = [breaker EXCEPT ![w] = Closed]
  /\ failing' = [failing EXCEPT ![w] = NoFailure]
  /\ UNCHANGED <<clock, cache, tasks, begun, stored, expired>>
-----------------------------------------------------------------------------
Expire(c) ==
  /\ cache[c] # NoAnswer
  /\ cache' = [cache EXCEPT ![c] = NoAnswer]
  /\ expired' = [expired EXCEPT ![c] = @ + 1]
  /\ UNCHANGED <<clock, pc, todo, breaker, tasks, begun, failing, stored>>

Tick ==
  /\ clock < MaxClock
  /\ clock' = clock + 1
  /\ UNCHANGED <<pc, todo, breaker, cache, history>>

Work(w) ==
  \/ FromCache(w) \/ Blocked(w) \/ BeginCall(w)
  \/ \E answer \in {"valid", "invalid"} : Answered(w, answer)
  \/ Garbled(w) \/ Fails(w) \/ RedisRaises(w) \/ Finish(w)

Next ==
  \/ \E w \in Workers : (\E list \in Lists : StartTask(w, list)) \/ Work(w) \/ Restart(w)
  \/ \E c \in Cnpjs : Expire(c)
  \/ Tick

Spec == Init /\ [][Next]_vars
-----------------------------------------------------------------------------
(* Properties *)

TypeOK ==
  /\ clock \in 0..MaxClock
  /\ \A w \in Workers :
       /\ pc[w] \in {"idle", "loop", "calling"}
       /\ pc[w] = "calling" => todo[w] # <<>>
       /\ breaker[w].state \in {"CLOSED", "OPEN", "HALF_OPEN"}
       /\ breaker[w].state = "CLOSED" <=> breaker[w].failures < Threshold
       /\ breaker[w].openedAt <= clock
  /\ cache \in [Cnpjs -> {NoAnswer, "valid", "invalid"}]

(* A worker whose last Threshold calls, or more, have failed leaves the    *)
(* source alone for the recovery time after the last one, then makes one   *)
(* call; when that fails too, the time starts anew (base.py 43-51).        *)
QuietAfterFailures ==
  \A w \in Workers :
    (pc[w] = "calling" /\ failing[w].count >= Threshold)
      => begun[w] >= failing[w].at + Recovery

(* While an answer is in the cache no worker starts to ask for it again:   *)
(* each worker obtains an answer at most once until it expires, whether it *)
(* was any good or not (pgfn.py 76-84).                                    *)
AskedOncePerWorker ==
  \A c \in Cnpjs : stored[c] <= Cardinality(Workers) * (1 + expired[c])

(* A source is left alone while its circuit is open, and not asked again   *)
(* for what the cache holds (base.py 53-90, pgfn.py 76-84).                *)
CircuitSound == TypeOK /\ QuietAfterFailures /\ AskedOncePerWorker
=============================================================================
