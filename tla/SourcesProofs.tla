---------------------------- MODULE SourcesProofs ----------------------------
(***************************************************************************)
(* What is asked of the public sources, each part for every value of its   *)
(* constants: the circuit breaker of a list of companies (IngestCircuit),  *)
(* the agreements of CONFAZ (ConfazDocuments), and the tasks and live      *)
(* queries that share the circuits of a process (Ingestion, LiveQueries).  *)
(***************************************************************************)
EXTENDS LiveQueries, ConfazDocuments, FiniteSetTheorems, TLAPS
-----------------------------------------------------------------------------
(* IngestCircuit *)

(***************************************************************************)
(* The ingestion behind its circuit breaker, for any number of workers,    *)
(* companies, failures and expiries.                                       *)
(*                                                                         *)
(* The breaker of a worker counts what its calls did (Faithful): so a      *)
(* call that follows Threshold failures was begun in the half open state,  *)
(* which takes the recovery time.  While the cache holds an answer only  *)
(* the calls that are already under way can store another one, and there   *)
(* is at most one for each worker (Budget).                                *)
(***************************************************************************)

N == Cardinality(Workers)
Places == {"idle", "loop", "calling"}
States == {"CLOSED", "OPEN", "HALF_OPEN"}
Breakers == [state : States, failures : Nat, openedAt : Nat]
Failing == [count : Nat, at : Nat]
Cacheable == {NoAnswer, "valid", "invalid"}

\* The workers that are asking the source for company c.
Callers(c) == {w \in Workers : pc[w] = "calling" /\ Head(todo[w]) = c}

Typed ==
  /\ clock \in 0..MaxClock
  /\ pc \in [Workers -> Places]
  /\ todo \in [Workers -> Seq(Cnpjs)]
  /\ \A w \in Workers : pc[w] = "calling" => todo[w] # <<>>
  /\ breaker \in [Workers -> Breakers]
  /\ failing \in [Workers -> Failing]
  /\ begun \in [Workers -> Nat]
  /\ cache \in [Cnpjs -> Cacheable]
  /\ stored \in [Cnpjs -> Nat]
  /\ expired \in [Cnpjs -> Nat]

\* What the breaker b says of the calls f that failed, if it is looked at now.
Counts(b, f) ==
  /\ b.failures = f.count
  /\ b.state = "CLOSED" <=> b.failures < Threshold
  /\ b.openedAt <= clock
  /\ b.state # "CLOSED" => b.openedAt = f.at
  /\ b.state = "HALF_OPEN" => clock >= b.openedAt + Recovery

Faithful ==
  \A w \in Workers :
    /\ Counts(breaker[w], failing[w])
    /\ pc[w] = "calling" =>
         /\ breaker[w].state # "OPEN"
         /\ breaker[w].state = "HALF_OPEN" => begun[w] >= breaker[w].openedAt + Recovery

Budget ==
  \A c \in Cnpjs :
    /\ cache[c] = NoAnswer => stored[c] <= N * expired[c]
    /\ cache[c] # NoAnswer => stored[c] + Cardinality(Callers(c)) <= N * (1 + expired[c])

IInv == Typed /\ Faithful /\ Budget
-----------------------------------------------------------------------------
(* The workers that call are finitely many.                                *)
LEMMA Counting ==
  /\ N \in Nat
  /\ \A c : IsFiniteSet(Callers(c)) /\ Cardinality(Callers(c)) \in 0..N
<1>1. IsFiniteSet(Workers)
  BY CircuitAssumption
<1>2. N \in Nat
  BY <1>1, FS_CardinalityType DEF N
<1>3. ASSUME NEW c PROVE IsFiniteSet(Callers(c)) /\ Cardinality(Callers(c)) \in 0..N
  <2>1. Callers(c) \subseteq Workers
    BY DEF Callers
  <2>2. IsFiniteSet(Callers(c)) /\ Cardinality(Callers(c)) <= N
    BY <1>1, <2>1, FS_Subset DEF N
  <2> QED BY <1>2, <2>2, FS_CardinalityType
<1> QED BY <1>2, <1>3

\* Dropping one of the callers, or none, does not make them more.
LEMMA FewerCallers ==
  ASSUME NEW c, Callers(c)' \subseteq Callers(c)
  PROVE  /\ Cardinality(Callers(c)') \in Nat
         /\ Cardinality(Callers(c)') <= Cardinality(Callers(c))
BY Counting, FS_Subset, FS_CardinalityType

(* A caller that is done is one less.                                      *)
LEMMA OneCallerLess ==
  ASSUME NEW c, NEW w \in Callers(c), Callers(c)' \subseteq Callers(c) \ {w}
  PROVE  /\ Cardinality(Callers(c)') \in Nat
         /\ Cardinality(Callers(c)') + 1 <= Cardinality(Callers(c))
<1>1. IsFiniteSet(Callers(c)) /\ Cardinality(Callers(c)) \in Nat
  BY Counting
<1>2. /\ IsFiniteSet(Callers(c) \ {w})
      /\ Cardinality(Callers(c) \ {w}) = Cardinality(Callers(c)) - 1
  BY <1>1, FS_RemoveElement
<1>3. /\ IsFiniteSet(Callers(c)')
      /\ Cardinality(Callers(c)') <= Cardinality(Callers(c) \ {w})
  BY <1>2, FS_Subset
<1> QED BY <1>1, <1>2, <1>3, FS_CardinalityType

\* A look at the breaker, a success and a failure leave it faithful.
LEMMA Looking ==
  ASSUME clock \in Nat, NEW b \in Breakers, NEW f \in Failing, Counts(b, f)
  PROVE  Observed(b) \in Breakers /\ Counts(Observed(b), f)
BY CircuitAssumption DEF Observed, Breakers, Failing, States, Counts

(* A success forgets all failures.                                         *)
LEMMA Succeeding ==
  ASSUME clock \in Nat, NEW b
  PROVE  /\ RecordSuccess(b) \in Breakers /\ NoFailure \in Failing
         /\ Counts(RecordSuccess(b), NoFailure)
BY CircuitAssumption
   DEF RecordSuccess, Closed, NoFailure, Breakers, Failing, States, Counts

(* A failure is counted by the breaker as by the history.                  *)
LEMMA FailingOnce ==
  ASSUME clock \in Nat, NEW b \in Breakers, NEW f \in Failing, Counts(b, f), b.state # "OPEN"
  PROVE  /\ RecordFailure(b) \in Breakers
         /\ [count |-> f.count + 1, at |-> clock] \in Failing
         /\ Counts(RecordFailure(b), [count |-> f.count + 1, at |-> clock])
BY CircuitAssumption DEF RecordFailure, Breakers, Failing, States, Counts

\* A worker that goes on, or stops, drops out of the callers.
LEMMA GoingOn ==
  ASSUME IInv, NEW w \in Workers, todo[w] # <<>>, Advance(w)
  PROVE  /\ pc' \in [Workers -> Places] /\ todo' \in [Workers -> Seq(Cnpjs)]
         /\ \A v \in Workers : pc'[v] = "calling" => v # w /\ pc[v] = "calling" /\ todo'[v] = todo[v]
         /\ \A c : Callers(c)' \subseteq Callers(c) \ {w}
<1>1. Tail(todo[w]) \in Seq(Cnpjs)
  BY DEF IInv, Typed
<1>2. /\ pc' \in [Workers -> Places] /\ todo' \in [Workers -> Seq(Cnpjs)]
      /\ \A v \in Workers : pc'[v] = "calling" => v # w /\ pc[v] = "calling" /\ todo'[v] = todo[v]
  BY <1>1 DEF IInv, Typed, Advance, Places
<1> QED BY <1>2 DEF Callers

(* A worker that stops is no caller any more.                              *)
LEMMA Stopping ==
  ASSUME IInv, NEW w \in Workers,
         pc' = [pc EXCEPT ![w] = "idle"], todo' = [todo EXCEPT ![w] = <<>>]
  PROVE  /\ pc' \in [Workers -> Places] /\ todo' \in [Workers -> Seq(Cnpjs)]
         /\ \A v \in Workers : pc'[v] = "calling" => v # w /\ pc[v] = "calling" /\ todo'[v] = todo[v]
         /\ \A c : Callers(c)' \subseteq Callers(c) \ {w}
<1>1. /\ pc' \in [Workers -> Places] /\ todo' \in [Workers -> Seq(Cnpjs)]
      /\ \A v \in Workers : pc'[v] = "calling" => v # w /\ pc[v] = "calling" /\ todo'[v] = todo[v]
  BY DEF IInv, Typed, Places
<1> QED BY <1>1 DEF Callers

\* Nothing is stored and nobody begins to ask: the budget is kept.
LEMMA BudgetKept ==
  ASSUME IInv, UNCHANGED <<cache, stored, expired>>,
         \A c \in Cnpjs : Callers(c)' \subseteq Callers(c)
  PROVE  Budget'
<1> SUFFICES ASSUME NEW c \in Cnpjs, cache[c] # NoAnswer
             PROVE  stored[c] + Cardinality(Callers(c)') <= N * (1 + expired[c])
  BY DEF IInv, Budget, N
<1>1. Cardinality(Callers(c)') <= Cardinality(Callers(c)) /\ Cardinality(Callers(c)') \in Nat
  BY FewerCallers
<1>2. N * (1 + expired[c]) \in Nat /\ stored[c] \in Nat /\ Cardinality(Callers(c)) \in Nat
  BY Counting DEF IInv, Typed
<1> QED BY <1>1, <1>2 DEF IInv, Budget
-----------------------------------------------------------------------------
(* The initial state satisfies the invariant.                              *)
LEMMA InitEstablishes == Init => IInv
<1> SUFFICES ASSUME Init PROVE IInv
  OBVIOUS
<1>1. Typed
  BY CircuitAssumption
     DEF Init, Typed, Places, Breakers, States, Failing, Cacheable, Closed, NoFailure
<1>2. Faithful
  BY CircuitAssumption DEF Init, Faithful, Counts, Closed, NoFailure
<1>3. Budget
  BY Counting DEF Init, Budget
<1> QED BY <1>1, <1>2, <1>3 DEF IInv

\* What is shown of each action that one worker performs: the breaker and the
\* history of the others are theirs, and the worker's own is faithful after it.
LEMMA FaithfulKept ==
  ASSUME IInv, NEW w \in Workers, NEW b \in Breakers, NEW f \in Failing,
         clock' = clock, begun' = begun,
         breaker' = [breaker EXCEPT ![w] = b], failing' = [failing EXCEPT ![w] = f],
         Counts(b, f),
         \A v \in Workers : pc'[v] = "calling" => v # w /\ pc[v] = "calling"
  PROVE  /\ Faithful'
         /\ breaker' \in [Workers -> Breakers] /\ failing' \in [Workers -> Failing]
<1>1. /\ breaker' \in [Workers -> Breakers] /\ failing' \in [Workers -> Failing]
      /\ breaker'[w] = b /\ failing'[w] = f
      /\ \A v \in Workers \ {w} : breaker'[v] = breaker[v] /\ failing'[v] = failing[v]
  BY DEF IInv, Typed
<1>2. ASSUME NEW v \in Workers PROVE Counts(breaker[v], failing[v])'
  <2>1. CASE v = w
    BY <1>1, <2>1 DEF Counts
  <2>2. CASE v # w
    BY <1>1, <2>2 DEF IInv, Faithful, Counts
  <2> QED BY <2>1, <2>2
<1>3. ASSUME NEW v \in Workers, pc'[v] = "calling"
      PROVE  /\ breaker'[v].state # "OPEN"
             /\ breaker'[v].state = "HALF_OPEN" => begun'[v] >= breaker'[v].openedAt + Recovery
  BY <1>1, <1>3 DEF IInv, Faithful
<1> QED BY <1>1, <1>2, <1>3 DEF Faithful, Counts

(* Every step keeps it.                                                    *)
LEMMA NextPreserves == IInv /\ [Next]_vars => IInv'
<1> SUFFICES ASSUME IInv, [Next]_vars PROVE IInv'
  OBVIOUS
<1> USE DEF history
<1>c. clock \in Nat
  BY CircuitAssumption DEF IInv, Typed
<1>1. ASSUME NEW w \in Workers, NEW list \in Lists, StartTask(w, list) PROVE IInv'
  <2>1. list \in Seq(Cnpjs)
    BY CircuitAssumption
  <2>2. \A v \in Workers : pc'[v] = "calling" => v # w /\ pc[v] = "calling" /\ todo'[v] = todo[v]
    BY <1>1 DEF StartTask, IInv, Typed
  <2>3. Typed'
    BY <1>1, <2>1, <2>2 DEF StartTask, IInv, Typed, Places
  <2>4. Faithful'
    BY <1>1, <2>2 DEF StartTask, IInv, Faithful, Counts
  <2>5. Budget'
    <3>1. \A c \in Cnpjs : Callers(c)' \subseteq Callers(c)
      BY <2>2 DEF Callers
    <3> QED BY <1>1, <3>1, BudgetKept DEF StartTask
  <2> QED BY <2>3, <2>4, <2>5 DEF IInv
<1>2. ASSUME NEW w \in Workers, FromCache(w) \/ Blocked(w) PROVE IInv'
  <2>1. todo[w] # <<>> /\ Advance(w) /\ UNCHANGED <<clock, breaker, cache, history>>
    BY <1>2 DEF FromCache, Blocked, AtCompany
  <2>2. /\ pc' \in [Workers -> Places] /\ todo' \in [Workers -> Seq(Cnpjs)]
        /\ \A v \in Workers : pc'[v] = "calling" => v # w /\ pc[v] = "calling" /\ todo'[v] = todo[v]
        /\ \A c : Callers(c)' \subseteq Callers(c) \ {w}
    BY <2>1, GoingOn
  <2>3. Typed'
    BY <2>1, <2>2 DEF IInv, Typed
  <2>4. Faithful'
    BY <2>1, <2>2 DEF IInv, Faithful, Counts
  <2>5. Budget'
    BY <2>1, <2>2, BudgetKept
  <2> QED BY <2>3, <2>4, <2>5 DEF IInv
<1>3. ASSUME NEW w \in Workers, BeginCall(w) PROVE IInv'
  <2> DEFINE b == Observed(breaker[w])
  <2>1. b \in Breakers /\ Counts(b, failing[w]) /\ b.state # "OPEN"
    BY <1>c, <1>3, Looking DEF BeginCall, IInv, Typed, Faithful
  <2>2. /\ breaker' \in [Workers -> Breakers] /\ breaker'[w] = b
        /\ \A v \in Workers \ {w} : breaker'[v] = breaker[v]
        /\ begun' \in [Workers -> Nat] /\ begun'[w] = clock
        /\ \A v \in Workers \ {w} : begun'[v] = begun[v] /\ pc'[v] = pc[v]
        /\ pc' \in [Workers -> Places] /\ todo' = todo /\ todo[w] # <<>>
        /\ UNCHANGED <<clock, cache, tasks, failing, stored, expired>>
    BY <1>c, <1>3, <2>1 DEF BeginCall, AtCompany, IInv, Typed, Places
  <2>3. Typed'
    BY <2>2 DEF IInv, Typed
  <2>4. Faithful'
    <3>1. ASSUME NEW v \in Workers PROVE Counts(breaker[v], failing[v])'
      BY <2>1, <2>2 DEF IInv, Faithful, Counts
    <3>2. ASSUME NEW v \in Workers, pc'[v] = "calling"
          PROVE  /\ breaker'[v].state # "OPEN"
                 /\ breaker'[v].state = "HALF_OPEN" => begun'[v] >= breaker'[v].openedAt + Recovery
      <4>1. CASE v = w
        BY <2>1, <2>2, <4>1 DEF Counts
      <4>2. CASE v # w
        BY <2>2, <3>2, <4>2 DEF IInv, Faithful
      <4> QED BY <4>1, <4>2
    <3> QED BY <3>1, <3>2 DEF Faithful, Counts
  <2>5. Budget'
    <3> SUFFICES ASSUME NEW c \in Cnpjs, cache[c] # NoAnswer
                 PROVE  stored[c] + Cardinality(Callers(c)') <= N * (1 + expired[c])
      BY <2>2 DEF IInv, Budget, N
    <3>1. c # Head(todo[w])
      BY <1>3 DEF BeginCall
    <3>2. Callers(c)' \subseteq Callers(c)
      BY <2>2, <3>1 DEF Callers
    <3>3. Cardinality(Callers(c)') <= Cardinality(Callers(c)) /\ Cardinality(Callers(c)') \in Nat
      BY <3>2, FewerCallers
    <3>4. N * (1 + expired[c]) \in Nat /\ stored[c] \in Nat /\ Cardinality(Callers(c)) \in Nat
      BY Counting DEF IInv, Typed
    <3> QED BY <3>3, <3>4 DEF IInv, Budget
  <2> QED BY <2>3, <2>4, <2>5 DEF IInv
<1>4. ASSUME NEW w \in Workers, NEW kind \in {"valid", "invalid"}, Answered(w, kind) PROVE IInv'
  <2> DEFINE a == Head(todo[w])
  <2>1. todo[w] # <<>> /\ Advance(w) /\ a \in Cnpjs /\ w \in Callers(a)
    BY <1>4 DEF Answered, IInv, Typed, Callers
  <2>2. /\ pc' \in [Workers -> Places] /\ todo' \in [Workers -> Seq(Cnpjs)]
        /\ \A v \in Workers : pc'[v] = "calling" => v # w /\ pc[v] = "calling" /\ todo'[v] = todo[v]
        /\ \A c : Callers(c)' \subseteq Callers(c) \ {w}
    BY <2>1, GoingOn
  <2>3. Faithful' /\ breaker' \in [Workers -> Breakers] /\ failing' \in [Workers -> Failing]
    <3>1. /\ RecordSuccess(breaker[w]) \in Breakers /\ NoFailure \in Failing
          /\ Counts(RecordSuccess(breaker[w]), NoFailure)
      BY <1>c, Succeeding
    <3>2. /\ clock' = clock /\ begun' = begun
          /\ breaker' = [breaker EXCEPT ![w] = RecordSuccess(breaker[w])]
          /\ failing' = [failing EXCEPT ![w] = NoFailure]
      BY <1>4 DEF Answered
    <3> QED BY <2>2, <3>1, <3>2, FaithfulKept
  <2>4. /\ cache' \in [Cnpjs -> Cacheable] /\ cache'[a] = kind
        /\ stored' \in [Cnpjs -> Nat] /\ stored'[a] = stored[a] + 1 /\ expired' = expired
        /\ \A c \in Cnpjs \ {a} : cache'[c] = cache[c] /\ stored'[c] = stored[c]
        /\ kind # NoAnswer
    BY <1>4, <2>1 DEF Answered, IInv, Typed, Cacheable, NoAnswer
  <2>5. Typed'
    BY <1>4, <2>2, <2>3, <2>4 DEF Answered, IInv, Typed
  <2>6. Budget'
    <3> SUFFICES ASSUME NEW c \in Cnpjs
                 PROVE  /\ cache'[c] = NoAnswer => stored'[c] <= N * expired[c]
                        /\ cache'[c] # NoAnswer =>
                             stored'[c] + Cardinality(Callers(c)') <= N * (1 + expired[c])
      BY <2>4 DEF Budget, N
    <3>1. /\ N \in Nat /\ stored[c] \in Nat /\ expired[c] \in Nat
          /\ Cardinality(Callers(c)) \in 0..N
      BY Counting DEF IInv, Typed
    <3>2. N * (1 + expired[c]) = N * expired[c] + N /\ N * expired[c] \in Nat
      BY <3>1
    <3>3. CASE c = a
      <4>1. Cardinality(Callers(c)') \in Nat /\ Cardinality(Callers(c)') + 1 <= Cardinality(Callers(c))
        BY <2>1, <2>2, <3>3, OneCallerLess
      <4> QED BY <2>4, <3>1, <3>2, <3>3, <4>1 DEF IInv, Budget
    <3>4. CASE c # a
      <4>1. Cardinality(Callers(c)') \in Nat /\ Cardinality(Callers(c)') <= Cardinality(Callers(c))
        BY <2>2, FewerCallers
      <4> QED BY <2>4, <3>1, <3>2, <3>4, <4>1 DEF IInv, Budget
    <3> QED BY <3>3, <3>4
  <2> QED BY <2>3, <2>5, <2>6 DEF IInv
<1>5. ASSUME NEW w \in Workers, Garbled(w) \/ Fails(w) PROVE IInv'
  <2>1. /\ pc[w] = "calling" /\ todo[w] # <<>> /\ Advance(w)
        /\ UNCHANGED <<clock, cache, tasks, begun, stored, expired>>
    BY <1>5 DEF Garbled, Fails, IInv, Typed
  <2>2. /\ pc' \in [Workers -> Places] /\ todo' \in [Workers -> Seq(Cnpjs)]
        /\ \A v \in Workers : pc'[v] = "calling" => v # w /\ pc[v] = "calling" /\ todo'[v] = todo[v]
        /\ \A c : Callers(c)' \subseteq Callers(c) \ {w}
    BY <2>1, GoingOn
  <2>3. Faithful' /\ breaker' \in [Workers -> Breakers] /\ failing' \in [Workers -> Failing]
    <3>1. CASE Garbled(w)
      <4> DEFINE b == RecordSuccess(breaker[w])
      <4>1. b \in Breakers /\ NoFailure \in Failing /\ Counts(b, NoFailure) /\ b.state # "OPEN"
        BY <1>c, Succeeding DEF RecordSuccess, Closed
      <4>2. /\ RecordFailure(b) \in Breakers
            /\ [count |-> NoFailure.count + 1, at |-> clock] \in Failing
            /\ Counts(RecordFailure(b), [count |-> NoFailure.count + 1, at |-> clock])
        BY <1>c, <4>1, FailingOnce
      <4>3. NoFailure.count + 1 = 1
        BY DEF NoFailure
      <4>4. /\ breaker' = [breaker EXCEPT ![w] = RecordFailure(b)]
            /\ failing' = [failing EXCEPT ![w] = [count |-> 1, at |-> clock]]
        BY <3>1 DEF Garbled
      <4> HIDE DEF b
      <4> QED BY <2>1, <2>2, <4>2, <4>3, <4>4, FaithfulKept
    <3>2. CASE Fails(w)
      <4>1. /\ breaker[w] \in Breakers /\ failing[w] \in Failing
            /\ Counts(breaker[w], failing[w]) /\ breaker[w].state # "OPEN"
        BY <2>1 DEF IInv, Typed, Faithful
      <4>2. /\ RecordFailure(breaker[w]) \in Breakers
            /\ [count |-> failing[w].count + 1, at |-> clock] \in Failing
            /\ Counts(RecordFailure(breaker[w]), [count |-> failing[w].count + 1, at |-> clock])
        BY <1>c, <4>1, FailingOnce
      <4>3. /\ breaker' = [breaker EXCEPT ![w] = RecordFailure(breaker[w])]
            /\ failing' = [failing EXCEPT ![w] = [count |-> failing[w].count + 1, at |-> clock]]
        BY <3>2 DEF Fails
      <4> QED BY <2>1, <2>2, <4>2, <4>3, FaithfulKept
    <3> QED BY <1>5, <3>1, <3>2
  <2>4. Typed'
    BY <2>1, <2>2, <2>3 DEF IInv, Typed
  <2>5. Budget'
    BY <2>1, <2>2, BudgetKept
  <2> QED BY <2>3, <2>4, <2>5 DEF IInv
<1>6. ASSUME NEW w \in Workers, RedisRaises(w) PROVE IInv'
  <2>1. /\ pc' = [pc EXCEPT ![w] = "idle"] /\ todo' = [todo EXCEPT ![w] = <<>>]
        /\ UNCHANGED <<clock, cache, tasks, begun, stored, expired>>
    BY <1>6 DEF RedisRaises
  <2>2. /\ pc' \in [Workers -> Places] /\ todo' \in [Workers -> Seq(Cnpjs)]
        /\ \A v \in Workers : pc'[v] = "calling" => v # w /\ pc[v] = "calling" /\ todo'[v] = todo[v]
        /\ \A c : Callers(c)' \subseteq Callers(c) \ {w}
    BY <2>1, Stopping
  <2>3. Faithful' /\ breaker' \in [Workers -> Breakers] /\ failing' \in [Workers -> Failing]
    <3>1. CASE UNCHANGED <<breaker, failing>>
      BY <2>1, <2>2, <3>1 DEF IInv, Typed, Faithful, Counts
    <3>2. CASE /\ breaker' = [breaker EXCEPT ![w] = RecordSuccess(@)]
               /\ failing' = [failing EXCEPT ![w] = NoFailure]
      <4>1. /\ RecordSuccess(breaker[w]) \in Breakers /\ NoFailure \in Failing
            /\ Counts(RecordSuccess(breaker[w]), NoFailure)
        BY <1>c, Succeeding
      <4> QED BY <2>1, <2>2, <3>2, <4>1, FaithfulKept
    <3> QED BY <1>6, <3>1, <3>2 DEF RedisRaises
  <2>4. Typed'
    BY <2>1, <2>2, <2>3 DEF IInv, Typed
  <2>5. Budget'
    BY <2>1, <2>2, BudgetKept
  <2> QED BY <2>3, <2>4, <2>5 DEF IInv
<1>7. ASSUME NEW w \in Workers, Finish(w) PROVE IInv'
  <2>1. /\ pc' \in [Workers -> Places] /\ UNCHANGED <<clock, todo, breaker, cache, history>>
        /\ \A v \in Workers : pc'[v] = "calling" => pc[v] = "calling"
    BY <1>7 DEF Finish, IInv, Typed, Places
  <2>2. Typed' /\ Faithful'
    BY <2>1 DEF IInv, Typed, Faithful, Counts
  <2>3. \A c \in Cnpjs : Callers(c)' \subseteq Callers(c)
    BY <2>1 DEF Callers
  <2>4. Budget'
    BY <2>1, <2>3, BudgetKept
  <2> QED BY <2>2, <2>4 DEF IInv
<1>8. ASSUME NEW w \in Workers, Restart(w) PROVE IInv'
  <2>1. /\ pc' = [pc EXCEPT ![w] = "idle"] /\ todo' = [todo EXCEPT ![w] = <<>>]
        /\ UNCHANGED <<clock, cache, tasks, begun, stored, expired>>
        /\ breaker' = [breaker EXCEPT ![w] = Closed] /\ failing' = [failing EXCEPT ![w] = NoFailure]
    BY <1>8 DEF Restart
  <2>2. /\ pc' \in [Workers -> Places] /\ todo' \in [Workers -> Seq(Cnpjs)]
        /\ \A v \in Workers : pc'[v] = "calling" => v # w /\ pc[v] = "calling" /\ todo'[v] = todo[v]
        /\ \A c : Callers(c)' \subseteq Callers(c) \ {w}
    BY <2>1, Stopping
  <2>3. Closed \in Breakers /\ NoFailure \in Failing /\ Counts(Closed, NoFailure)
    BY <1>c, Succeeding DEF RecordSuccess
  <2>4. Faithful' /\ breaker' \in [Workers -> Breakers] /\ failing' \in [Workers -> Failing]
    BY <2>1, <2>2, <2>3, FaithfulKept
  <2>5. Typed'
    BY <2>1, <2>2, <2>4 DEF IInv, Typed
  <2>6. Budget'
    BY <2>1, <2>2, BudgetKept
  <2> QED BY <2>4, <2>5, <2>6 DEF IInv
<1>9. ASSUME NEW a \in Cnpjs, Expire(a) PROVE IInv'
  <2>1. /\ cache[a] # NoAnswer /\ cache'[a] = NoAnswer /\ expired'[a] = expired[a] + 1
        /\ cache' \in [Cnpjs -> Cacheable] /\ expired' \in [Cnpjs -> Nat]
        /\ \A c \in Cnpjs \ {a} : cache'[c] = cache[c] /\ expired'[c] = expired[c]
        /\ UNCHANGED <<clock, pc, todo, breaker, tasks, begun, failing, stored>>
    BY <1>9 DEF Expire, IInv, Typed, Cacheable
  <2>2. Typed' /\ Faithful'
    BY <2>1 DEF IInv, Typed, Faithful, Counts
  <2>3. \A c : Callers(c)' = Callers(c)
    BY <2>1 DEF Callers
  <2>4. Budget'
    <3> SUFFICES ASSUME NEW c \in Cnpjs
                 PROVE  /\ cache'[c] = NoAnswer => stored[c] <= N * expired'[c]
                        /\ cache'[c] # NoAnswer =>
                             stored[c] + Cardinality(Callers(c)) <= N * (1 + expired'[c])
      BY <2>1, <2>3 DEF Budget, N
    <3>1. stored[c] \in Nat /\ Cardinality(Callers(c)) \in Nat /\ N \in Nat /\ expired[c] \in Nat
      BY Counting DEF IInv, Typed
    <3>2. CASE c = a
      <4>1. expired'[c] = 1 + expired[c] /\ N * (1 + expired[c]) \in Nat
        BY <2>1, <3>1, <3>2
      <4> QED BY <2>1, <3>1, <3>2, <4>1 DEF IInv, Budget
    <3>3. CASE c # a
      BY <2>1, <3>3 DEF IInv, Budget
    <3> QED BY <3>2, <3>3
  <2> QED BY <2>2, <2>4 DEF IInv
<1>10. ASSUME Tick PROVE IInv'
  <2>1. clock' \in 0..MaxClock /\ clock' = clock + 1 /\ UNCHANGED <<pc, todo, breaker, cache, history>>
    BY <1>10, CircuitAssumption DEF Tick, IInv, Typed
  <2>2. Typed'
    BY <2>1 DEF IInv, Typed
  <2>3. Faithful'
    <3>1. ASSUME NEW w \in Workers PROVE Counts(breaker[w], failing[w])'
      <4>1. breaker[w] \in Breakers /\ Counts(breaker[w], failing[w])
        BY DEF IInv, Typed, Faithful
      <4> QED BY <1>c, <2>1, <4>1, CircuitAssumption DEF Counts, Breakers
    <3> QED BY <2>1, <3>1 DEF IInv, Faithful
  <2>4. \A c \in Cnpjs : Callers(c)' \subseteq Callers(c)
    BY <2>1 DEF Callers
  <2>5. Budget'
    BY <2>1, <2>4, BudgetKept
  <2> QED BY <2>2, <2>3, <2>5 DEF IInv
<1>11. CASE UNCHANGED vars
  <2>1. \A c : Callers(c)' = Callers(c)
    BY <1>11 DEF vars, Callers
  <2> QED BY <1>11, <2>1 DEF vars, IInv, Typed, Faithful, Counts, Budget, N
<1> QED BY <1>1, <1>2, <1>3, <1>4, <1>5, <1>6, <1>7, <1>8, <1>9, <1>10, <1>11 DEF Next, Work

\* What the invariant says of a source, an answer and a worker.
LEMMA Consequence == IInv => CircuitSound
<1> SUFFICES ASSUME IInv PROVE CircuitSound
  OBVIOUS
<1>1. TypeOK
  BY DEF IInv, Typed, Faithful, Counts, TypeOK, Places, Breakers, States, Cacheable
<1>2. QuietAfterFailures
  <2> SUFFICES ASSUME NEW w \in Workers, pc[w] = "calling", failing[w].count >= Threshold
               PROVE  begun[w] >= failing[w].at + Recovery
    BY DEF QuietAfterFailures
  <2>1. breaker[w] \in Breakers /\ failing[w] \in Failing
    BY DEF IInv, Typed
  <2>2. breaker[w].state = "HALF_OPEN"
    BY <2>1, CircuitAssumption DEF IInv, Faithful, Counts, Breakers, States, Failing
  <2> QED BY <2>2 DEF IInv, Faithful, Counts
<1>3. AskedOncePerWorker
  <2> SUFFICES ASSUME NEW c \in Cnpjs PROVE stored[c] <= N * (1 + expired[c])
    BY DEF AskedOncePerWorker, N
  <2>1. /\ N \in Nat /\ stored[c] \in Nat /\ expired[c] \in Nat
        /\ Cardinality(Callers(c)) \in Nat
    BY Counting DEF IInv, Typed
  <2>2. N * (1 + expired[c]) = N * expired[c] + N /\ N * expired[c] \in Nat
    BY <2>1
  <2> QED BY <2>1, <2>2 DEF IInv, Budget
<1> QED BY <1>1, <1>2, <1>3 DEF CircuitSound

(* A worker whose calls keep failing leaves the source alone for the       *)
(* recovery time after each of them, and no worker obtains an answer twice *)
(* while the cache holds it (base.py 29-90, pgfn.py 60-115), whatever the  *)
(* threshold, the recovery time, the number of workers and of companies.   *)
THEOREM SourceLeftAlone == Spec => []CircuitSound
<1>1. IInv => CircuitSound
  BY Consequence
<1> QED BY <1>1, InitEstablishes, NextPreserves, PTL DEF Spec
-----------------------------------------------------------------------------
(* ConfazDocuments *)

(***************************************************************************)
(* Any number of processes, links, documents, discoveries and retries.     *)
(*                                                                         *)
(* Whoever extracts the text of a document has put its hash into the table *)
(* and was the only one to do so: a document that is not marked was never  *)
(* extracted, and while one is being extracted nobody else is at it and    *)
(* nobody has been (OneExtractor).                                         *)
(***************************************************************************)
Papers == {Served[u] : u \in DOMAIN Served}
Readings == {Free} \cup [pc : {"lookup", "insert", "extract"}, doc : Papers]

Extracting(w, d) == reading[w].pc = "extract" /\ reading[w].doc.name = d

OneExtractor ==
  /\ \A d \in DocNames \ hashes : readings[d] = 0 /\ \A w \in Readers : ~Extracting(w, d)
  /\ \A d \in DocNames : \A w \in Readers :
       Extracting(w, d) => readings[d] = 0 /\ \A v \in Readers : Extracting(v, d) => v = w

RulesOfPaper(d) ==
  \E doc \in Papers : doc.name = d /\ found[d].rules = Rules(doc, found[d].llm)

DocInv ==
  /\ reading \in [Readers -> Readings] /\ hashes \subseteq DocNames
  /\ readings \in [DocNames -> {0, 1}]
  /\ OneExtractor /\ MarkedIsReadOrBroken
  /\ \A d \in DOMAIN found : RulesOfPaper(d)

(* A document has one of the names.                                        *)
LEMMA Named == ASSUME NEW doc \in Papers PROVE doc.name \in DocNames
BY DEF Papers, DocNames

\* Nobody extracts who did not before: the table and the texts stay.
LEMMA NoNewExtractor ==
  ASSUME DocInv, UNCHANGED <<hashes, readings, found>>,
         reading' \in [Readers -> Readings],
         \A w \in Readers : \A d : Extracting(w, d)' <=> Extracting(w, d),
         broken' = broken
  PROVE  DocInv'
<1>1. OneExtractor'
  BY DEF DocInv, OneExtractor
<1>2. MarkedIsReadOrBroken'
  BY DEF DocInv, MarkedIsReadOrBroken, Extracting
<1>3. \A d \in DOMAIN found : RulesOfPaper(d)'
  BY DEF DocInv, RulesOfPaper
<1> QED BY <1>1, <1>2, <1>3 DEF DocInv

(* Looking a hash up keeps the invariant,                                  *)
LEMMA LookedUp == ASSUME DocInv, NEW w \in Readers, LookUp(w) PROVE DocInv'
<1>1. /\ reading[w].pc = "lookup" /\ UNCHANGED <<hashes, readings, found, broken>>
      /\ \/ reading' = [reading EXCEPT ![w] = Free]
         \/ reading' = [reading EXCEPT ![w].pc = "insert"]
  BY DEF LookUp, Done
<1>2. reading[w] \in Readings /\ reading[w] # Free
  BY <1>1 DEF DocInv, Free
<1>3. reading' \in [Readers -> Readings] /\ reading'[w].pc # "extract"
      /\ \A v \in Readers \ {w} : reading'[v] = reading[v]
  BY <1>1, <1>2 DEF DocInv, Readings, Free
<1> QED BY <1>1, <1>3, NoNewExtractor DEF Extracting

(* so does inserting it,                                                   *)
LEMMA Inserted == ASSUME DocInv, NEW w \in Readers, InsertHash(w) PROVE DocInv'
<1> DEFINE doc == reading[w].doc
           d == doc.name
<1>1. reading[w].pc = "insert" /\ hashes' = hashes \cup {d}
      /\ UNCHANGED <<readings, found, broken>>
  BY DEF InsertHash
<1>2. reading[w] = [pc |-> "insert", doc |-> doc] /\ doc \in Papers /\ d \in DocNames
  <2>1. reading[w] \in [pc : {"lookup", "insert", "extract"}, doc : Papers]
    BY <1>1 DEF DocInv, Readings, Free
  <2> QED BY <1>1, <2>1, Named
<1> HIDE DEF doc, d
<1>3. CASE d \in hashes
  <2>1. hashes' = hashes
    BY <1>1, <1>3
  <2>2. reading' = [reading EXCEPT ![w] = Free]
    BY <1>3 DEF InsertHash, Done, d, doc
  <2>3. reading' \in [Readers -> Readings] /\ reading'[w].pc # "extract"
        /\ \A v \in Readers \ {w} : reading'[v] = reading[v]
    BY <2>2 DEF DocInv, Readings, Free
  <2> QED BY <1>1, <2>1, <2>3, NoNewExtractor DEF Extracting
<1>4. CASE d \notin hashes
  <2>1. reading' = [reading EXCEPT ![w].pc = "extract"]
    BY <1>4 DEF InsertHash, d, doc
  <2>2. /\ reading'[w] = [pc |-> "extract", doc |-> doc]
        /\ \A v \in Readers \ {w} : reading'[v] = reading[v]
        /\ reading' \in [Readers -> Readings]
    BY <1>2, <2>1 DEF DocInv, Readings
  <2>3. \A v \in Readers : \A e : Extracting(v, e)' <=> (Extracting(v, e) \/ (v = w /\ e = d))
    <3>1. ASSUME NEW e PROVE Extracting(w, e)' <=> (Extracting(w, e) \/ e = d)
      <4>1. Extracting(w, e)' <=> e = doc.name
        BY <2>2 DEF Extracting
      <4>2. ~Extracting(w, e)
        BY <1>1 DEF Extracting
      <4> QED BY <4>1, <4>2 DEF d
    <3>2. ASSUME NEW v \in Readers \ {w}, NEW e PROVE Extracting(v, e)' <=> Extracting(v, e)
      BY <2>2 DEF Extracting
    <3> QED BY <3>1, <3>2
  <2>4. OneExtractor'
    BY <1>1, <1>2, <1>4, <2>3 DEF DocInv, OneExtractor
  <2>5. MarkedIsReadOrBroken'
    <3>1. MarkedIsReadOrBroken <=>
            \A e \in hashes : readings[e] > 0 \/ e \in broken \/ \E v \in Readers : Extracting(v, e)
      BY DEF MarkedIsReadOrBroken, Extracting
    <3>2. MarkedIsReadOrBroken' <=>
            \A e \in hashes' : readings'[e] > 0 \/ e \in broken' \/ \E v \in Readers : Extracting(v, e)'
      BY DEF MarkedIsReadOrBroken, Extracting
    <3> QED BY <1>1, <2>3, <3>1, <3>2 DEF DocInv
  <2>6. \A e \in DOMAIN found : RulesOfPaper(e)'
    BY <1>1 DEF DocInv, RulesOfPaper
  <2> QED BY <1>1, <1>2, <2>2, <2>4, <2>5, <2>6 DEF DocInv
<1> QED BY <1>3, <1>4

\* Whoever was extracting stops, with a text or without.
LEMMA ExtractionEnds ==
  ASSUME DocInv, NEW w \in Readers, NEW doc \in Papers, reading[w] = [pc |-> "extract", doc |-> doc],
         reading' = [reading EXCEPT ![w] = Free], hashes' = hashes,
         \/ broken' = broken \cup {doc.name} /\ readings' = readings
         \/ broken' = broken /\ readings' = [readings EXCEPT ![doc.name] = @ + 1],
         \A e \in DOMAIN (found') : RulesOfPaper(e)'
  PROVE  DocInv'
<1> DEFINE d == doc.name
<1>1. d \in DocNames /\ Extracting(w, d) /\ \A e : Extracting(w, e) => e = d
  BY Named DEF Extracting
<1>2. readings[d] = 0
  BY <1>1 DEF DocInv, OneExtractor
<1>3. /\ reading' \in [Readers -> Readings] /\ reading'[w].pc # "extract"
      /\ \A v \in Readers \ {w} : reading'[v] = reading[v]
  BY DEF DocInv, Readings, Free
<1>4. \A v \in Readers : \A e : Extracting(v, e)' <=> (Extracting(v, e) /\ v # w)
  BY <1>3 DEF Extracting
<1> HIDE DEF d
<1>5. /\ readings' \in [DocNames -> {0, 1}]
      /\ \A e \in DocNames \ {d} : readings'[e] = readings[e]
      /\ readings'[d] > 0 \/ d \in broken'
      /\ broken \subseteq broken'
  BY <1>1, <1>2 DEF DocInv, d
<1>6. OneExtractor'
  BY <1>1, <1>4, <1>5 DEF DocInv, OneExtractor
<1>7. MarkedIsReadOrBroken'
  <2>1. \A e \in hashes : readings[e] > 0 \/ e \in broken \/ \E v \in Readers : Extracting(v, e)
    BY DEF DocInv, MarkedIsReadOrBroken, Extracting
  <2>2. \A e \in hashes' : readings'[e] > 0 \/ e \in broken' \/ \E v \in Readers : Extracting(v, e)'
    BY <1>1, <1>4, <1>5, <2>1 DEF DocInv
  <2> QED BY <2>2 DEF MarkedIsReadOrBroken, Extracting
<1> QED BY <1>3, <1>5, <1>6, <1>7 DEF DocInv

(* extracting the text,                                                    *)
LEMMA Extracted == ASSUME DocInv, NEW w \in Readers, Extract(w) PROVE DocInv'
<1>1. PICK doc \in Papers : reading[w] = [pc |-> "extract", doc |-> doc]
  <2>1. reading[w] \in [pc : {"lookup", "insert", "extract"}, doc : Papers]
    BY DEF Extract, DocInv, Readings, Free
  <2> QED BY <2>1 DEF Extract
<1>2. hashes' = hashes /\ reading' = [reading EXCEPT ![w] = Free]
  BY DEF Extract, Done
<1>3. ExtractText(doc) \in {"broken", "text"}
  BY DEF ExtractText
<1>4. CASE ExtractText(doc) = "broken"
  <2>1. broken' = broken \cup {doc.name} /\ readings' = readings /\ found' = found
    BY <1>1, <1>4 DEF Extract
  <2>2. \A e \in DOMAIN (found') : RulesOfPaper(e)'
    BY <2>1 DEF DocInv, RulesOfPaper
  <2> QED BY <1>1, <1>2, <2>1, <2>2, ExtractionEnds
<1>5. CASE ExtractText(doc) = "text"
  <2>1. PICK llm \in {"up", "down"} :
          found' = [e \in DOMAIN found \cup {doc.name} |->
                      IF e = doc.name THEN [llm |-> llm, rules |-> Rules(doc, llm)] ELSE found[e]]
    BY <1>1, <1>5 DEF Extract
  <2>2. broken' = broken /\ readings' = [readings EXCEPT ![doc.name] = @ + 1]
    BY <1>1, <1>5 DEF Extract
  <2> DEFINE new == [llm |-> llm, rules |-> Rules(doc, llm)]
  <2>3. new.rules = Rules(doc, new.llm)
    OBVIOUS
  <2> HIDE DEF new
  <2>4. /\ DOMAIN (found') = {doc.name} \cup DOMAIN found /\ found'[doc.name] = new
        /\ \A e \in DOMAIN found \ {doc.name} : found'[e] = found[e]
    BY <2>1 DEF new
  <2>5. \A e \in DOMAIN (found') : RulesOfPaper(e)'
    <3>1. RulesOfPaper(doc.name)'
      BY <1>1, <2>3, <2>4 DEF RulesOfPaper
    <3>2. \A e \in DOMAIN found \ {doc.name} : RulesOfPaper(e)'
      BY <2>4 DEF DocInv, RulesOfPaper
    <3> QED BY <2>4, <3>1, <3>2
  <2> QED BY <1>1, <1>2, <2>2, <2>5, ExtractionEnds
<1> QED BY <1>3, <1>4, <1>5

(* a worker that dies,                                                     *)
LEMMA Died == ASSUME DocInv, NEW w \in Readers, ReaderDies(w) PROVE DocInv'
<1>1. UNCHANGED <<hashes, readings, found>> /\ reading' = [reading EXCEPT ![w] = Free]
  BY DEF ReaderDies, Done
<1>2. reading[w] \in [pc : {"lookup", "insert", "extract"}, doc : Papers]
  BY DEF ReaderDies, DocInv, Readings
<1>3. CASE reading[w].pc = "extract"
  <2> DEFINE doc == reading[w].doc
  <2>1. doc \in Papers /\ reading[w] = [pc |-> "extract", doc |-> doc]
    BY <1>2, <1>3
  <2>2. broken' = broken \cup {doc.name}
    BY <1>3 DEF ReaderDies
  <2>3. \A e \in DOMAIN (found') : RulesOfPaper(e)'
    BY <1>1 DEF DocInv, RulesOfPaper
  <2> HIDE DEF doc
  <2> QED BY <1>1, <2>1, <2>2, <2>3, ExtractionEnds
<1>4. CASE reading[w].pc # "extract"
  <2>1. broken' = broken
    BY <1>4 DEF ReaderDies
  <2>2. reading' \in [Readers -> Readings] /\ reading'[w].pc # "extract"
        /\ \A v \in Readers \ {w} : reading'[v] = reading[v]
    BY <1>1 DEF DocInv, Readings, Free
  <2> QED BY <1>1, <1>4, <2>1, <2>2, NoNewExtractor DEF Extracting
<1> QED BY <1>3, <1>4

(* and every step with the queue.                                          *)
LEMMA WithTheQueue ==
  ASSUME DocInv, NEW w \in Readers, NEW m, NEW source,
         Skipped(w, m, source) \/ FetchFails(w, m, source) \/ Discovered(w, m) \/ Downloaded(w, m)
  PROVE  DocInv'
<1>1. UNCHANGED <<hashes, readings, broken, found>>
  BY DEF Skipped, FetchFails, Discovered, Downloaded
<1>2. \/ reading' = reading
      \/ /\ reading[w] = Free /\ m.url \in DOMAIN Served
         /\ reading' = [reading EXCEPT ![w] = [pc |-> "lookup", doc |-> Served[m.url]]]
  BY DEF Skipped, FetchFails, Discovered, Downloaded, Take
<1>3. CASE reading' = reading
  BY <1>1, <1>3, NoNewExtractor DEF Extracting, DocInv
<1>4. CASE reading' # reading
  <2>1. /\ reading' \in [Readers -> Readings] /\ reading'[w].pc # "extract" /\ reading[w].pc # "extract"
        /\ \A v \in Readers \ {w} : reading'[v] = reading[v]
    BY <1>2, <1>4 DEF DocInv, Readings, Papers, Free
  <2> QED BY <1>1, <2>1, NoNewExtractor DEF Extracting
<1> QED BY <1>3, <1>4

(* Every step keeps it.                                                    *)
LEMMA DocPreserved == DocInv /\ [DocNext]_docVars => DocInv'
<1> SUFFICES ASSUME DocInv, [DocNext]_docVars PROVE DocInv'
  OBVIOUS
<1>1. CASE Schedule \/ UNCHANGED docVars
  BY <1>1, NoNewExtractor DEF Schedule, docVars, Extracting, DocInv
<1>2. CASE DocNext
  <2>1. CASE Schedule
    BY <1>1, <2>1
  <2>2. ASSUME NEW w \in Readers, LookUp(w) \/ InsertHash(w) \/ Extract(w) \/ ReaderDies(w)
        PROVE  DocInv'
    BY <2>2, LookedUp, Inserted, Extracted, Died
  <2>3. ASSUME NEW w \in Readers, NEW m \in BagToSet(mail),
               \/ Skipped(w, m, "index") \/ FetchFails(w, m, "index") \/ Discovered(w, m)
               \/ Skipped(w, m, "doc") \/ FetchFails(w, m, "doc") \/ Downloaded(w, m)
        PROVE  DocInv'
    BY <2>3, WithTheQueue
  <2> QED BY <1>2, <2>1, <2>2, <2>3 DEF DocNext
<1> QED BY <1>1, <1>2

(* A document is read at most once and its hash stands for a text, a text  *)
(* being extracted or one that was lost, whatever the discoveries find and *)
(* however many processes race (confaz_ocr.py 46-110); its rules are those *)
(* of the model, or of the heuristic where the model gave none.            *)
THEOREM DocumentsAreSound == DocSpec => []DocumentsSound
<1>1. DocInit => DocInv
  BY DEF DocInit, DocInv, OneExtractor, MarkedIsReadOrBroken, Extracting, Readings, Free
<1>2. ASSUME DocInv PROVE DocumentsSound
  <2>1. ReadAtMostOnce /\ MarkedIsReadOrBroken
    BY <1>2 DEF DocInv, ReadAtMostOnce
  <2>2. RulesWithoutModel
    <3> SUFFICES ASSUME NEW d \in DOMAIN found, NEW doc \in Papers, doc.name = d
          PROVE  IF found[d].llm = "down" \/ doc.byModel = {}
                 THEN found[d].rules = {r \in doc.byRegex : r.valid}
                 ELSE found[d].rules \subseteq doc.byModel
      BY DEF RulesWithoutModel, Papers
    <3>1. PICK paper \in Papers : paper.name = d /\ found[d].rules = Rules(paper, found[d].llm)
      BY <1>2 DEF DocInv, RulesOfPaper
    <3>2. paper = doc
      BY <3>1, LibraryAssumption DEF Papers
    <3> QED BY <3>1, <3>2 DEF Rules
  <2> QED BY <2>1, <2>2 DEF DocumentsSound
<1> QED BY <1>1, <1>2, DocPreserved, PTL DEF DocSpec
-----------------------------------------------------------------------------
(* Ingestion and LiveQueries *)

(***************************************************************************)
(* The circuits of a process, for any threshold, recovery time and replies *)
(* of the sources.  What a circuit holds is what the replies were, whoever *)
(* asked (Counts, as in IngestCircuit); all that a function may do with it *)
(* is to look, and to record what it learnt (Learns).                      *)
(***************************************************************************)
Calls == {"municipios", "populacao", "pib", "cempre", "area", "ipca", "selic", "cambio", "cnpj"}

QueryTyped ==
  \/ query = NoQuery
  \/ /\ DOMAIN query = {"handler", "calls", "got"}
     /\ query.handler \in DOMAIN Handlers /\ query.calls \in Seq(Calls)

CircuitsInv ==
  /\ clock \in Nat
  /\ circuits \in [Sources -> Breakers] /\ streak \in [Sources -> Failing]
  /\ asked \in [Sources -> {0, 1}]
  /\ \A s \in Sources : Counts(circuits[s], streak[s])

Learns(f, b, reply, moment, oddFails) ==
  IF Observed(b).state = "OPEN" THEN f.asked = FALSE /\ f.circuit = b
  ELSE f.asked = TRUE /\ f.circuit = Learnt(Observed(b), reply, moment, oddFails)

(* What each fetch function tells the circuit of a reply.                  *)
LEMMA FunctionsLearn ==
  ASSUME NEW b, NEW reply
  PROVE  /\ Learns(FetchFromApi(b, reply), b, reply, "end", FALSE)
         /\ Learns(FetchPncpPage(b, reply), b, reply, "status", FALSE)
         /\ Learns(FetchCagedApi(b, reply), b, reply, "status", TRUE)
         /\ Learns(FetchSiconfiApi(b, reply), b, reply, "status", FALSE)
         /\ Learns(FetchReceitaCnpj(b, reply), b, reply, "end", FALSE)
         /\ Learns(FetchMunicipios(b, reply), b, reply, "status", FALSE)
         /\ Learns(FetchPopulacao(b, reply), b, reply, "point", TRUE)
<1> USE DEF Learns, Through
<1>1. Learns(FetchFromApi(b, reply), b, reply, "end", FALSE)
  BY DEF FetchFromApi
<1>2. Learns(FetchPncpPage(b, reply), b, reply, "status", FALSE)
  BY DEF FetchPncpPage
<1>3. Learns(FetchCagedApi(b, reply), b, reply, "status", TRUE)
  BY DEF FetchCagedApi
<1>4. Learns(FetchSiconfiApi(b, reply), b, reply, "status", FALSE)
  BY DEF FetchSiconfiApi
<1>5. Learns(FetchReceitaCnpj(b, reply), b, reply, "end", FALSE)
  BY DEF FetchReceitaCnpj
<1>6. Learns(FetchMunicipios(b, reply), b, reply, "status", FALSE)
  BY DEF FetchMunicipios
<1>7. Learns(FetchPopulacao(b, reply), b, reply, "point", TRUE)
  BY DEF FetchPopulacao, FetchN6Latest
<1> HIDE DEF Learns, Through
<1> QED BY <1>1, <1>2, <1>3, <1>4, <1>5, <1>6, <1>7

(* The same of the live queries.                                           *)
LEMMA QueriesLearn ==
  ASSUME NEW b, NEW reply, NEW call \in Calls
  PROVE  Learns(FetchOf(call, b, reply), b, reply, Moment(call), OddFails(call))
<1> DEFINE L(f, e, o) ==
             /\ FetchOf(call, b, reply) = f /\ Moment(call) = e /\ (OddFails(call) <=> o)
             /\ Learns(f, b, reply, e, o)
<1>1. ASSUME NEW f, NEW e, NEW o \in BOOLEAN, L(f, e, o)
      PROVE  Learns(FetchOf(call, b, reply), b, reply, Moment(call), OddFails(call))
  <2>1. OddFails(call) = o
    BY <1>1 DEF OddFails
  <2> QED BY <1>1, <2>1
<1>2. ASSUME call = "municipios"
      PROVE  Learns(FetchOf(call, b, reply), b, reply, Moment(call), OddFails(call))
  <2>1. FetchOf(call, b, reply) = FetchMunicipios(b, reply) /\ Moment(call) = "status" /\ (OddFails(call) <=> FALSE)
    BY <1>2 DEF FetchOf, Moment, OddFails
  <2>2. Learns(FetchMunicipios(b, reply), b, reply, "status", FALSE)
    BY FunctionsLearn
  <2> QED BY <1>1, <2>1, <2>2
<1>3. ASSUME call = "populacao"
      PROVE  Learns(FetchOf(call, b, reply), b, reply, Moment(call), OddFails(call))
  <2>1. FetchOf(call, b, reply) = FetchPopulacao(b, reply) /\ Moment(call) = "point" /\ (OddFails(call) <=> TRUE)
    BY <1>3 DEF FetchOf, Moment, OddFails
  <2>2. Learns(FetchPopulacao(b, reply), b, reply, "point", TRUE)
    BY FunctionsLearn
  <2> QED BY <1>1, <2>1, <2>2
<1>4. ASSUME call = "pib"
      PROVE  Learns(FetchOf(call, b, reply), b, reply, Moment(call), OddFails(call))
  <2>1. FetchOf(call, b, reply) = FetchPib(b, reply) /\ Moment(call) = "point" /\ (OddFails(call) <=> TRUE)
    BY <1>4 DEF FetchOf, Moment, OddFails
  <2>2. Learns(FetchPib(b, reply), b, reply, "point", TRUE)
    BY DEF FetchPib, FetchN6Latest, Learns, Through
  <2> QED BY <1>1, <2>1, <2>2
<1>5. ASSUME call = "cempre"
      PROVE  Learns(FetchOf(call, b, reply), b, reply, Moment(call), OddFails(call))
  <2>1. FetchOf(call, b, reply) = FetchCempre(b, reply) /\ Moment(call) = "status" /\ (OddFails(call) <=> TRUE)
    BY <1>5 DEF FetchOf, Moment, OddFails
  <2>2. Learns(FetchCempre(b, reply), b, reply, "status", TRUE)
    BY DEF FetchCempre, Learns, Through
  <2> QED BY <1>1, <2>1, <2>2
<1>6. ASSUME call = "area"
      PROVE  Learns(FetchOf(call, b, reply), b, reply, Moment(call), OddFails(call))
  <2>1. FetchOf(call, b, reply) = FetchArea(b, reply) /\ Moment(call) = "point" /\ (OddFails(call) <=> TRUE)
    BY <1>6 DEF FetchOf, Moment, OddFails
  <2>2. Learns(FetchArea(b, reply), b, reply, "point", TRUE)
    BY DEF FetchArea, FetchN6Latest, Learns, Through
  <2> QED BY <1>1, <2>1, <2>2
<1>7. ASSUME call = "ipca"
      PROVE  Learns(FetchOf(call, b, reply), b, reply, Moment(call), OddFails(call))
  <2>1. FetchOf(call, b, reply) = FetchIpca(b, reply, reply) /\ Moment(call) = "end" /\ (OddFails(call) <=> TRUE)
    BY <1>7 DEF FetchOf, Moment, OddFails
  <2>2. Learns(FetchIpca(b, reply, reply), b, reply, "end", TRUE)
    BY DEF FetchIpca, Learns, Through
  <2> QED BY <1>1, <2>1, <2>2
<1>8. ASSUME call = "selic" \/ call = "cambio"
      PROVE  Learns(FetchOf(call, b, reply), b, reply, Moment(call), OddFails(call))
  <2>1. FetchOf(call, b, reply) = FetchSerie(b, reply) /\ Moment(call) = "status" /\ (OddFails(call) <=> FALSE)
    BY <1>8 DEF FetchOf, Moment, OddFails
  <2>2. Learns(FetchSerie(b, reply), b, reply, "status", FALSE)
    BY DEF FetchSerie, Learns, Through
  <2> QED BY <1>1, <2>1, <2>2
<1>9. ASSUME call = "cnpj"
      PROVE  Learns(FetchOf(call, b, reply), b, reply, Moment(call), OddFails(call))
  <2>1. FetchOf(call, b, reply) = FetchCnpj(b, reply) /\ Moment(call) = "status" /\ (OddFails(call) <=> FALSE)
    BY <1>9 DEF FetchOf, Moment, OddFails
  <2>2. Learns(FetchCnpj(b, reply), b, reply, "status", FALSE)
    BY DEF FetchCnpj, Learns, Through
  <2> QED BY <1>1, <2>1, <2>2
<1> QED BY <1>2, <1>3, <1>4, <1>5, <1>6, <1>7, <1>8, <1>9 DEF Calls

(* The circuit counts a reply as the history does.                         *)
LEMMA ReplyCounted ==
  ASSUME clock \in Nat, NEW b \in Breakers, NEW f \in Failing, Counts(b, f), b.state # "OPEN",
         NEW reply, NEW moment, NEW oddFails
  PROVE  LET c == Learnt(b, reply, moment, oddFails)
             g == FailingAfter(f, reply, moment, oddFails)
         IN  c \in Breakers /\ g \in Failing /\ Counts(c, g)
<1> DEFINE one == [count |-> 1, at |-> clock]
           more == [count |-> f.count + 1, at |-> clock]
           fell == RecordFailure(RecordSuccess(b))
           bad == IsFailure(reply, oddFails)
           soon == TooSoon(reply, moment)
<1>1. RecordSuccess(b) \in Breakers /\ NoFailure \in Failing /\ Counts(RecordSuccess(b), NoFailure)
  BY Succeeding
<1>2. RecordFailure(b) \in Breakers /\ more \in Failing /\ Counts(RecordFailure(b), more)
  BY FailingOnce
<1>3. fell \in Breakers /\ one \in Failing /\ Counts(fell, one)
  <2>1. RecordSuccess(b).state # "OPEN" /\ NoFailure.count + 1 = 1
    BY DEF RecordSuccess, Closed, NoFailure
  <2> HIDE DEF one
  <2>2. [count |-> NoFailure.count + 1, at |-> clock] = one
    BY <2>1 DEF one
  <2> QED BY <1>1, <2>1, <2>2, FailingOnce
<1>4. Learnt(b, reply, moment, oddFails) =
        IF ~ bad THEN RecordSuccess(b) ELSE IF soon THEN fell ELSE RecordFailure(b)
  BY DEF Learnt
<1>5. FailingAfter(f, reply, moment, oddFails) = IF ~ bad THEN NoFailure ELSE IF soon THEN one ELSE more
  BY DEF FailingAfter
<1> HIDE DEF one, more, fell, bad, soon
<1> QED BY <1>1, <1>2, <1>3, <1>4, <1>5

\* A source that has failed is asked only after its recovery time.
LeftAlone ==
  \A s \in Sources :
    (asked'[s] # asked[s] /\ streak[s].count >= Threshold) => clock >= streak[s].at + Recovery

(* A call through a circuit keeps it in step and leaves a failing source   *)
(* alone.                                                                  *)
LEMMA Using ==
  ASSUME CircuitsInv, NEW s \in Sources, NEW f, NEW reply,
         NEW moment, NEW oddFails,
         Learns(f, circuits[s], reply, moment, oddFails), Use(s, f, reply, moment, oddFails),
         clock' = clock
  PROVE  CircuitsInv' /\ LeftAlone
<1> DEFINE b == circuits[s]
           g == streak[s]
           o == Observed(b)
           h == FailingAfter(g, reply, moment, oddFails)
<1>1. clock \in Nat /\ b \in Breakers /\ g \in Failing /\ Counts(b, g)
  BY DEF CircuitsInv
<1>2. o \in Breakers /\ Counts(o, g)
  BY <1>1, Looking
<1>3. /\ circuits' = [circuits EXCEPT ![s] = f.circuit]
      /\ f.asked = FALSE => asked' = asked /\ streak' = streak
      /\ f.asked = TRUE => /\ asked' = [asked EXCEPT ![s] = 1 - asked[s]]
                          /\ streak' = [streak EXCEPT ![s] = h]
  <2>1. circuits' = [circuits EXCEPT ![s] = f.circuit]
    BY DEF Use
  <2>2. f.asked = FALSE => asked' = asked /\ streak' = streak
    BY DEF Use
  <2>3. f.asked = TRUE => asked' = [asked EXCEPT ![s] = 1 - asked[s]]
    BY DEF Use, CircuitsInv
  <2>4. f.asked = TRUE => streak' = [streak EXCEPT ![s] = h]
    BY DEF Use, CircuitsInv
  <2> QED BY <2>1, <2>2, <2>3, <2>4
<1>4. CASE o.state = "OPEN"
  <2>1. f.circuit = b /\ f.asked = FALSE
    BY <1>4 DEF Learns
  <2>2. circuits' = [circuits EXCEPT ![s] = circuits[s]] /\ UNCHANGED <<asked, streak>>
    BY <1>3, <2>1
  <2>3. circuits' = circuits
    BY <2>2 DEF CircuitsInv
  <2> QED BY <2>2, <2>3 DEF CircuitsInv, LeftAlone, Counts
<1>5. CASE o.state # "OPEN"
  <2> DEFINE c == Learnt(o, reply, moment, oddFails)
  <2>1. f.circuit = c /\ f.asked = TRUE
    BY <1>5 DEF Learns
  <2> HIDE DEF b, g, o, h, c
  <2>2. c \in Breakers /\ h \in Failing /\ Counts(c, h)
    BY <1>1, <1>2, <1>5, ReplyCounted DEF c, h
  <2>3. /\ circuits' = [circuits EXCEPT ![s] = c] /\ streak' = [streak EXCEPT ![s] = h]
        /\ asked' = [asked EXCEPT ![s] = 1 - asked[s]]
    BY <1>3, <2>1
  <2>4. CircuitsInv'
    <3>1. \A x, y : Counts(x, y)' <=> Counts(x, y)
      BY DEF Counts
    <3> QED BY <2>2, <2>3, <3>1 DEF CircuitsInv
  <2>5. g.count >= Threshold => clock >= g.at + Recovery
    <3>1. clock \in Nat /\ b.openedAt \in Nat /\ g.at \in Nat /\ g.count \in Nat
      BY <1>1 DEF Breakers, Failing
    <3>2. o.state \in {"CLOSED", "HALF_OPEN"}
      BY <1>2, <1>5 DEF Breakers, States
    <3>3. CASE o.state = "CLOSED"
      BY <1>2, <3>1, <3>3, CircuitAssumption DEF Counts
    <3>4. CASE o.state = "HALF_OPEN"
      BY <1>2, <3>1, <3>4 DEF Counts
    <3> QED BY <3>2, <3>3, <3>4
  <2> QED BY <2>3, <2>4, <2>5 DEF LeftAlone, CircuitsInv, g
<1> QED BY <1>4, <1>5

(* A step without a call changes neither.                                  *)
LEMMA NotUsing ==
  ASSUME CircuitsInv, UNCHANGED <<clock, circuits, streak, asked>>
  PROVE  CircuitsInv' /\ LeftAlone
BY DEF CircuitsInv, LeftAlone, Counts

(* The steps of the tasks are of these two kinds,                          *)
LEMMA TaskSteps ==
  ASSUME CircuitsInv, Goes
  PROVE  CircuitsInv' /\ LeftAlone
<1>1. ASSUME NEW r, PncpPage(r) PROVE CircuitsInv' /\ LeftAlone
  <2>1. clock' = clock /\ Use("pncp", FetchPncpPage(circuits["pncp"], r), r, "status", FALSE)
    BY <1>1 DEF PncpPage
  <2>2. "pncp" \in Sources
    BY DEF Sources
  <2> QED BY <2>1, <2>2, FunctionsLearn, Using
<1>2. ASSUME NEW r, CagedCompany(r) PROVE CircuitsInv' /\ LeftAlone
  <2>1. clock' = clock
        /\ (NothingAsked \/ Use("caged", FetchCagedApi(circuits["caged"], r), r, "status", TRUE))
    BY <1>2 DEF CagedCompany
  <2>2. "caged" \in Sources
    BY DEF Sources
  <2> QED BY <2>1, <2>2, FunctionsLearn, Using, NotUsing DEF NothingAsked
<1>3. ASSUME NEW r, SiconfiYear(r) PROVE CircuitsInv' /\ LeftAlone
  <2>1. clock' = clock
        /\ (NothingAsked \/ Use("siconfi", FetchSiconfiApi(circuits["siconfi"], r), r, "status", FALSE))
    BY <1>3 DEF SiconfiYear
  <2>2. "siconfi" \in Sources
    BY DEF Sources
  <2> QED BY <2>1, <2>2, FunctionsLearn, Using, NotUsing DEF NothingAsked
<1>4. ASSUME NEW r, DatajudFetch(r) PROVE CircuitsInv' /\ LeftAlone
  <2>1. clock' = clock /\ Use("DATAJUD", FetchFromApi(circuits["DATAJUD"], r), r, "end", FALSE)
    BY <1>4 DEF DatajudFetch
  <2>2. "DATAJUD" \in Sources
    BY DEF Sources
  <2> QED BY <2>1, <2>2, FunctionsLearn, Using
<1>5. ASSUME NEW r, IbgeState(r) PROVE CircuitsInv' /\ LeftAlone
  <2>1. clock' = clock /\ Use("ibge", FetchMunicipios(circuits["ibge"], r), r, "status", FALSE)
    BY <1>5 DEF IbgeState
  <2>2. "ibge" \in Sources
    BY DEF Sources
  <2> QED BY <2>1, <2>2, FunctionsLearn, Using
<1>6. ASSUME NEW r, IbgeTown(r) PROVE CircuitsInv' /\ LeftAlone
  <2>1. clock' = clock /\ Use("ibge", FetchPopulacao(circuits["ibge"], r), r, "point", TRUE)
    BY <1>6 DEF IbgeTown
  <2>2. "ibge" \in Sources
    BY DEF Sources
  <2> QED BY <2>1, <2>2, FunctionsLearn, Using
<1>7. ASSUME NEW r, ReceitaCompany(r) PROVE CircuitsInv' /\ LeftAlone
  <2>1. clock' = clock
        /\ (NothingAsked \/ Use("RECEITA", FetchReceitaCnpj(circuits["RECEITA"], r), r, "end", FALSE))
    BY <1>7 DEF ReceitaCompany
  <2>2. "RECEITA" \in Sources
    BY DEF Sources
  <2> QED BY <2>1, <2>2, FunctionsLearn, Using, NotUsing DEF NothingAsked
<1>8. CASE \/ KeepRow \/ DatajudAgain \/ Report \/ DatajudReport
           \/ \E o \in {"ok", "partly", "fails"} : StoreNext(o)
  <2>1. NothingAsked /\ clock' = clock
    BY <1>8 DEF KeepRow, DatajudAgain, Report, DatajudReport, StoreNext
  <2> QED BY <2>1, NotUsing DEF NothingAsked
<1> QED BY <1>1, <1>2, <1>3, <1>4, <1>5, <1>6, <1>7, <1>8 DEF Goes

(* a query keeps its type,                                                 *)
LEMMA QueryKept ==
  ASSUME QueryTyped, [SourcesNext]_sourcesVars PROVE QueryTyped'
<1>1. CASE query' = query
  BY <1>1 DEF QueryTyped
<1>2. ASSUME NEW h \in DOMAIN Handlers, Accept(h) PROVE QueryTyped'
  <2>1. query' = [handler |-> h, calls |-> Handlers[h], got |-> <<>>]
    BY <1>2 DEF Accept
  <2>2. Handlers[h] \in Seq(Calls)
    <3>1. /\ <<"municipios">> \in Seq(Calls) /\ <<"populacao">> \in Seq(Calls)
          /\ <<"cnpj">> \in Seq(Calls)
      BY DEF Calls
    <3>2. <<"populacao", "pib", "cempre", "area">> \in Seq(Calls)
      BY DEF Calls
    <3>3. <<"ipca", "selic", "cambio">> \in Seq(Calls)
      BY DEF Calls
    <3>4. h \in {"list_uf_municipios", "municipio_populacao", "municipio_perfil", "macro", "entidade"}
      BY DEF Handlers
    <3>5. /\ Handlers["list_uf_municipios"] = <<"municipios">>
          /\ Handlers["municipio_populacao"] = <<"populacao">>
          /\ Handlers["municipio_perfil"] = <<"populacao", "pib", "cempre", "area">>
          /\ Handlers["macro"] = <<"ipca", "selic", "cambio">>
          /\ Handlers["entidade"] = <<"cnpj">>
      BY DEF Handlers
    <3> HIDE DEF Handlers
    <3> QED BY <3>1, <3>2, <3>3, <3>4, <3>5
  <2> HIDE DEF Handlers
  <2> QED BY <2>1, <2>2 DEF QueryTyped
<1>3. ASSUME NEW r, Call(r) PROVE QueryTyped'
  <2>1. query.calls # <<>>
    BY <1>3 DEF Call
  <2>2. /\ DOMAIN query = {"handler", "calls", "got"}
        /\ query.handler \in DOMAIN Handlers /\ query.calls \in Seq(Calls)
    BY <2>1 DEF QueryTyped, NoQuery
  <2>3. PICK got : query' = [query EXCEPT !.calls = Tail(@), !.got = got]
    BY <1>3 DEF Call
  <2>4. DOMAIN query' = DOMAIN query /\ query'.handler = query.handler
        /\ query'.calls = Tail(query.calls)
    BY <2>2, <2>3
  <2>5. Tail(query.calls) \in Seq(Calls)
    BY <2>1, <2>2
  <2> QED BY <2>2, <2>4, <2>5 DEF QueryTyped
<1>4. CASE Answer
  BY <1>4 DEF Answer, QueryTyped
<1> QED BY <1>1, <1>2, <1>3, <1>4 DEF SourcesNext, LiveNext, sourcesVars, liveVars

(* and calls through the circuit of its source.                            *)
LEMMA QuerySteps ==
  ASSUME CircuitsInv, QueryTyped, NEW r, Call(r)
  PROVE  CircuitsInv' /\ LeftAlone
<1> DEFINE call == Head(query.calls)
           s == CircuitOf(call)
<1>1. query.calls # <<>> /\ query.calls \in Seq(Calls)
  BY DEF Call, QueryTyped, NoQuery
<1>2. call \in Calls
  BY <1>1
<1>3. s \in Sources
  BY DEF CircuitOf, Sources, GatewaySources
<1>4. clock' = clock /\ Use(s, FetchOf(call, circuits[s], r), r, Moment(call), OddFails(call))
  BY DEF Call
<1> HIDE DEF call, s
<1>6. Learns(FetchOf(call, circuits[s], r), circuits[s], r, Moment(call), OddFails(call))
  BY <1>2, QueriesLearn
<1> QED BY <1>3, <1>4, <1>6, Using

(* Every step keeps the circuits and leaves a failing source alone.        *)
LEMMA CircuitsPreserved ==
  ASSUME CircuitsInv, QueryTyped, [SourcesNext]_sourcesVars
  PROVE  CircuitsInv' /\ LeftAlone
<1>1. CASE Begins
  <2>1. UNCHANGED <<clock, circuits, streak, asked>>
    BY <1>1 DEF Begins, Begin, DatajudBegins
  <2> QED BY <2>1, NotUsing
<1>2. CASE Goes
  BY <1>2, TaskSteps
<1>3. CASE TaskGone \/ \E key \in DOMAIN redis : KeyGone(key)
  BY <1>3, NotUsing DEF TaskGone, NothingAsked, KeyGone
<1>4. CASE ProcessReplaced
  <2>1. /\ circuits' = [s \in Sources |-> Closed] /\ streak' = [s \in Sources |-> NoFailure]
        /\ UNCHANGED <<clock, asked>>
    BY <1>4 DEF ProcessReplaced
  <2>2. clock \in Nat
    BY DEF CircuitsInv
  <2>3. Closed \in Breakers /\ NoFailure \in Failing /\ Counts(Closed, NoFailure)
    BY <2>2, Succeeding DEF RecordSuccess
  <2>4. Counts(Closed, NoFailure)'
    BY <2>1, <2>3 DEF Counts, Closed, NoFailure
  <2> QED BY <2>1, <2>3, <2>4 DEF CircuitsInv, LeftAlone
<1>5. CASE HourPasses
  <2>1. clock' = clock + 1 /\ UNCHANGED <<circuits, streak, asked>>
    BY <1>5 DEF HourPasses, ingestVars
  <2>2. clock \in Nat
    BY DEF CircuitsInv
  <2>3. ASSUME NEW b \in Breakers, NEW f \in Failing, Counts(b, f) PROVE Counts(b, f)'
    BY <2>1, <2>2, <2>3, CircuitAssumption DEF Counts, Breakers
  <2> QED BY <2>1, <2>2, <2>3 DEF CircuitsInv, LeftAlone
<1>6. ASSUME NEW h \in DOMAIN Handlers, Accept(h) PROVE CircuitsInv' /\ LeftAlone
  BY <1>6, NotUsing DEF Accept, ingestVars
<1>7. CASE Answer
  BY <1>7, NotUsing DEF Answer, ingestVars
<1>8. CASE UNCHANGED sourcesVars
  BY <1>8, NotUsing DEF sourcesVars, ingestVars
<1>9. ASSUME NEW r, Call(r) PROVE CircuitsInv' /\ LeftAlone
  BY <1>9, QuerySteps
<1> QED
  BY <1>1, <1>2, <1>3, <1>4, <1>5, <1>6, <1>7, <1>8, <1>9 DEF SourcesNext, IngestNext, LiveNext

(* The circuits are in step in every reachable state.                      *)
LEMMA SourcesTyped == SourcesSpec => [](CircuitsInv /\ QueryTyped)
<1>1. SourcesInit => CircuitsInv /\ QueryTyped
  <2> SUFFICES ASSUME SourcesInit PROVE CircuitsInv /\ QueryTyped
    OBVIOUS
  <2>1. clock \in Nat
    BY DEF SourcesInit
  <2>2. Closed \in Breakers /\ NoFailure \in Failing /\ Counts(Closed, NoFailure)
    BY <2>1, Succeeding DEF RecordSuccess
  <2> QED BY <2>1, <2>2 DEF SourcesInit, IngestInit, LiveInit, CircuitsInv, QueryTyped
<1>2. CircuitsInv /\ QueryTyped /\ [SourcesNext]_sourcesVars => (CircuitsInv /\ QueryTyped)'
  BY CircuitsPreserved, QueryKept
<1> QED BY <1>1, <1>2, PTL DEF SourcesSpec

(* No source is asked before its recovery time once Threshold replies in a *)
(* row were failures, whichever of the functions that share its circuit    *)
(* got them and whenever each records its success, for any threshold and   *)
(* any recovery time (base.py 36-90 and the fetch functions).              *)
THEOREM FailingSourcesRest == SourcesSpec => FailingSourceLeftAlone
<1>1. CircuitsInv /\ QueryTyped /\ [SourcesNext]_sourcesVars
        => [LeftAlone]_<<clock, ingestVars>>
  BY CircuitsPreserved
<1> QED BY <1>1, SourcesTyped, PTL DEF SourcesSpec, FailingSourceLeftAlone, LeftAlone
-----------------------------------------------------------------------------
(* The reports of the tasks *)

(***************************************************************************)
(* What is in progress adds up already (Balanced): a row that was read is  *)
(* kept, rejected, set apart or still to come.  A year of PNCP that is not *)
(* cut and has no page to come has read its pages (Covered), a store that  *)
(* was passed holds the documents or is named (Passed), and an attempt of  *)
(* DATAJUD is about the day its task was due, or a later one (Dated).      *)
(***************************************************************************)
IsSeq(s) == s \in Seq(Range(s))

LoopFields ==
  {"task", "left", "got", "key", "in", "out", "rejected", "aside", "pages", "total", "cut"}

Counted(j) ==
  /\ IsSeq(j.left) /\ IsSeq(j.got)
  /\ j.task = "pncp" => j.left \in Seq(Nat)
  /\ j.in \in Nat /\ j.out \in Nat /\ j.rejected \in Nat /\ j.aside \in Nat
  /\ j.pages \in Nat /\ j.total \in Nat

Balanced(j) ==
  /\ j.task \in {"pncp", "siconfi"} => j.out + j.rejected + Len(j.got) = j.in
  /\ j.task = "siconfi" => j.left = <<>> \/ j.in = 0
  /\ j.task = "caged" => j.out + j.rejected + Len(j.got) = j.in + j.aside
  /\ j.task = "receita" => j.got = <<>> /\ j.out + j.rejected + j.aside = j.in
  /\ j.task = "ibge" =>
       IF j.key = "none" THEN j.in = 0 /\ j.out = 0 /\ j.rejected = 0 /\ j.got = <<>>
       ELSE j.out + j.rejected + Len(j.got) + Len(j.left) = j.in

Covered(j) ==
  (j.task = "pncp" /\ ~ j.cut /\ j.left = <<>>) => j.pages >= Min({j.total, PageLimit})

LoopJob(j) ==
  /\ DOMAIN j = LoopFields /\ j.task \in Loops
  /\ Counted(j) /\ Balanced(j) /\ Covered(j)

Dated(j) ==
  /\ j.date \in Nat /\ j.due \in Int /\ j.day \in Int /\ j.tries \in Nat
  /\ j.date # NoDate => j.day = j.date /\ j.due = j.date
  /\ j.day >= j.due
  /\ j.tries = 0 => j.day = j.due
  /\ j.date = NoDate => j.due <= Day - 1

AskingJob(j) ==
  /\ DOMAIN j = {"task", "date", "due", "day", "tries", "at"}
  /\ j.task \in {"datajud", "waiting"} /\ Dated(j)
  /\ j.task = "waiting" => j.tries > 0

Held(j, s) == \A row \in Range(j.rows) : [day |-> j.day, id |-> row.id] \in archive[s]
Left3 == {Stores, <<"opensearch", "neo4j">>, <<"neo4j">>, <<>>}
Passed(j) ==
  \A s \in {"minio", "neo4j"} : s \in Range(j.stores) \/ s \in j.errors \/ Held(j, s)

StoringJob(j) ==
  /\ DOMAIN j = {"task", "day", "date", "due", "tries", "rows", "in", "stores", "errors"}
  /\ j.task = "persist" /\ Dated(j) /\ j.stores \in Left3 /\ Passed(j)

JobInv == job = NoJob \/ LoopJob(job) \/ AskingJob(job) \/ StoringJob(job)

\* What the last report tells, and the invariant.
ArchiveStores == {"minio", "opensearch", "neo4j"}
ReportTrue == ReportAddsUp /\ YearCovered /\ StoredOrNamed /\ DayAsked

ReportsInv ==
  /\ JobInv /\ DOMAIN archive = ArchiveStores
  /\ ReportTrue /\ NoEntryFromFailure /\ DerivedOnlyFromGiven

(* What is left of a sequence when its head is taken.                      *)
LEMMA Sequence ==
  ASSUME NEW s, IsSeq(s)
  PROVE  /\ Len(s) \in Nat /\ (s = <<>> <=> Len(s) = 0)
         /\ s # <<>> => IsSeq(Tail(s)) /\ Len(Tail(s)) + 1 = Len(s)
<1>1. s \in Seq(Range(s))
  BY DEF IsSeq
<1>2. Len(s) \in Nat /\ (s = <<>> <=> Len(s) = 0)
  BY <1>1
<1>3. ASSUME s # <<>> PROVE IsSeq(Tail(s)) /\ Len(Tail(s)) + 1 = Len(s)
  <2> DEFINE t == Tail(s)
  <2>1. t \in Seq(Range(s)) /\ Len(t) = Len(s) - 1
    BY <1>1, <1>3
  <2> HIDE DEF t
  <2>2. \A i \in 1..Len(t) : t[i] \in Range(t)
    BY <2>1 DEF Range
  <2>3. t \in Seq(Range(t))
    BY <2>1, <2>2
  <2> QED BY <1>2, <2>1, <2>3 DEF IsSeq, t
<1> QED BY <1>2, <1>3

(* and when it gets a head.                                                *)
LEMMA Prepended ==
  ASSUME NEW s, IsSeq(s), NEW x PROVE IsSeq(<<x>> \o s)
<1> DEFINE t == <<x>> \o s
<1>1. t \in Seq(Range(s) \cup {x})
  BY DEF IsSeq
<1> HIDE DEF t
<1>2. \A i \in 1..Len(t) : t[i] \in Range(t)
  BY <1>1 DEF Range
<1>3. t \in Seq(Range(t))
  BY <1>1, <1>2
<1> QED BY <1>3 DEF IsSeq, t

(* The sequences of none and of one.                                       *)
LEMMA ShortSequences ==
  /\ IsSeq(<<>>) /\ Len(<<>>) = 0
  /\ \A x : IsSeq(<<x>>) /\ Len(<<x>>) = 1 /\ <<x>> # <<>>
<1>1. IsSeq(<<>>) /\ Len(<<>>) = 0
  BY DEF IsSeq
<1>2. ASSUME NEW x PROVE IsSeq(<<x>>) /\ Len(<<x>>) = 1 /\ <<x>> # <<>>
  <2>1. x \in Range(<<x>>)
    BY DEF Range
  <2> QED BY <2>1 DEF IsSeq
<1> QED BY <1>1, <1>2

(* No pages are left only at the end of the list or at the limit.          *)
LEMMA PagesToRead ==
  ASSUME NEW page \in Nat, NEW total \in Nat
  PROVE  /\ IsSeq(PagesLeft(page, total)) /\ PagesLeft(page, total) \in Seq(Nat)
         /\ PagesLeft(page, total) = <<>> => page >= Min({total, PageLimit})
<1> DEFINE m == Min({total, PageLimit})
           s == PagesLeft(page, total)
           n == m + 1 - (page + 1)
<1>1. m \in Nat
  <2>1. PageLimit \in Nat
    BY IngestionAssumption
  <2>2. \E x \in {total, PageLimit} : \A y \in {total, PageLimit} : x =< y
    BY <2>1
  <2>3. m \in {total, PageLimit}
    BY <2>2 DEF Min
  <2> QED BY <2>1, <2>3
<1>2. s = [i \in 1..n |-> page + 1 + i - 1]
  BY DEF PagesLeft, Upto
<1> HIDE DEF m, s
<1>3. n \in Int
  BY <1>1
<1> HIDE DEF n
<1>4. IsSeq(s) /\ s \in Seq(Nat)
  <2>1. \A i \in 1..n : s[i] \in Range(s) /\ s[i] \in Nat
    BY <1>2, <1>3 DEF Range
  <2>2. CASE n \in Nat
    BY <1>2, <2>1, <2>2 DEF IsSeq
  <2>3. CASE n \notin Nat
    <3>1. 1..n = {}
      BY <1>3, <2>3
    <3>2. s = <<>>
      BY <1>2, <3>1
    <3> QED BY <3>2, ShortSequences
  <2> QED BY <2>2, <2>3
<1>5. ASSUME s = <<>> PROVE page >= m
  <2>1. 1..n = {}
    BY <1>2, <1>5
  <2>2. n < 1
    BY <1>3, <2>1
  <2> QED BY <1>1, <2>2 DEF n
<1> QED BY <1>4, <1>5 DEF m, s

\* What a call gives its caller: what it would give without an answer, or the
\* body of a good reply.
LEMMA Given ==
  ASSUME NEW b, NEW r
  PROVE  /\ FetchPncpPage(b, r).result.value = [items |-> <<>>, total |-> 0]
              \/ (r.kind = "ok" /\ FetchPncpPage(b, r).result.value = r.body)
         /\ FetchCagedApi(b, r).result.value = <<>>
              \/ (r.kind = "ok" /\ FetchCagedApi(b, r).result.value = r.body)
         /\ FetchSiconfiApi(b, r).result.value = <<>>
              \/ (r.kind = "ok" /\ FetchSiconfiApi(b, r).result.value = r.body)
         /\ FetchMunicipios(b, r).result.value = <<>>
              \/ (r.kind = "ok" /\ FetchMunicipios(b, r).result.value = r.body)
<1>0. ASSUME NEW none, NEW f, f.result = Value(none) \/ f.result = Value(Body(r, none))
      PROVE  f.result.value = none \/ (r.kind = "ok" /\ f.result.value = r.body)
  BY <1>0 DEF Value, Body
<1>1. FetchPncpPage(b, r).result.value = [items |-> <<>>, total |-> 0]
        \/ (r.kind = "ok" /\ FetchPncpPage(b, r).result.value = r.body)
  <2>1. FetchPncpPage(b, r).result = Value([items |-> <<>>, total |-> 0]) \/ FetchPncpPage(b, r).result = Value(Body(r, [items |-> <<>>, total |-> 0]))
    BY DEF FetchPncpPage, Through
  <2> QED BY <1>0, <2>1
<1>2. FetchCagedApi(b, r).result.value = <<>>
        \/ (r.kind = "ok" /\ FetchCagedApi(b, r).result.value = r.body)
  <2>1. FetchCagedApi(b, r).result = Value(<<>>) \/ FetchCagedApi(b, r).result = Value(Body(r, <<>>))
    BY DEF FetchCagedApi, Through
  <2> QED BY <1>0, <2>1
<1>3. FetchSiconfiApi(b, r).result.value = <<>>
        \/ (r.kind = "ok" /\ FetchSiconfiApi(b, r).result.value = r.body)
  <2>1. FetchSiconfiApi(b, r).result = Value(<<>>) \/ FetchSiconfiApi(b, r).result = Value(Body(r, <<>>))
    BY DEF FetchSiconfiApi, Through
  <2> QED BY <1>0, <2>1
<1>4. FetchMunicipios(b, r).result.value = <<>>
        \/ (r.kind = "ok" /\ FetchMunicipios(b, r).result.value = r.body)
  <2>1. FetchMunicipios(b, r).result = Value(<<>>) \/ FetchMunicipios(b, r).result = Value(Body(r, <<>>))
    BY DEF FetchMunicipios, Through
  <2> QED BY <1>0, <2>1
<1> QED BY <1>1, <1>2, <1>3, <1>4

(* A good reply has one of the bodies.                                     *)
LEMMA GoodReply ==
  ASSUME NEW bodies, NEW r \in Replies(bodies), r.kind = "ok" PROVE r.body \in bodies
BY DEF Replies, Reply

(* Whatever CAGED and SICONFI reply, what is fetched is a sequence,        *)
LEMMA RowsGiven ==
  ASSUME NEW r \in Replies(Answers), NEW b
  PROVE  IsSeq(FetchCagedApi(b, r).result.value) /\ IsSeq(FetchSiconfiApi(b, r).result.value)
<1>1. IsSeq(<<>>)
  BY ShortSequences
<1>2. ASSUME r.kind = "ok" PROVE IsSeq(r.body)
  BY <1>2, GoodReply, IngestionAssumption DEF IsSeq
<1> QED BY <1>1, <1>2, Given

(* so it is of the list of towns,                                          *)
LEMMA TownsGiven ==
  ASSUME NEW r \in Replies(KeyLists), NEW b
  PROVE  IsSeq(FetchMunicipios(b, r).result.value)
<1>1. IsSeq(<<>>)
  BY ShortSequences
<1>2. ASSUME r.kind = "ok" PROVE IsSeq(r.body)
  BY <1>2, GoodReply, IngestionAssumption DEF IsSeq
<1> QED BY <1>1, <1>2, Given

(* and of a page of PNCP.                                                  *)
LEMMA PageGiven ==
  ASSUME NEW r \in Replies(Pages), NEW b
  PROVE  /\ IsSeq(FetchPncpPage(b, r).result.value.items)
         /\ FetchPncpPage(b, r).result.value.total \in Nat
<1>1. IsSeq(<<>>)
  BY ShortSequences
<1>2. ASSUME r.kind = "ok" PROVE IsSeq(r.body.items) /\ r.body.total \in Nat
  <2>1. r.body \in Pages
    BY <1>2, GoodReply
  <2>2. PICK rows \in Answers, n \in 1..(PageLimit + 1) : r.body = [items |-> rows, total |-> n]
    BY <2>1 DEF Pages
  <2>3. n \in Nat
    BY <2>2, IngestionAssumption
  <2> QED BY <2>2, <2>3, IngestionAssumption DEF IsSeq
<1> QED BY <1>1, <1>2, Given

\* Which of the three a task in progress is.
LEMMA InLoop ==
  ASSUME JobInv, job.task \in Loops PROVE LoopJob(job) /\ job # NoJob
BY DEF JobInv, AskingJob, StoringJob, Loops, NoJob

(* The jobs that ask DATAJUD,                                              *)
LEMMA InAsking ==
  ASSUME JobInv, job.task \in {"datajud", "waiting"} PROVE AskingJob(job)
BY DEF JobInv, LoopJob, StoringJob, Loops, NoJob

(* and the one that stores.                                                *)
LEMMA InStoring ==
  ASSUME JobInv, job.task = "persist" PROVE StoringJob(job)
BY DEF JobInv, LoopJob, AskingJob, Loops, NoJob
-----------------------------------------------------------------------------
(* A loop begins with everything to do and nothing reported.               *)
LEMMA LoopBegun ==
  ASSUME NEW task \in Loops, NEW left, Begin(task, left), IsSeq(left),
         task = "pncp" => left \in Seq(Nat) /\ left # <<>>
  PROVE  LoopJob(job')
<1>1. /\ DOMAIN job' = LoopFields /\ job'.task = task /\ job'.left = left /\ job'.got = <<>>
      /\ job'.key = "none" /\ job'.in = 0 /\ job'.out = 0 /\ job'.rejected = 0 /\ job'.aside = 0
      /\ job'.pages = 0 /\ job'.total = 0 /\ job'.cut = FALSE
  BY DEF Begin, LoopFields
<1>2. Len(<<>>) = 0 /\ IsSeq(<<>>)
  BY ShortSequences
<1> QED BY <1>1, <1>2 DEF LoopJob, Counted, Balanced, Covered

(* A page of PNCP that was read, or failed, is counted,                    *)
LEMMA PageRead ==
  ASSUME JobInv, NEW r \in Replies(Pages), PncpPage(r) PROVE LoopJob(job')
<1> DEFINE page == FetchPncpPage(circuits["pncp"], r).result.value
           n == Head(job.left)
<1>1. job.task = "pncp" /\ job.got = <<>> /\ job.left # <<>>
  BY DEF PncpPage, At
<1>2. LoopJob(job)
  BY <1>1, InLoop DEF Loops
<1>3. IsSeq(page.items) /\ page.total \in Nat
  BY PageGiven
<1>4. n \in Nat
  BY <1>1, <1>2, SMTT(40) DEF LoopJob, Counted
<1>5. Len(<<>>) = 0 /\ IsSeq(<<>>) /\ <<>> \in Seq(Nat)
  BY ShortSequences
<1>6. job' = IF page.items = <<>>
             THEN [job EXCEPT !.left = <<>>, !.cut = TRUE]
             ELSE [job EXCEPT !.left = PagesLeft(n, page.total), !.got = page.items,
                              !.in = @ + Len(page.items), !.pages = n, !.total = page.total]
  BY DEF PncpPage
<1> HIDE DEF page, n
<1>7. DOMAIN job = LoopFields
  BY <1>2 DEF LoopJob
<1>8. CASE page.items = <<>>
  <2>1. /\ DOMAIN job' = LoopFields /\ job'.task = job.task /\ job'.left = <<>> /\ job'.got = job.got
        /\ job'.in = job.in /\ job'.out = job.out /\ job'.rejected = job.rejected
        /\ job'.aside = job.aside /\ job'.pages = job.pages /\ job'.total = job.total
        /\ job'.cut = TRUE
    BY <1>6, <1>7, <1>8 DEF LoopFields
  <2> QED BY <1>1, <1>2, <1>5, <2>1 DEF LoopJob, Counted, Balanced, Covered
<1>9. CASE page.items # <<>>
  <2>1. /\ DOMAIN job' = LoopFields /\ job'.task = job.task /\ job'.left = PagesLeft(n, page.total)
        /\ job'.got = page.items /\ job'.in = job.in + Len(page.items) /\ job'.out = job.out
        /\ job'.rejected = job.rejected /\ job'.aside = job.aside /\ job'.pages = n
        /\ job'.total = page.total /\ job'.cut = job.cut
    BY <1>6, <1>7, <1>9 DEF LoopFields
  <2>2. /\ IsSeq(PagesLeft(n, page.total)) /\ PagesLeft(n, page.total) \in Seq(Nat)
        /\ PagesLeft(n, page.total) = <<>> => n >= Min({page.total, PageLimit})
    BY <1>3, <1>4, PagesToRead
  <2>3. Len(page.items) \in Nat
    BY <1>3, Sequence
  <2>4. Counted(job')
    BY <1>1, <1>2, <1>3, <1>4, <2>1, <2>2, <2>3, SMTT(40) DEF LoopJob, Counted
  <2>5. Balanced(job')
    BY <1>1, <1>2, <1>5, <2>1, <2>3 DEF LoopJob, Counted, Balanced
  <2>6. Covered(job')
    BY <2>1, <2>2 DEF Covered
  <2> QED BY <1>2, <2>1, <2>4, <2>5, <2>6 DEF LoopJob
<1> QED BY <1>8, <1>9

(* so is a company of CAGED,                                               *)
LEMMA CompanyAsked ==
  ASSUME JobInv, NEW r \in Replies(Answers), CagedCompany(r) PROVE LoopJob(job')
<1> DEFINE rows == FetchCagedApi(circuits["caged"], r).result.value
<1>1. job.task = "caged" /\ job.got = <<>> /\ job.left # <<>>
  BY DEF CagedCompany, At
<1>2. LoopJob(job) /\ DOMAIN job = LoopFields
  BY <1>1, InLoop DEF Loops, LoopJob
<1>3. IsSeq(rows) /\ Len(rows) \in Nat
  BY RowsGiven, Sequence
<1>4. IsSeq(Tail(job.left)) /\ Len(<<>>) = 0
  BY <1>1, <1>2, Sequence, ShortSequences DEF LoopJob, Counted
<1>5. \/ job' = [job EXCEPT !.left = Tail(@), !.key = Head(job.left), !.got = rows,
                            !.in = @ + Len(rows)]
      \/ job' = [job EXCEPT !.left = Tail(@), !.out = @ + 1, !.aside = @ + 1]
  BY DEF CagedCompany
<1> HIDE DEF rows
<1>6. /\ DOMAIN job' = LoopFields /\ job'.task = job.task /\ job'.left = Tail(job.left)
      /\ job'.rejected = job.rejected /\ job'.pages = job.pages /\ job'.total = job.total
      /\ \/ /\ job'.got = rows /\ job'.in = job.in + Len(rows)
            /\ job'.out = job.out /\ job'.aside = job.aside
         \/ /\ job'.got = job.got /\ job'.in = job.in
            /\ job'.out = job.out + 1 /\ job'.aside = job.aside + 1
  BY <1>2, <1>5 DEF LoopFields
<1>7. Counted(job')
  BY <1>1, <1>2, <1>3, <1>4, <1>6, SMTT(40) DEF LoopJob, Counted
<1>8. Balanced(job')
  <2>1. /\ job.out + job.rejected = job.in + job.aside
        /\ job.out \in Nat /\ job.rejected \in Nat /\ job.in \in Nat /\ job.aside \in Nat
    BY <1>1, <1>2, <1>4 DEF LoopJob, Counted, Balanced
  <2>2. job'.out + job'.rejected + Len(job'.got) = job'.in + job'.aside
    <3>1. ASSUME job'.got = rows, job'.in = job.in + Len(rows),
                 job'.out = job.out, job'.aside = job.aside
          PROVE  job'.out + job'.rejected + Len(job'.got) = job'.in + job'.aside
      BY <1>3, <1>6, <2>1, <3>1
    <3>2. ASSUME job'.got = job.got, job'.in = job.in,
                 job'.out = job.out + 1, job'.aside = job.aside + 1
          PROVE  job'.out + job'.rejected + Len(job'.got) = job'.in + job'.aside
      <4>1. Len(job'.got) = 0
        BY <1>1, <1>4, <3>2
      <4>2. job'.rejected = job.rejected
        BY <1>6
      <4>3. job'.out + job'.rejected = job'.in + job'.aside
        BY <2>1, <3>2, <4>2
      <4> QED BY <2>1, <3>2, <4>1, <4>2, <4>3
    <3> QED BY <1>6, <3>1, <3>2
  <2> QED BY <1>1, <1>6, <2>2 DEF Balanced
<1> QED BY <1>1, <1>2, <1>6, <1>7, <1>8 DEF LoopJob, Covered

(* a year of SICONFI,                                                      *)
LEMMA YearAsked ==
  ASSUME JobInv, NEW r \in Replies(Answers), SiconfiYear(r) PROVE job' = NoJob \/ LoopJob(job')
<1> DEFINE rows == FetchSiconfiApi(circuits["siconfi"], r).result.value
<1>1. job.task = "siconfi" /\ job.got = <<>> /\ job.left # <<>>
  BY DEF SiconfiYear, At
<1>2. LoopJob(job) /\ DOMAIN job = LoopFields
  BY <1>1, InLoop DEF Loops, LoopJob
<1>3. IsSeq(rows) /\ Len(rows) \in Nat
  BY RowsGiven, Sequence
<1>4. IsSeq(<<>>) /\ Len(<<>>) = 0
  BY ShortSequences
<1>5. \/ job' = NoJob
      \/ job' = [job EXCEPT !.left = <<>>, !.key = Head(job.left), !.got = rows, !.in = Len(rows)]
  BY DEF SiconfiYear
<1> HIDE DEF rows
<1> SUFFICES ASSUME job' # NoJob PROVE LoopJob(job')
  OBVIOUS
<1>6. /\ DOMAIN job' = LoopFields /\ job'.task = job.task /\ job'.left = <<>>
      /\ job'.rejected = job.rejected /\ job'.pages = job.pages /\ job'.total = job.total
      /\ job'.got = rows /\ job'.in = Len(rows) /\ job'.out = job.out /\ job'.aside = job.aside
  BY <1>2, <1>5 DEF LoopFields
<1>7. Counted(job')
  BY <1>1, <1>2, <1>3, <1>4, <1>6 DEF LoopJob, Counted
<1>8. job.out = 0 /\ job.rejected = 0
  BY <1>1, <1>2, <1>4 DEF LoopJob, Counted, Balanced
<1>9. Balanced(job')
  BY <1>1, <1>3, <1>6, <1>8 DEF Balanced
<1> QED BY <1>1, <1>2, <1>6, <1>7, <1>9 DEF LoopJob, Covered

(* the towns of a state,                                                   *)
LEMMA StateListed ==
  ASSUME JobInv, NEW r \in Replies(KeyLists), IbgeState(r) PROVE LoopJob(job')
<1> DEFINE towns == FetchMunicipios(circuits["ibge"], r).result.value
<1>1. job.task = "ibge" /\ job.got = <<>> /\ job.left # <<>> /\ job.key = "none"
  BY DEF IbgeState, At
<1>2. LoopJob(job) /\ DOMAIN job = LoopFields
  BY <1>1, InLoop DEF Loops, LoopJob
<1>3. IsSeq(towns) /\ Len(towns) \in Nat /\ Len(<<>>) = 0
  BY TownsGiven, Sequence, ShortSequences
<1>4. job' = [job EXCEPT !.left = towns, !.key = "uf", !.in = Len(towns)]
  BY DEF IbgeState
<1> HIDE DEF towns
<1>5. /\ DOMAIN job' = LoopFields /\ job'.task = job.task /\ job'.left = towns /\ job'.key = "uf"
      /\ job'.got = job.got /\ job'.in = Len(towns) /\ job'.out = job.out
      /\ job'.rejected = job.rejected /\ job'.aside = job.aside
      /\ job'.pages = job.pages /\ job'.total = job.total
  BY <1>2, <1>4 DEF LoopFields
<1>6. Counted(job')
  BY <1>1, <1>2, <1>3, <1>5 DEF LoopJob, Counted
<1>7. Balanced(job')
  BY <1>1, <1>2, <1>3, <1>5 DEF LoopJob, Balanced
<1> QED BY <1>1, <1>2, <1>5, <1>6, <1>7 DEF LoopJob, Covered

(* a town of IBGE,                                                         *)
LEMMA TownAsked ==
  ASSUME JobInv, NEW r, IbgeTown(r) PROVE LoopJob(job')
<1> DEFINE row == TownRow(Head(job.left), FetchPopulacao(circuits["ibge"], r).result.value)
<1>1. job.task = "ibge" /\ job.got = <<>> /\ job.left # <<>> /\ job.key = "uf"
  BY DEF IbgeTown, At
<1>2. LoopJob(job) /\ DOMAIN job = LoopFields
  BY <1>1, InLoop DEF Loops, LoopJob
<1>3. job' = [job EXCEPT !.left = Tail(@), !.got = <<row>>]
  BY DEF IbgeTown
<1> HIDE DEF row
<1>4. /\ IsSeq(<<row>>) /\ Len(<<row>>) = 1 /\ Len(<<>>) = 0
      /\ IsSeq(Tail(job.left)) /\ Len(Tail(job.left)) + 1 = Len(job.left)
      /\ Len(job.left) \in Nat /\ Len(Tail(job.left)) \in Nat
  BY <1>1, <1>2, Sequence, ShortSequences DEF LoopJob, Counted
<1>5. /\ DOMAIN job' = LoopFields /\ job'.task = job.task /\ job'.left = Tail(job.left)
      /\ job'.key = "uf" /\ job'.got = <<row>> /\ job'.in = job.in /\ job'.out = job.out
      /\ job'.rejected = job.rejected /\ job'.aside = job.aside
      /\ job'.pages = job.pages /\ job'.total = job.total
  BY <1>1, <1>2, <1>3 DEF LoopFields
<1>6. Counted(job')
  BY <1>1, <1>2, <1>4, <1>5 DEF LoopJob, Counted
<1>7. Balanced(job')
  BY <1>1, <1>2, <1>4, <1>5, SMTT(40) DEF LoopJob, Counted, Balanced
<1> QED BY <1>1, <1>2, <1>5, <1>6, <1>7 DEF LoopJob, Covered

(* a company of Receita,                                                   *)
LEMMA CompanyLooked ==
  ASSUME JobInv, NEW r, ReceitaCompany(r) PROVE job' = NoJob \/ LoopJob(job')
<1>1. job.task = "receita" /\ job.left # <<>>
  BY DEF ReceitaCompany, At
<1>2. LoopJob(job) /\ DOMAIN job = LoopFields
  BY <1>1, InLoop DEF Loops, LoopJob
<1>3. \/ job' = NoJob
      \/ job' = [job EXCEPT !.left = Tail(@), !.out = @ + 1, !.in = @ + 1]
      \/ job' = [job EXCEPT !.left = Tail(@), !.rejected = @ + 1, !.in = @ + 1]
      \/ job' = [job EXCEPT !.left = Tail(@), !.in = @ + 1, !.aside = @ + 1]
  BY DEF ReceitaCompany
<1> SUFFICES ASSUME job' # NoJob PROVE LoopJob(job')
  OBVIOUS
<1>4. IsSeq(Tail(job.left))
  BY <1>1, <1>2, Sequence DEF LoopJob, Counted
<1>5. /\ DOMAIN job' = LoopFields /\ job'.task = job.task /\ job'.left = Tail(job.left)
      /\ job'.got = job.got /\ job'.in = job.in + 1
      /\ job'.pages = job.pages /\ job'.total = job.total
      /\ \/ job'.out = job.out + 1 /\ job'.rejected = job.rejected /\ job'.aside = job.aside
         \/ job'.out = job.out /\ job'.rejected = job.rejected + 1 /\ job'.aside = job.aside
         \/ job'.out = job.out /\ job'.rejected = job.rejected /\ job'.aside = job.aside + 1
  BY <1>2, <1>3 DEF LoopFields
<1>6. Counted(job')
  BY <1>1, <1>2, <1>4, <1>5, SMTT(40) DEF LoopJob, Counted
<1>7. job'.out + job'.rejected + job'.aside = job'.in /\ job'.got = <<>>
  <2>1. /\ job.out \in Nat /\ job.rejected \in Nat /\ job.aside \in Nat /\ job.in \in Nat
        /\ job.out + job.rejected + job.aside = job.in /\ job.got = <<>>
    BY <1>1, <1>2 DEF LoopJob, Counted, Balanced
  <2>2. job'.out + job'.rejected + job'.aside = job.out + job.rejected + job.aside + 1
    <3>1. CASE job'.out = job.out + 1 /\ job'.rejected = job.rejected /\ job'.aside = job.aside
      BY <2>1, <3>1
    <3>2. CASE job'.out = job.out /\ job'.rejected = job.rejected + 1 /\ job'.aside = job.aside
      BY <2>1, <3>2, SMTT(40)
    <3>3. CASE job'.out = job.out /\ job'.rejected = job.rejected /\ job'.aside = job.aside + 1
      BY <2>1, <3>3
    <3> QED BY <1>5, <3>1, <3>2, <3>3
  <2> QED BY <1>5, <2>1, <2>2
<1>8. Balanced(job')
  BY <1>1, <1>5, <1>7 DEF Balanced
<1> QED BY <1>1, <1>2, <1>5, <1>6, <1>8 DEF LoopJob, Covered

(* and a row that is stored.                                               *)
LEMMA RowKept ==
  ASSUME JobInv, KeepRow PROVE LoopJob(job')
<1>1. job.task \in {"pncp", "caged", "siconfi", "ibge"} /\ job.got # <<>>
  BY DEF KeepRow
<1>2. LoopJob(job) /\ DOMAIN job = LoopFields
  BY <1>1, InLoop DEF Loops, LoopJob
<1>3. \/ job' = [job EXCEPT !.got = Tail(@), !.out = @ + 1]
      \/ job' = [job EXCEPT !.got = Tail(@), !.rejected = @ + 1]
  <2>1. PICK good \in BOOLEAN :
          job' = [job EXCEPT !.got = Tail(@), !.out = IF good THEN @ + 1 ELSE @,
                             !.rejected = IF good THEN @ ELSE @ + 1]
    <3> DEFINE row == Head(job.got)
               good == IF job.task = "ibge" THEN IbgeAccepts(row) ELSE row.ok
    <3>1. job' = [job EXCEPT !.got = Tail(@), !.out = IF good THEN @ + 1 ELSE @,
                             !.rejected = IF good THEN @ ELSE @ + 1]
      BY DEF KeepRow
    <3> HIDE DEF good
    <3> QED BY <3>1
  <2> QED BY <1>2, <2>1 DEF LoopFields
<1>4. /\ IsSeq(Tail(job.got)) /\ Len(Tail(job.got)) + 1 = Len(job.got)
      /\ Len(job.got) \in Nat /\ Len(Tail(job.got)) \in Nat
  BY <1>1, <1>2, Sequence DEF LoopJob, Counted
<1>5. /\ DOMAIN job' = LoopFields /\ job'.task = job.task /\ job'.left = job.left
      /\ job'.key = job.key /\ job'.got = Tail(job.got) /\ job'.in = job.in
      /\ job'.aside = job.aside /\ job'.pages = job.pages /\ job'.total = job.total
      /\ job'.cut = job.cut
      /\ \/ job'.out = job.out + 1 /\ job'.rejected = job.rejected
         \/ job'.out = job.out /\ job'.rejected = job.rejected + 1
  BY <1>2, <1>3 DEF LoopFields
<1>6. Counted(job')
  BY <1>1, <1>2, <1>4, <1>5 DEF LoopJob, Counted
<1>7. job'.out + job'.rejected + Len(job'.got) = job.out + job.rejected + Len(job.got)
  <2>1. job.out \in Nat /\ job.rejected \in Nat
    BY <1>2 DEF LoopJob, Counted
  <2>2. CASE job'.out = job.out + 1 /\ job'.rejected = job.rejected
    BY <1>4, <1>5, <2>1, <2>2
  <2>3. CASE job'.out = job.out /\ job'.rejected = job.rejected + 1
    BY <1>4, <1>5, <2>1, <2>3
  <2> QED BY <1>5, <2>2, <2>3
<1>8. Balanced(job')
  <2>1. CASE job.task = "ibge"
    <3>1. /\ job.key # "none"
          /\ job.out + job.rejected + Len(job.got) + Len(job.left) = job.in
      BY <1>1, <1>2, <2>1 DEF LoopJob, Balanced
    <3> QED BY <1>5, <1>7, <2>1, <3>1 DEF Balanced
  <2>2. CASE job.task # "ibge"
    BY <1>1, <1>2, <1>5, <1>7, <2>2 DEF LoopJob, Balanced
  <2> QED BY <2>1, <2>2
<1> QED BY <1>1, <1>2, <1>5, <1>6, <1>8 DEF LoopJob, Covered

\* A task of DATAJUD that begins, or begins again.
LEMMA DatajudBegun ==
  ASSUME clock \in Nat, NEW date \in {NoDate, 1}, DatajudBegins(date) PROVE AskingJob(job)'
<1>1. Day \in Int /\ Day' = Day
  BY IngestionAssumption DEF Day, DatajudBegins
<1>2. DateOf(date, 0) = IF date = NoDate THEN Day - 1 ELSE date
  BY DEF DateOf
<1>3. /\ DOMAIN job' = {"task", "date", "due", "day", "tries", "at"} /\ job'.task = "datajud"
      /\ job'.date = date /\ job'.due = DateOf(date, 0) /\ job'.day = DateOf(date, 0)
      /\ job'.tries = 0
  BY DEF DatajudBegins
<1> HIDE DEF Day
<1> QED BY <1>1, <1>2, <1>3 DEF AskingJob, Dated, NoDate

(* A retry of DATAJUD keeps or loses its day as its message does.          *)
LEMMA DatajudRetried ==
  ASSUME clock \in Nat, JobInv, DatajudAgain PROVE AskingJob(job)'
<1>1. Day \in Int /\ Day' = Day
  BY IngestionAssumption DEF Day, DatajudAgain
<1>2. DateOf(job.date, job.tries) = IF job.date = NoDate THEN Day - 1 ELSE job.date
  BY DEF DateOf
<1>3. AskingJob(job) /\ job.task = "waiting"
  BY InAsking DEF DatajudAgain
<1>4. /\ DOMAIN job' = DOMAIN job /\ job'.task = "datajud" /\ job'.date = job.date
      /\ job'.due = job.due /\ job'.day = DateOf(job.date, job.tries) /\ job'.tries = job.tries
  BY <1>3 DEF DatajudAgain, AskingJob
<1> HIDE DEF Day
<1> QED BY <1>1, <1>2, <1>3, <1>4 DEF AskingJob, Dated, NoDate

(* A reply of DATAJUD leads to the stores, to a retry or to the end.       *)
LEMMA DatajudAnswered ==
  ASSUME clock \in Nat, JobInv, NEW r, DatajudFetch(r)
  PROVE  job' = NoJob \/ AskingJob(job)' \/ StoringJob(job)'
<1>1. Day' = Day
  BY DEF Day, DatajudFetch
<1>2. AskingJob(job) /\ job.task = "datajud"
  BY InAsking DEF DatajudFetch
<1>3. PICK rows :
        \/ job' = NoJob \/ job' = Loaded(rows)
        \/ job' = [job EXCEPT !.task = "waiting", !.tries = @ + 1, !.at = clock + 1]
  BY DEF DatajudFetch
<1>4. ASSUME job' = Loaded(rows) PROVE StoringJob(job)'
  <2>1. /\ DOMAIN job' = {"task", "day", "date", "due", "tries", "rows", "in", "stores", "errors"}
        /\ job'.task = "persist" /\ job'.day = job.day /\ job'.date = job.date
        /\ job'.due = job.due /\ job'.tries = job.tries /\ job'.stores = Stores
    BY <1>4 DEF Loaded
  <2>2. Dated(job)'
    BY <1>1, <1>2, <2>1 DEF AskingJob, Dated
  <2>3. "minio" \in Range(Stores) /\ "neo4j" \in Range(Stores)
    <3>1. Stores[1] = "minio" /\ Stores[3] = "neo4j" /\ 1 \in DOMAIN Stores /\ 3 \in DOMAIN Stores
      BY DEF Stores
    <3> QED BY <3>1 DEF Range
  <2> QED BY <2>1, <2>2, <2>3 DEF StoringJob, Passed, Left3
<1>5. ASSUME job' = [job EXCEPT !.task = "waiting", !.tries = @ + 1, !.at = clock + 1]
      PROVE  AskingJob(job)'
  <2>1. /\ DOMAIN job' = DOMAIN job /\ job'.task = "waiting" /\ job'.date = job.date
        /\ job'.due = job.due /\ job'.day = job.day /\ job'.tries = job.tries + 1
    BY <1>2, <1>5 DEF AskingJob
  <2> HIDE DEF Day
  <2> QED BY <1>1, <1>2, <2>1 DEF AskingJob, Dated
<1> QED BY <1>3, <1>4, <1>5

Grown == DOMAIN archive' = ArchiveStores /\ \A s \in ArchiveStores : archive[s] \subseteq archive'[s]

(* What is written stays in the archive.                                   *)
LEMMA Writing ==
  ASSUME DOMAIN archive = ArchiveStores, NEW s \in ArchiveStores, NEW rows, Written(s, rows)
  PROVE  Grown /\ \A r \in rows : [day |-> job.day, id |-> r.id] \in archive'[s]
<1> DEFINE docs == {[day |-> job.day, id |-> r.id] : r \in rows}
<1>1. archive' = [archive EXCEPT ![s] = @ \cup docs]
  BY DEF Written
<1>2. \A r \in rows : [day |-> job.day, id |-> r.id] \in docs
  OBVIOUS
<1> HIDE DEF docs
<1>3. DOMAIN archive' = ArchiveStores /\ archive'[s] = archive[s] \cup docs
      /\ \A t \in ArchiveStores \ {s} : archive'[t] = archive[t]
  BY <1>1
<1> QED BY <1>2, <1>3 DEF Grown

\* Which stores are left once one more was passed.
LEMMA StoresLeft ==
  ASSUME NEW left \in Left3, left # <<>>
  PROVE  /\ Head(left) \in ArchiveStores /\ Tail(left) \in Left3
         /\ Range(left) = {Head(left)} \cup Range(Tail(left))
<1>1. /\ Range(Stores) = {"minio", "opensearch", "neo4j"}
      /\ Range(<<"opensearch", "neo4j">>) = {"opensearch", "neo4j"}
      /\ Range(<<"neo4j">>) = {"neo4j"}
  <2>1. Range(Stores) = {"minio", "opensearch", "neo4j"}
    <3>1. DOMAIN Stores = {1, 2, 3} /\ Stores[1] = "minio" /\ Stores[2] = "opensearch"
          /\ Stores[3] = "neo4j"
      BY DEF Stores
    <3> QED BY <3>1 DEF Range
  <2>2. Range(<<"opensearch", "neo4j">>) = {"opensearch", "neo4j"}
    <3> DEFINE t == <<"opensearch", "neo4j">>
    <3>1. DOMAIN t = {1, 2} /\ t[1] = "opensearch" /\ t[2] = "neo4j"
      OBVIOUS
    <3> HIDE DEF t
    <3>2. Range(t) = {"opensearch", "neo4j"}
      BY <3>1 DEF Range
    <3> QED BY <3>2 DEF t
  <2>3. Range(<<"neo4j">>) = {"neo4j"}
    BY DEF Range
  <2> QED BY <2>1, <2>2, <2>3
<1>2. Range(<<>>) = {}
  BY DEF Range
<1>3. CASE left = Stores
  <2>1. Head(left) = "minio" /\ Tail(left) = <<"opensearch", "neo4j">>
    BY <1>3 DEF Stores
  <2> QED BY <1>1, <1>3, <2>1 DEF Left3, ArchiveStores
<1>4. CASE left = <<"opensearch", "neo4j">>
  <2>1. Head(left) = "opensearch" /\ Tail(left) = <<"neo4j">>
    BY <1>4
  <2> QED BY <1>1, <1>4, <2>1 DEF Left3, ArchiveStores
<1>5. CASE left = <<"neo4j">>
  <2>1. Head(left) = "neo4j" /\ Tail(left) = <<>>
    BY <1>5
  <2> QED BY <1>1, <1>2, <1>5, <2>1 DEF Left3, ArchiveStores
<1> QED BY <1>3, <1>4, <1>5 DEF Left3

(* A store that is passed has the rows, or is named.                       *)
LEMMA StorePassed ==
  ASSUME JobInv, DOMAIN archive = ArchiveStores, NEW o \in {"ok", "partly", "fails"}, StoreNext(o),
         clock' = clock
  PROVE  StoringJob(job)' /\ Grown
<1> DEFINE s == Head(job.stores)
           rows == Range(job.rows)
<1>1. StoringJob(job) /\ job.stores # <<>>
  BY InStoring DEF StoreNext
<1>2. /\ s \in ArchiveStores /\ Tail(job.stores) \in Left3
      /\ Range(job.stores) = {s} \cup Range(Tail(job.stores))
  BY <1>1, StoresLeft DEF StoringJob
<1>3. /\ DOMAIN job' = DOMAIN job /\ job'.task = job.task /\ job'.day = job.day
      /\ job'.date = job.date /\ job'.due = job.due /\ job'.tries = job.tries
      /\ job'.rows = job.rows /\ job'.stores = Tail(job.stores)
      /\ job'.errors = IF o = "fails" THEN job.errors \cup {s} ELSE job.errors
  <2>1. job' = [job EXCEPT !.stores = Tail(@),
                           !.errors = IF o = "fails" THEN @ \cup {s} ELSE @]
    BY DEF StoreNext
  <2> QED BY <1>1, <2>1 DEF StoringJob
<1>4. /\ o = "ok" => Written(s, rows)
      /\ o = "partly" => s = "opensearch" /\ \E kept \in SUBSET rows : Written(s, kept)
      /\ o = "fails" => archive' = archive
  BY DEF StoreNext
<1> HIDE DEF s, rows
<1>5. Grown
  BY <1>2, <1>4, Writing DEF Grown
<1>6. o = "ok" => \A r \in rows : [day |-> job.day, id |-> r.id] \in archive'[s]
  BY <1>2, <1>4, Writing
<1>7. Passed(job)'
  <2> SUFFICES ASSUME NEW t \in {"minio", "neo4j"}
               PROVE  t \in Range(job'.stores) \/ t \in job'.errors \/ Held(job, t)'
    BY DEF Passed
  <2>1. t \in Range(job.stores) \/ t \in job.errors \/ Held(job, t)
    BY <1>1 DEF StoringJob, Passed
  <2>2. Held(job, t) => Held(job, t)'
    BY <1>3, <1>5 DEF Held, Grown, ArchiveStores
  <2>3. t = s /\ o = "ok" => Held(job, t)'
    BY <1>3, <1>6 DEF Held, rows
  <2>4. t = s /\ o = "fails" => t \in job'.errors
    BY <1>3
  <2>5. t = s => o # "partly"
    BY <1>4
  <2>6. t \in job.errors => t \in job'.errors
    BY <1>3
  <2> QED BY <1>2, <1>3, <2>1, <2>2, <2>3, <2>4, <2>5, <2>6
<1>8. Dated(job)'
  BY <1>1, <1>3 DEF StoringJob, Dated, Day
<1> QED BY <1>1, <1>2, <1>3, <1>5, <1>7, <1>8 DEF StoringJob

\* The day goes on.
LEMMA DayGoesOn ==
  ASSUME clock \in Nat, clock' = clock + 1 PROVE Day \in Int /\ Day' \in Int /\ Day <= Day'
<1>1. DayLength \in Nat /\ DayLength > 0
  BY IngestionAssumption
<1> DEFINE q == clock \div DayLength
           p == (clock + 1) \div DayLength
<1>2. q \in Int /\ p \in Int
  BY <1>1
<1>3. q <= p
  BY <1>1
<1>4. Day = 1 + q /\ Day' = 1 + p
  BY DEF Day
<1> QED BY <1>2, <1>3, <1>4
-----------------------------------------------------------------------------
(* A report stays true while the archive only grows.                       *)
LEMMA ReportStays ==
  ASSUME ReportTrue, report' = report, Grown PROVE ReportTrue'
<1>1. ReportAddsUp' /\ YearCovered' /\ DayAsked'
  BY DEF ReportTrue, ReportAddsUp, YearCovered, DayAsked
<1>2. StoredOrNamed'
  BY DEF ReportTrue, StoredOrNamed, Grown, ArchiveStores
<1> QED BY <1>1, <1>2 DEF ReportTrue

(* The report of a loop is true,                                           *)
LEMMA LoopReported ==
  ASSUME JobInv, Report PROVE ReportTrue'
<1>1. /\ job.task \in Loops /\ job.got = <<>> /\ job.left = <<>>
      /\ report' = With(job, "loss", Reconcile(job.in, job.out))
  BY DEF Report
<1>2. LoopJob(job)
  BY <1>1, InLoop
<1>3. /\ report'.task = job.task /\ report'.in = job.in /\ report'.out = job.out
      /\ report'.rejected = job.rejected /\ report'.aside = job.aside
      /\ report'.pages = job.pages /\ report'.total = job.total /\ report'.cut = job.cut
      /\ report'.loss = Reconcile(job.in, job.out)
  BY <1>1, <1>2 DEF With, LoopJob, LoopFields
<1>4. /\ job.in \in Nat /\ job.out \in Nat /\ job.rejected \in Nat /\ job.aside \in Nat
      /\ Len(job.got) = 0 /\ Len(job.left) = 0
  BY <1>1, <1>2, ShortSequences DEF LoopJob, Counted
<1>5. /\ job.task \in {"pncp", "siconfi", "ibge"} => job.out + job.rejected = job.in
      /\ job.task = "caged" => job.out + job.rejected = job.in + job.aside
      /\ job.task = "receita" => job.out + job.rejected + job.aside = job.in
  <2>1. job.task \in {"pncp", "siconfi"} => job.out + job.rejected = job.in
    BY <1>2, <1>4 DEF LoopJob, Balanced
  <2>2. job.task = "ibge" => job.out + job.rejected = job.in
    <3>1. CASE job.key = "none"
      BY <1>2, <3>1 DEF LoopJob, Balanced
    <3>2. CASE job.key # "none"
      BY <1>2, <1>4, <3>2 DEF LoopJob, Balanced
    <3> QED BY <3>1, <3>2
  <2>3. job.task = "caged" => job.out + job.rejected = job.in + job.aside
    BY <1>2, <1>4 DEF LoopJob, Balanced
  <2>4. job.task = "receita" => job.out + job.rejected + job.aside = job.in
    BY <1>2 DEF LoopJob, Balanced
  <2> QED BY <2>1, <2>2, <2>3, <2>4
<1>6. job.out + job.rejected =
        CASE job.task = "receita" -> job.in - job.aside
          [] job.task = "caged" -> job.in + job.aside
          [] OTHER -> job.in
  <2>1. CASE job.task = "receita"
    BY <1>4, <1>5, <2>1
  <2>2. CASE job.task = "caged"
    BY <1>4, <1>5, <2>2
  <2>3. CASE job.task \in {"pncp", "siconfi", "ibge"}
    BY <1>4, <1>5, <2>3
  <2> QED BY <1>1, <2>1, <2>2, <2>3 DEF Loops
<1>7. ASSUME job.rejected = 0, job.aside = 0 PROVE Reconcile(job.in, job.out) = 0
  <2>1. job.in = job.out
    BY <1>1, <1>4, <1>5, <1>7 DEF Loops
  <2>2. ((job.in - job.out) * 10000) = 0
    BY <1>4, <2>1
  <2>3. job.in > 0 => 0 \div job.in = 0
    BY <1>4
  <2> QED BY <1>4, <2>2, <2>3 DEF Reconcile
<1>8. ReportAddsUp'
  BY <1>3, <1>6, <1>7 DEF ReportAddsUp
<1>9. YearCovered'
  BY <1>1, <1>2, <1>3 DEF YearCovered, LoopJob, Covered
<1>10. StoredOrNamed' /\ DayAsked'
  BY <1>1, <1>3 DEF StoredOrNamed, DayAsked, Loops
<1> QED BY <1>8, <1>9, <1>10 DEF ReportTrue

(* so is that of a day of DATAJUD.                                         *)
LEMMA DayReported ==
  ASSUME JobInv, ReportTrue, DatajudReport PROVE ReportTrue'
<1>1. report' = report \/ report' = job
  BY DEF DatajudReport
<1>2. job.task = "persist" /\ job.stores = <<>> /\ archive' = archive
  BY DEF DatajudReport
<1>3. StoringJob(job)
  BY <1>2, InStoring
<1>4. ASSUME report' = job PROVE ReportTrue'
  <2>1. ReportAddsUp' /\ YearCovered'
    BY <1>2, <1>4 DEF ReportAddsUp, YearCovered, Loops
  <2>2. DayAsked'
    BY <1>3, <1>4 DEF DayAsked, StoringJob, Dated
  <2>3. Range(job.stores) = {}
    BY <1>2 DEF Range
  <2>4. StoredOrNamed'
    BY <1>2, <1>3, <1>4, <2>3 DEF StoredOrNamed, StoringJob, Passed, Held
  <2> QED BY <2>1, <2>2, <2>4 DEF ReportTrue
<1>5. ASSUME report' = report PROVE ReportTrue'
  BY <1>2, <1>5 DEF ReportTrue, ReportAddsUp, YearCovered, StoredOrNamed, DayAsked
<1> QED BY <1>1, <1>4, <1>5

(* An entry that comes from a reply comes from no failure.                 *)
LEMMA EntryAdded ==
  ASSUME NoEntryFromFailure, NEW key, NEW v, redis' = Cached(key, v),
         key[1] = "ibge" => v.year # NoPoint.year
  PROVE  NoEntryFromFailure'
BY DEF NoEntryFromFailure, Cached, With

(* No step of a task adds another one.                                     *)
LEMMA EntriesKept ==
  ASSUME NoEntryFromFailure, IngestNext PROVE NoEntryFromFailure'
<1>1. CASE redis' = redis
  BY <1>1 DEF NoEntryFromFailure
<1>2. ASSUME NEW key, KeyGone(key) PROVE NoEntryFromFailure'
  <2>1. redis' = [k \in DOMAIN redis \ {key} |-> redis[k]]
    BY <1>2 DEF KeyGone
  <2> QED BY <2>1 DEF NoEntryFromFailure
<1>3. CASE KeepRow
  <2> DEFINE row == Head(job.got)
             key == CASE job.task = "pncp" -> <<"pncp", row.id>>
                      [] job.task = "ibge" -> <<"ibge", row.town>>
                      [] OTHER -> <<job.task, job.key>>
  <2>1. /\ job.task \in {"pncp", "caged", "siconfi", "ibge"}
        /\ redis' = redis \/ redis' = Cached(key, row)
        /\ (job.task = "ibge" /\ ~ IbgeAccepts(row)) => redis' = redis
    BY <1>3 DEF KeepRow
  <2>2. key[1] = job.task
    BY <2>1
  <2> HIDE DEF key, row
  <2>3. IbgeAccepts(row) => row.year # NoPoint.year
    BY DEF IbgeAccepts, NoPoint
  <2> QED BY <1>1, <2>1, <2>2, <2>3, EntryAdded
<1>4. CASE Report
  <2>1. redis' = redis \/ redis' = Cached(<<"siconfi", job.key>>, job.out)
    BY <1>4 DEF Report
  <2>2. <<"siconfi", job.key>>[1] # "ibge"
    OBVIOUS
  <2> QED BY <1>1, <2>1, <2>2, EntryAdded
<1>5. ASSUME NEW r, DatajudFetch(r) PROVE NoEntryFromFailure'
  <2>1. PICK v : redis' = redis \/ redis' = Cached(<<"datajud", job.day>>, v)
    BY <1>5 DEF DatajudFetch
  <2>2. <<"datajud", job.day>>[1] # "ibge"
    OBVIOUS
  <2> QED BY <1>1, <2>1, <2>2, EntryAdded
<1>6. ASSUME NEW r, ReceitaCompany(r) PROVE NoEntryFromFailure'
  <2>1. PICK v : redis' = redis \/ redis' = Cached(<<"receita", Head(job.left)>>, v)
    BY <1>6 DEF ReceitaCompany
  <2>2. <<"receita", Head(job.left)>>[1] # "ibge"
    OBVIOUS
  <2> QED BY <1>1, <2>1, <2>2, EntryAdded
<1>7. CASE Begins
  BY <1>1, <1>7 DEF Begins, Begin, DatajudBegins
<1>8. ASSUME NEW r, PncpPage(r) \/ CagedCompany(r) \/ SiconfiYear(r) \/ IbgeState(r) \/ IbgeTown(r)
      PROVE  NoEntryFromFailure'
  BY <1>1, <1>8 DEF PncpPage, CagedCompany, SiconfiYear, IbgeState, IbgeTown
<1>9. CASE (\E o \in {"ok", "partly", "fails"} : StoreNext(o)) \/ DatajudAgain \/ DatajudReport
  BY <1>1, <1>9 DEF StoreNext, DatajudAgain, DatajudReport
<1>10. CASE TaskGone \/ ProcessReplaced \/ HourPasses
  BY <1>1, <1>10 DEF TaskGone, ProcessReplaced, HourPasses, ingestVars
<1> QED
  BY <1>2, <1>3, <1>4, <1>5, <1>6, <1>7, <1>8, <1>9, <1>10 DEF IngestNext, Goes

(* A step of something else keeps what is said of the job.                 *)
LEMMA JobStays ==
  ASSUME JobInv, UNCHANGED <<clock, job, archive>> PROVE JobInv'
<1>1. Dated(job) => Dated(job)'
  BY DEF Dated, Day
<1> QED BY <1>1 DEF JobInv, AskingJob, StoringJob, Passed, Held

\* What a task in progress becomes, and what its report tells.
LEMMA TaskKept ==
  ASSUME clock \in Nat, ReportsInv, IngestNext
  PROVE  JobInv' /\ DOMAIN archive' = ArchiveStores /\ ReportTrue'
<1>0. JobInv /\ DOMAIN archive = ArchiveStores /\ ReportTrue
  BY DEF ReportsInv
<1>1. UNCHANGED archive => Grown
  BY <1>0 DEF Grown
<1>2. LoopJob(job') \/ job' = NoJob => JobInv'
  BY DEF JobInv
<1>3. AskingJob(job)' \/ StoringJob(job)' => JobInv'
  BY DEF JobInv
<1>4. ASSUME UNCHANGED <<archive, report>>
      PROVE  DOMAIN archive' = ArchiveStores /\ ReportTrue'
  BY <1>0, <1>1, <1>4, ReportStays
<1>5. CASE Begins
  <2>1. UNCHANGED <<archive, report>>
    BY <1>5 DEF Begins, Begin, DatajudBegins
  <2>2. ASSUME NEW task \in Loops, NEW left, Begin(task, left), IsSeq(left),
               task = "pncp" => left \in Seq(Nat) /\ left # <<>>
        PROVE  JobInv'
    BY <1>2, <2>2, LoopBegun
  <2>3. ASSUME Begin("pncp", << 1 >>) PROVE JobInv'
    <3>1. << 1 >> \in Seq(Nat) /\ IsSeq(<< 1 >>) /\ << 1 >> # <<>>
      BY ShortSequences
    <3> QED BY <2>2, <2>3, <3>1 DEF Loops
  <2>4. ASSUME NEW l \in KeyLists,
               Begin("caged", l) \/ Begin("receita", l) \/ Begin("receita", <<Malformed>> \o l)
        PROVE  JobInv'
    <3>1. IsSeq(l) /\ IsSeq(<<Malformed>> \o l)
      BY IngestionAssumption, Prepended DEF IsSeq
    <3> QED BY <2>2, <2>4, <3>1 DEF Loops
  <2>5. ASSUME NEW x, Begin("siconfi", <<x>>) \/ Begin("ibge", <<x>>) PROVE JobInv'
    <3>1. IsSeq(<<x>>)
      BY ShortSequences
    <3> QED BY <2>2, <2>5, <3>1 DEF Loops
  <2>6. ASSUME NEW d \in {NoDate, 1}, DatajudBegins(d) PROVE JobInv'
    BY <1>3, <2>6, DatajudBegun
  <2> QED BY <1>4, <1>5, <2>1, <2>3, <2>4, <2>5, <2>6 DEF Begins
<1>6. CASE Goes
  <2>1. ASSUME NEW r \in Replies(Pages), PncpPage(r)
        PROVE  JobInv' /\ DOMAIN archive' = ArchiveStores /\ ReportTrue'
    BY <1>0, <1>2, <1>4, <2>1, PageRead DEF PncpPage
  <2>2. ASSUME NEW r \in Replies(Answers), CagedCompany(r)
        PROVE  JobInv' /\ DOMAIN archive' = ArchiveStores /\ ReportTrue'
    BY <1>0, <1>2, <1>4, <2>2, CompanyAsked DEF CagedCompany
  <2>3. ASSUME NEW r \in Replies(Answers), SiconfiYear(r)
        PROVE  JobInv' /\ DOMAIN archive' = ArchiveStores /\ ReportTrue'
    BY <1>0, <1>2, <1>4, <2>3, YearAsked DEF SiconfiYear
  <2>4. ASSUME NEW r \in Replies(Answers), DatajudFetch(r)
        PROVE  JobInv' /\ DOMAIN archive' = ArchiveStores /\ ReportTrue'
    BY <1>0, <1>2, <1>3, <1>4, <2>4, DatajudAnswered DEF DatajudFetch
  <2>5. ASSUME NEW r \in Replies(KeyLists), IbgeState(r)
        PROVE  JobInv' /\ DOMAIN archive' = ArchiveStores /\ ReportTrue'
    BY <1>0, <1>2, <1>4, <2>5, StateListed DEF IbgeState
  <2>6. ASSUME NEW r, IbgeTown(r)
        PROVE  JobInv' /\ DOMAIN archive' = ArchiveStores /\ ReportTrue'
    BY <1>0, <1>2, <1>4, <2>6, TownAsked DEF IbgeTown
  <2>7. ASSUME NEW r, ReceitaCompany(r)
        PROVE  JobInv' /\ DOMAIN archive' = ArchiveStores /\ ReportTrue'
    BY <1>0, <1>2, <1>4, <2>7, CompanyLooked DEF ReceitaCompany
  <2>8. ASSUME KeepRow PROVE JobInv' /\ DOMAIN archive' = ArchiveStores /\ ReportTrue'
    BY <1>0, <1>2, <1>4, <2>8, RowKept DEF KeepRow
  <2>9. ASSUME NEW o \in {"ok", "partly", "fails"}, StoreNext(o)
        PROVE  JobInv' /\ DOMAIN archive' = ArchiveStores /\ ReportTrue'
    <3>1. clock' = clock /\ report' = report
      BY <2>9 DEF StoreNext
    <3>2. StoringJob(job)' /\ Grown
      BY <1>0, <2>9, <3>1, StorePassed
    <3> QED BY <1>0, <1>3, <3>1, <3>2, ReportStays DEF Grown
  <2>10. ASSUME DatajudAgain PROVE JobInv' /\ DOMAIN archive' = ArchiveStores /\ ReportTrue'
    BY <1>0, <1>3, <1>4, <2>10, DatajudRetried DEF DatajudAgain
  <2>11. ASSUME Report PROVE JobInv' /\ DOMAIN archive' = ArchiveStores /\ ReportTrue'
    BY <1>0, <1>2, <2>11, LoopReported DEF Report
  <2>12. ASSUME DatajudReport PROVE JobInv' /\ DOMAIN archive' = ArchiveStores /\ ReportTrue'
    BY <1>0, <1>2, <2>12, DayReported DEF DatajudReport
  <2> QED
    BY <1>6, <2>1, <2>2, <2>3, <2>4, <2>5, <2>6, <2>7, <2>8, <2>9, <2>10, <2>11, <2>12, SMTT(40)
    DEF Goes
<1>7. CASE TaskGone \/ ProcessReplaced
  BY <1>2, <1>4, <1>7 DEF TaskGone, ProcessReplaced
<1>8. ASSUME NEW key, KeyGone(key)
      PROVE  JobInv' /\ DOMAIN archive' = ArchiveStores /\ ReportTrue'
  <2>1. UNCHANGED <<clock, job, archive, report>>
    BY <1>8 DEF KeyGone
  <2>2. JobInv'
    BY <1>0, <2>1, JobStays
  <2> QED BY <1>4, <2>1, <2>2
<1>9. CASE HourPasses
  <2>1. UNCHANGED <<job, archive, report>> /\ clock' = clock + 1
    BY <1>9 DEF HourPasses, ingestVars
  <2>2. Day \in Int /\ Day' \in Int /\ Day <= Day'
    BY <2>1, DayGoesOn
  <2>3. Dated(job) => Dated(job)'
    <3> HIDE DEF Day
    <3> QED BY <2>1, <2>2 DEF Dated
  <2>4. JobInv'
    BY <1>0, <2>1, <2>3 DEF JobInv, AskingJob, StoringJob, Passed, Held
  <2> QED BY <1>4, <2>1, <2>4
<1> QED BY <1>5, <1>6, <1>7, <1>8, <1>9 DEF IngestNext

(* A profile derives figures from parts that were given.                   *)
LEMMA ProfileKept ==
  ASSUME DerivedOnlyFromGiven, QueryTyped, [SourcesNext]_sourcesVars
  PROVE  DerivedOnlyFromGiven'
<1>1. CASE answer' = answer
  BY <1>1 DEF DerivedOnlyFromGiven
<1>2. CASE Answer
  <2>1. query # NoQuery
        /\ answer' = IF query.handler # "municipio_perfil" THEN query ELSE
             With(With(query, "density", HasDensity(query.got)), "perCapita", HasPerCapita(query.got))
    BY <1>2 DEF Answer
  <2>2. CASE query.handler # "municipio_perfil"
    BY <2>1, <2>2 DEF DerivedOnlyFromGiven
  <2>3. CASE query.handler = "municipio_perfil"
    <3>1. DOMAIN query = {"handler", "calls", "got"}
      BY <2>1 DEF QueryTyped
    <3> DEFINE one == With(query, "density", HasDensity(query.got))
    <3>2. /\ DOMAIN one = {"handler", "calls", "got", "density"}
          /\ one["density"] = HasDensity(query.got) /\ one["got"] = query.got
      BY <3>1 DEF With
    <3>3. answer' = With(one, "perCapita", HasPerCapita(query.got))
      BY <2>1, <2>3
    <3> HIDE DEF one
    <3>4. /\ answer'.density = HasDensity(query.got) /\ answer'.got = query.got
          /\ answer'.perCapita = HasPerCapita(query.got)
      BY <3>2, <3>3 DEF With
    <3>5. HasDensity(query.got)
            => query.got["populacao"].value # Missing /\ query.got["area"].value # Missing
      BY DEF HasDensity, Missing
    <3>6. HasPerCapita(query.got)
            => query.got["populacao"].value # Missing /\ query.got["pib"].value # Missing
      BY SMTT(40) DEF HasPerCapita, Missing
    <3> QED BY <3>4, <3>5, <3>6 DEF DerivedOnlyFromGiven
  <2> QED BY <2>2, <2>3
<1>3. ~ Answer => answer' = answer
  <2> SUFFICES ASSUME ~ Answer, answer' # answer PROVE FALSE
    OBVIOUS
  <2>1. SourcesNext
    BY SMTT(40) DEF sourcesVars, liveVars
  <2> QED BY <2>1, ZenonT(60) DEF SourcesNext, LiveNext, Accept, Call, liveVars
<1> QED BY <1>1, <1>2, <1>3

(* Every step keeps all of it.                                             *)
LEMMA ReportsPreserved ==
  ASSUME CircuitsInv, QueryTyped, ReportsInv, [SourcesNext]_sourcesVars PROVE ReportsInv'
<1>1. DerivedOnlyFromGiven'
  BY ProfileKept DEF ReportsInv
<1>2. clock \in Nat
  BY DEF CircuitsInv
<1>3. CASE IngestNext
  BY <1>1, <1>2, <1>3, TaskKept, EntriesKept DEF ReportsInv
<1>4. CASE UNCHANGED <<clock, job, archive, report, redis>>
  <2>1. JobInv'
    BY <1>4, JobStays DEF ReportsInv
  <2>2. ReportTrue'
    BY <1>4, ReportStays DEF ReportsInv, Grown
  <2>3. NoEntryFromFailure'
    BY <1>4 DEF ReportsInv, NoEntryFromFailure
  <2> QED BY <1>1, <1>4, <2>1, <2>2, <2>3 DEF ReportsInv
<1> QED
  BY <1>3, <1>4 DEF SourcesNext, LiveNext, Accept, Call, Answer, sourcesVars, ingestVars

(* What the tasks report adds up and is about what they read and stored,   *)
(* no entry of the cache comes from a failed call, and no figure is derived *)
(* from a part that is missing: for any replies, lists of companies and    *)
(* towns, crashes, retries and lost keys, any length of a day and limit of *)
(* pages (base.py 105-147, pncp.py 148-153, ibge.py 292-304, datajud.py    *)
(* 77-94, compliance.py 451-461).                                          *)
THEOREM ReportsAreSound == SourcesSpec => []ReportsSound
<1>1. SourcesInit => ReportsInv
  <2> SUFFICES ASSUME SourcesInit PROVE ReportsInv
    OBVIOUS
  <2>1. JobInv
    BY DEF SourcesInit, IngestInit, JobInv
  <2>2. DOMAIN archive = ArchiveStores
    <3>1. Range(Stores) = ArchiveStores
      <4>1. DOMAIN Stores = {1, 2, 3} /\ Stores[1] = "minio" /\ Stores[2] = "opensearch"
            /\ Stores[3] = "neo4j"
        BY DEF Stores
      <4> QED BY <4>1 DEF Range, ArchiveStores
    <3> QED BY <3>1 DEF SourcesInit, IngestInit
  <2>3. ReportTrue
    BY DEF SourcesInit, IngestInit, NoJob, ReportTrue, ReportAddsUp, YearCovered, StoredOrNamed,
           DayAsked, Loops
  <2>4. NoEntryFromFailure
    BY DEF SourcesInit, IngestInit, NoEntryFromFailure
  <2>5. DerivedOnlyFromGiven
    BY DEF SourcesInit, LiveInit, DerivedOnlyFromGiven
  <2> QED BY <2>1, <2>2, <2>3, <2>4, <2>5 DEF ReportsInv
<1>2. CircuitsInv /\ QueryTyped /\ ReportsInv /\ [SourcesNext]_sourcesVars => ReportsInv'
  BY ReportsPreserved
<1>3. ReportsInv => ReportsSound
  BY DEF ReportsInv, ReportTrue, ReportsSound
<1> QED BY <1>1, <1>2, <1>3, SourcesTyped, PTL DEF SourcesSpec
=============================================================================
