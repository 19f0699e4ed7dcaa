---------------------------- MODULE ScoreService ----------------------------
(***************************************************************************)
(* POST /legalscore/score (score_company of                                *)
(* services/gateway/routers/legalscore.py with the idempotency store of    *)
(* services/scoring/idempotency.py), called again and again with an        *)
(* Idempotency-Key over 24 hours.                                          *)
(*                                                                         *)
(* A gateway is one uvicorn process.  score_company has no await, so a     *)
(* process runs one call at a time; several processes interleave.  The     *)
(* Decision Ledger is the atomic one that PostgresLedger implements.       *)
(* Redis is shared, may fail any call, and forgets keys (TTL, LRU).        *)
(***************************************************************************)
EXTENDS Naturals, FiniteSets

CONSTANTS Gateways, ScoreTenants, Keys,
          NoKey,      \* a call without the header
          MaxCalls,   \* bound of the model: calls received
          MaxSource   \* bound of the model: changes of the source data

ASSUME KeyAssumption == NoKey \notin Keys
ASSUME GatewayAssumption == IsFiniteSet(Gateways)
ASSUME BoundAssumption == MaxCalls \in Nat /\ MaxSource \in Nat

VARIABLES stage,    \* stage[g]: where score_company of gateway g stands
          call,     \* call[g]: tenant, key and request_id of that call
          result,   \* result[g]: the score it has computed
          store,    \* store[t][k]: the value of idemp:{tenant}:{key}
          ledger,   \* the entries of the Decision Ledger, with their key
          source,   \* version of the ingested data the features come from
          issued,   \* request identifiers drawn so far (uuid4)
          answers,  \* answers[t][k]: the scores a client has received
          faults,   \* history: crashes and failed writes under a key
          expired   \* history: how often Redis forgot a key

scoreVars == <<stage, call, result, store, ledger, source, issued, answers, faults, expired>>

Nothing == [none |-> TRUE]
Partial == MaxSource + 1   \* the score when the caches cannot be read

Call == [tenant : ScoreTenants, key : Keys \cup {NoKey}, request : 1..MaxCalls]
Score == [request : 1..MaxCalls, score : 0..Partial]

ScoreInit ==
  /\ stage = [g \in Gateways |-> "idle"]
  /\ call = [g \in Gateways |-> Nothing]
  /\ result = [g \in Gateways |-> Nothing]
  /\ store = [t \in ScoreTenants |-> [k \in Keys |-> Nothing]]
  /\ ledger = {}
  /\ source = 0 /\ issued = 0
  /\ answers = [t \in ScoreTenants |-> [k \in Keys |-> {}]]
  /\ faults = [t \in ScoreTenants |-> [k \in Keys |-> 0]]
  /\ expired = [t \in ScoreTenants |-> [k \in Keys |-> 0]]

HasKey(g) == call[g].key # NoKey

\* Adding one to the history of the key of g, if it has one.
Counted(history, g) ==
  IF HasKey(g) THEN [history EXCEPT ![call[g].tenant][call[g].key] = @ + 1] ELSE history

\* The answer 200; what a client without a key receives is not kept.
Answer(g, value) ==
  answers' = IF HasKey(g)
             THEN [answers EXCEPT ![call[g].tenant][call[g].key] = @ \cup {value}]
             ELSE answers

End(g) ==
  /\ stage' = [stage EXCEPT ![g] = "idle"]
  /\ call' = [call EXCEPT ![g] = Nothing]
  /\ result' = [result EXCEPT ![g] = Nothing]
-----------------------------------------------------------------------------
\* A call arrives, a first one or a retry: its request_id is drawn at once.
Receive(g, t, k) ==
  /\ stage[g] = "idle" /\ issued < MaxCalls
  /\ issued' = issued + 1
  /\ call' = [call EXCEPT ![g] = [tenant |-> t, key |-> k, request |-> issued + 1]]
  /\ stage' = [stage EXCEPT ![g] = IF k = NoKey THEN "scoring" ELSE "checking"]
  /\ UNCHANGED <<result, store, ledger, source, answers, faults, expired>>

\* Seeded fault: the stored result is looked up without the tenant.
StoredAnywhere(g) ==
  IF \E t \in ScoreTenants : store[t][call[g].key] # Nothing
  THEN store[CHOOSE t \in ScoreTenants : store[t][call[g].key] # Nothing][call[g].key]
  ELSE Nothing

\* get_idempotency_result.
Stored(g) == store[call[g].tenant][call[g].key]

\* A result under the key: it is the answer, nothing is computed or recorded.
Replay(g) ==
  /\ stage[g] = "checking" /\ Stored(g) # Nothing
  /\ Answer(g, Stored(g))
  /\ End(g)
  /\ UNCHANGED <<store, ledger, source, issued, faults, expired>>

\* Seeded fault: the stored result is not looked for.
MissAlways(g) ==
  /\ stage[g] = "checking"
  /\ stage' = [stage EXCEPT ![g] = "scoring"]
  /\ UNCHANGED <<call, result, store, ledger, source, issued, answers, faults, expired>>

Miss(g) ==
  /\ stage[g] = "checking" /\ Stored(g) = Nothing
  /\ stage' = [stage EXCEPT ![g] = "scoring"]
  /\ UNCHANGED <<call, result, store, ledger, source, issued, answers, faults, expired>>

\* assemble_features and the engine; caches that cannot be read are left out.
ComputeScore(g) ==
  /\ stage[g] = "scoring"
  /\ \E s \in {source, Partial} :
       result' = [result EXCEPT ![g] = [request |-> call[g].request, score |-> s]]
  /\ stage' = [stage EXCEPT ![g] = "recording"]
  /\ UNCHANGED <<call, store, ledger, source, issued, answers, faults, expired>>

\* add_entry, committed.
Record(g) ==
  /\ stage[g] = "recording"
  /\ ledger' = ledger \cup {[tenant  |-> call[g].tenant,
                             key     |-> call[g].key,
                             request |-> result[g].request,
                             score   |-> result[g].score]}
  /\ stage' = [stage EXCEPT ![g] = IF HasKey(g) THEN "storing" ELSE "answering"]
  /\ UNCHANGED <<call, result, store, source, issued, answers, faults, expired>>

\* set_idempotency_result.
StoreResult(g) ==
  /\ stage[g] = "storing"
  /\ store' = [store EXCEPT ![call[g].tenant][call[g].key] = result[g]]
  /\ stage' = [stage EXCEPT ![g] = "answering"]
  /\ UNCHANGED <<call, result, ledger, source, issued, answers, faults, expired>>

Respond(g) ==
  /\ stage[g] = "answering"
  /\ Answer(g, result[g])
  /\ End(g)
  /\ UNCHANGED <<store, ledger, source, issued, faults, expired>>

\* Redis or Postgres raises, or the process dies: the client gets a 500 or
\* no answer at all, and what was done before stays done.
Fail(g) ==
  /\ stage[g] # "idle"
  /\ faults' = Counted(faults, g)
  /\ End(g)
  /\ UNCHANGED <<store, ledger, source, issued, answers, expired>>

Expire(t, k) ==
  /\ store[t][k] # Nothing
  /\ store' = [store EXCEPT ![t][k] = Nothing]
  /\ expired' = [expired EXCEPT ![t][k] = @ + 1]
  /\ UNCHANGED <<stage, call, result, ledger, source, issued, answers, faults>>

\* An ingestion task writes the caches the features are read from.
SourceChanges ==
  /\ source < MaxSource
  /\ source' = source + 1
  /\ UNCHANGED <<stage, call, result, store, ledger, issued, answers, faults, expired>>
-----------------------------------------------------------------------------
Serve(g) ==
  \/ \E t \in ScoreTenants, k \in Keys \cup {NoKey} : Receive(g, t, k)
  \/ Replay(g) \/ Miss(g) \/ ComputeScore(g) \/ Record(g)
  \/ StoreResult(g) \/ Respond(g) \/ Fail(g)

ScoreNext ==
  \/ \E g \in Gateways : Serve(g)
  \/ \E t \in ScoreTenants, k \in Keys : Expire(t, k)
  \/ SourceChanges

ScoreSpec == ScoreInit /\ [][ScoreNext]_scoreVars
-----------------------------------------------------------------------------
(* Properties *)

EntriesUnder(t, k) == {e \in ledger : e.tenant = t /\ e.key = k}

Recorded(t, k, value) ==
  \E e \in EntriesUnder(t, k) : e.request = value.request /\ e.score = value.score

ScoreTypeOK ==
  /\ stage \in [Gateways -> {"idle", "checking", "scoring", "recording", "storing", "answering"}]
  /\ call \in [Gateways -> Call \cup {Nothing}]
  /\ result \in [Gateways -> Score \cup {Nothing}]
  /\ store \in [ScoreTenants -> [Keys -> Score \cup {Nothing}]]
  /\ \A g \in Gateways : stage[g] # "idle" => call[g] \in Call
  /\ \A g \in Gateways : stage[g] \in {"recording", "storing", "answering"} => result[g] \in Score
  /\ issued \in 0..MaxCalls /\ source \in 0..MaxSource

(* Whatever a client is told, and whatever a later retry would be told, is *)
(* the content of an entry of its own tenant under its own key, although   *)
(* the entry, the stored result and the answer are three separate writes   *)
(* (legalscore.py 234-254) that any failure can separate.                  *)
NothingUnrecorded ==
  \A t \in ScoreTenants, k \in Keys :
    /\ store[t][k] # Nothing => Recorded(t, k, store[t][k])
    /\ \A a \in answers[t][k] : Recorded(t, k, a)

(* How often one key is processed: at most once per gateway process, and   *)
(* as often again for every failure and every time Redis forgot the key.   *)
DuplicatesBounded ==
  \A t \in ScoreTenants, k \in Keys :
    Cardinality(EntriesUnder(t, k))
      <= Cardinality(Gateways) * (1 + faults[t][k] + expired[t][k])

(* What Pendencia.md 49 ticks off: a key repeated within 24 hours gets no  *)
(* second entry in the ledger.                                             *)
NoSecondEntry ==
  \A t \in ScoreTenants, k \in Keys :
    expired[t][k] = 0 => Cardinality(EntriesUnder(t, k)) <= 1
=============================================================================
