---------------------------- MODULE ScoringProofs ----------------------------
(***************************************************************************)
(* What a client is told of a score, for any number of gateway processes,  *)
(* tenants and keys: never a score the Decision Ledger does not hold,      *)
(* never more records than overlaps, failures and expiries explain         *)
(* (ScoreService), and of a batch only what is true of it (BatchJob).      *)
(***************************************************************************)
EXTENDS ScoreService, BatchJob, FiniteSetTheorems, TLAPS

\* An entry of the ledger L of tenant t under key k holds the score v.
Told(L, t, k, v) ==
  \E e \in L : e.tenant = t /\ e.key = k /\ e.request = v.request /\ e.score = v.score

\* A result on its way into the store or to the client is in the ledger.
InFlightRecorded ==
  \A g \in Gateways : stage[g] \in {"storing", "answering"} /\ HasKey(g) =>
    Told(ledger, call[g].tenant, call[g].key, result[g])

\* NothingUnrecorded, in terms of Told.
Faithful ==
  \A t \in ScoreTenants, k \in Keys :
    /\ store[t][k] # Nothing => Told(ledger, t, k, store[t][k])
    /\ \A a \in answers[t][k] : Told(ledger, t, k, a)

\* Whoever looks a result up, or is about to store one, has a key.
StoringHasKey == \A g \in Gateways : stage[g] \in {"checking", "storing"} => HasKey(g)

Domains == DOMAIN answers = ScoreTenants /\ \A t \in ScoreTenants : DOMAIN answers[t] = Keys

IInv == ScoreTypeOK /\ StoringHasKey /\ Domains /\ InFlightRecorded /\ Faithful

(* An entry stays: what is recorded once is recorded for ever.             *)
LEMMA LedgerGrows == ASSUME [ScoreNext]_scoreVars PROVE ledger \subseteq ledger'
BY DEF ScoreNext, Serve, scoreVars, Receive, Replay, Miss, ComputeScore, Record, StoreResult, Respond,
       Fail, Expire, SourceChanges

(* What the ledger holds it holds for ever.                                *)
LEMMA ToldStays ==
  ASSUME [ScoreNext]_scoreVars, NEW t, NEW k, NEW v, Told(ledger, t, k, v)
  PROVE  Told(ledger', t, k, v)
BY LedgerGrows DEF Told

(* A step of another gateway, of Redis or of the ingestion leaves a call   *)
(* alone.                                                                  *)
LEMMA Frame ==
  ASSUME ScoreTypeOK, [ScoreNext]_scoreVars, NEW g \in Gateways, ~ Serve(g)
  PROVE  stage'[g] = stage[g] /\ call'[g] = call[g] /\ result'[g] = result[g]
<1>1. ASSUME NEW h \in Gateways, h # g, Serve(h)
      PROVE  stage'[g] = stage[g] /\ call'[g] = call[g] /\ result'[g] = result[g]
  BY <1>1 DEF ScoreTypeOK, Serve, Receive, Replay, Miss, ComputeScore, Record, StoreResult,
              Respond, Fail, End
<1>2. CASE ~ \E h \in Gateways : Serve(h)
  BY <1>2 DEF ScoreNext, scoreVars, Expire, SourceChanges
<1> QED  BY <1>1, <1>2

(* The initial states are well typed.                                      *)
LEMMA TypeInit == ScoreInit => ScoreTypeOK
BY BoundAssumption DEF ScoreInit, ScoreTypeOK

(* Every step keeps the types.                                             *)
LEMMA TypeStep == ScoreTypeOK /\ StoringHasKey /\ [ScoreNext]_scoreVars => ScoreTypeOK'
<1> SUFFICES ASSUME ScoreTypeOK, StoringHasKey, [ScoreNext]_scoreVars PROVE ScoreTypeOK'
  OBVIOUS
<1> USE BoundAssumption
<1>1. CASE UNCHANGED scoreVars
  BY <1>1 DEF scoreVars, ScoreTypeOK
<1>2. ASSUME NEW g \in Gateways, Serve(g) PROVE ScoreTypeOK'
  <2>1. ASSUME NEW t \in ScoreTenants, NEW k \in Keys \cup {NoKey}, Receive(g, t, k)
        PROVE  ScoreTypeOK'
    <3>1. issued + 1 \in 1..MaxCalls /\ issued' = issued + 1
      BY <2>1 DEF Receive, ScoreTypeOK
    <3>2. [tenant |-> t, key |-> k, request |-> issued + 1] \in Call
      BY <3>1 DEF Call
    <3> QED  BY <2>1, <3>1, <3>2 DEF Receive, ScoreTypeOK
  <2>2. CASE Replay(g)
    BY <2>2 DEF Replay, End, ScoreTypeOK
  <2>3. CASE Miss(g)
    BY <2>3 DEF Miss, ScoreTypeOK
  <2>4. CASE ComputeScore(g)
    <3>1. call[g].request \in 1..MaxCalls /\ source \in 0..Partial /\ Partial \in 0..Partial
      BY <2>4 DEF ComputeScore, ScoreTypeOK, Call, Partial
    <3>2. \A s \in {source, Partial} : [request |-> call[g].request, score |-> s] \in Score
      BY <3>1 DEF Score
    <3>3. PICK v \in Score : result' = [result EXCEPT ![g] = v]
      BY <2>4, <3>2 DEF ComputeScore
    <3> QED  BY <2>4, <3>3 DEF ComputeScore, ScoreTypeOK
  <2>5. CASE Record(g)
    BY <2>5 DEF Record, ScoreTypeOK
  <2>6. CASE StoreResult(g)
    <3>1. call[g].tenant \in ScoreTenants /\ call[g].key \in Keys /\ result[g] \in Score
      BY <2>6 DEF StoreResult, ScoreTypeOK, StoringHasKey, HasKey, Call
    <3> QED  BY <2>6, <3>1 DEF StoreResult, ScoreTypeOK
  <2>7. CASE Respond(g)
    BY <2>7 DEF Respond, End, ScoreTypeOK
  <2>8. CASE Fail(g)
    BY <2>8 DEF Fail, End, ScoreTypeOK
  <2> QED  BY <1>2, <2>1, <2>2, <2>3, <2>4, <2>5, <2>6, <2>7, <2>8 DEF Serve
<1>3. ASSUME NEW t \in ScoreTenants, NEW k \in Keys, Expire(t, k) PROVE ScoreTypeOK'
  BY <1>3 DEF Expire, ScoreTypeOK
<1>4. CASE SourceChanges
  BY <1>4 DEF SourceChanges, ScoreTypeOK
<1> QED  BY <1>1, <1>2, <1>3, <1>4 DEF ScoreNext

(* Only calls with a key are stored under one.                             *)
LEMMA KeyStep ==
  ASSUME ScoreTypeOK, StoringHasKey, Domains, [ScoreNext]_scoreVars
  PROVE  StoringHasKey' /\ Domains'
<1>1. ASSUME NEW g \in Gateways, stage'[g] \in {"checking", "storing"} PROVE HasKey(g)'
  <2>1. CASE ~ Serve(g)
    BY <1>1, <2>1, Frame DEF StoringHasKey, HasKey
  <2>2. CASE \E t \in ScoreTenants, k \in Keys \cup {NoKey} : Receive(g, t, k)
    BY <1>1, <2>2 DEF Receive, ScoreTypeOK, HasKey
  <2>3. CASE Record(g)
    BY <1>1, <2>3 DEF Record, ScoreTypeOK, HasKey
  <2>4. CASE Miss(g) \/ ComputeScore(g) \/ StoreResult(g) \/ Replay(g) \/ Respond(g) \/ Fail(g)
    BY <1>1, <2>4 DEF Miss, ComputeScore, StoreResult, Replay, Respond, Fail, End, ScoreTypeOK
  <2> QED  BY <2>1, <2>2, <2>3, <2>4 DEF Serve
<1>2. Domains'
  <2>1. CASE answers' = answers
    BY <2>1 DEF Domains
  <2>2. ASSUME NEW g \in Gateways, NEW v, Answer(g, v) PROVE Domains'
    BY <2>2 DEF Domains, Answer
  <2> QED
    BY <2>1, <2>2
    DEF ScoreNext, Serve, scoreVars, Receive, Replay, Miss, ComputeScore, Record, StoreResult, Respond,
        Fail, Expire, SourceChanges
<1> QED  BY <1>1, <1>2 DEF StoringHasKey

(* A result is on its way only once it is in the ledger.                   *)
LEMMA InFlightStep ==
  ASSUME ScoreTypeOK, InFlightRecorded, [ScoreNext]_scoreVars
  PROVE  InFlightRecorded'
<1> SUFFICES ASSUME NEW g \in Gateways, stage'[g] \in {"storing", "answering"}, HasKey(g)'
             PROVE  Told(ledger', call'[g].tenant, call'[g].key, result'[g])
  BY DEF InFlightRecorded
<1>1. CASE ~ Serve(g)
  <2>1. stage'[g] = stage[g] /\ call'[g] = call[g] /\ result'[g] = result[g]
    BY <1>1, Frame
  <2>2. Told(ledger, call[g].tenant, call[g].key, result[g])
    BY <2>1 DEF InFlightRecorded, HasKey
  <2> QED  BY <2>1, <2>2, ToldStays
<1>2. CASE Record(g)
  <2> DEFINE e == [tenant  |-> call[g].tenant, key   |-> call[g].key,
                   request |-> result[g].request, score |-> result[g].score]
  <2>1. e \in ledger' /\ call' = call /\ result' = result
    BY <1>2 DEF Record
  <2>2. /\ e.tenant = call[g].tenant /\ e.key = call[g].key
        /\ e.request = result[g].request /\ e.score = result[g].score
    OBVIOUS
  <2> HIDE DEF e
  <2> QED  BY <2>1, <2>2 DEF Told
<1>3. CASE StoreResult(g)
  <2>1. stage[g] = "storing" /\ call' = call /\ result' = result /\ ledger' = ledger
    BY <1>3 DEF StoreResult
  <2> QED  BY <2>1 DEF InFlightRecorded, HasKey
<1>4. CASE Serve(g) /\ ~ Record(g) /\ ~ StoreResult(g)
  <2>1. stage'[g] \notin {"storing", "answering"}
    BY <1>4 DEF Serve, Receive, Replay, Miss, ComputeScore, Respond, Fail, End, ScoreTypeOK
  <2> QED  BY <2>1
<1> QED  BY <1>1, <1>2, <1>3, <1>4

(* So what is stored or answered is in the ledger.                         *)
LEMMA FaithfulStep ==
  ASSUME IInv, [ScoreNext]_scoreVars
  PROVE  Faithful'
<1> SUFFICES ASSUME NEW t \in ScoreTenants, NEW k \in Keys
             PROVE  /\ store'[t][k] # Nothing => Told(ledger', t, k, store'[t][k])
                    /\ \A a \in answers'[t][k] : Told(ledger', t, k, a)
  BY DEF Faithful
<1>1. store[t][k] # Nothing => Told(ledger, t, k, store[t][k])
  BY DEF IInv, Faithful
<1>2. \A a \in answers[t][k] : Told(ledger, t, k, a)
  BY DEF IInv, Faithful
<1>3. \A g \in Gateways : stage[g] \in {"storing", "answering"} /\ HasKey(g)
        /\ call[g].tenant = t /\ call[g].key = k => Told(ledger, t, k, result[g])
  BY DEF IInv, InFlightRecorded
<1>4. store'[t][k] # Nothing => Told(ledger, t, k, store'[t][k])
  <2>1. CASE store' = store
    BY <1>1, <2>1
  <2>2. ASSUME NEW g \in Gateways, StoreResult(g)
        PROVE  store'[t][k] # Nothing => Told(ledger, t, k, store'[t][k])
    <3>1. HasKey(g) /\ stage[g] = "storing"
      BY <2>2 DEF StoreResult, IInv, StoringHasKey
    <3>2. store'[t][k] = IF call[g].tenant = t /\ call[g].key = k
                         THEN result[g] ELSE store[t][k]
      BY <2>2, <3>1 DEF StoreResult, IInv, ScoreTypeOK
    <3> QED  BY <1>1, <1>3, <3>1, <3>2
  <2>3. ASSUME NEW s \in ScoreTenants, NEW j \in Keys, Expire(s, j)
        PROVE  store'[t][k] # Nothing => Told(ledger, t, k, store'[t][k])
    BY <1>1, <2>3 DEF Expire, IInv, ScoreTypeOK
  <2> QED
    BY <2>1, <2>2, <2>3
    DEF ScoreNext, Serve, scoreVars, Receive, Replay, Miss, ComputeScore, Record, Respond, Fail,
        SourceChanges
<1>5. \A a \in answers'[t][k] : Told(ledger, t, k, a)
  <2>1. CASE answers' = answers
    BY <1>2, <2>1
  <2>2. ASSUME NEW g \in Gateways, NEW v, Answer(g, v), HasKey(g),
               call[g].tenant = t /\ call[g].key = k => Told(ledger, t, k, v)
        PROVE  \A a \in answers'[t][k] : Told(ledger, t, k, a)
    BY <1>2, <2>2 DEF Answer, IInv, Domains
  <2>3. ASSUME NEW g \in Gateways, Replay(g)
        PROVE  \A a \in answers'[t][k] : Told(ledger, t, k, a)
    <3>1. HasKey(g) /\ Answer(g, Stored(g)) /\ Stored(g) # Nothing
      BY <2>3 DEF Replay, IInv, StoringHasKey
    <3>2. call[g].tenant = t /\ call[g].key = k => Told(ledger, t, k, Stored(g))
      BY <1>1, <3>1 DEF Stored
    <3> QED  BY <2>2, <3>1, <3>2
  <2>4. ASSUME NEW g \in Gateways, Respond(g)
        PROVE  \A a \in answers'[t][k] : Told(ledger, t, k, a)
    <3>1. Answer(g, result[g]) /\ stage[g] = "answering"
      BY <2>4 DEF Respond
    <3>2. CASE HasKey(g)
      BY <1>3, <2>2, <3>1, <3>2
    <3>3. CASE ~ HasKey(g)
      BY <2>1, <3>1, <3>3 DEF Answer
    <3> QED  BY <3>2, <3>3
  <2> QED
    BY <2>1, <2>3, <2>4
    DEF ScoreNext, Serve, scoreVars, Receive, Miss, ComputeScore, Record, StoreResult, Fail, Expire,
        SourceChanges
<1> QED  BY <1>4, <1>5, ToldStays

(* The initial states satisfy the invariant.                               *)
LEMMA InitIInv == ScoreInit => IInv
<1> SUFFICES ASSUME ScoreInit PROVE IInv
  OBVIOUS
<1>1. StoringHasKey /\ Domains /\ InFlightRecorded /\ Faithful
  BY DEF ScoreInit, StoringHasKey, Domains, InFlightRecorded, Faithful
<1> QED  BY <1>1, TypeInit DEF IInv

(* Every step keeps it.                                                    *)
LEMMA StepIInv == IInv /\ [ScoreNext]_scoreVars => IInv'
BY TypeStep, KeyStep, InFlightStep, FaithfulStep DEF IInv

(* Every reachable state of the score service satisfies the invariant.     *)
THEOREM Invariance == ScoreSpec => []IInv
BY InitIInv, StepIInv, PTL DEF ScoreSpec

(* The calls and the idempotency store are well typed.                     *)
THEOREM TypeCorrect == ScoreSpec => []ScoreTypeOK
<1>1. IInv => ScoreTypeOK
  BY DEF IInv
<1> QED  BY <1>1, Invariance, PTL

(* What a client or a later retry is told is in the ledger of its tenant.  *)
THEOREM NothingToldUnrecorded == ScoreSpec => []NothingUnrecorded
<1>1. IInv => NothingUnrecorded
  BY DEF IInv, Faithful, NothingUnrecorded, Told, Recorded, EntriesUnder
<1> QED  BY <1>1, Invariance, PTL
-----------------------------------------------------------------------------
(* How often a key is processed.  As long as nothing is stored under a key *)
(* a gateway that has recorded is still to store, or fails; once something *)
(* is stored only the calls that had already missed it are to record.      *)

\* The calls under a key that are to record, and those that have recorded and
\* are to store.
Missed(t, k) ==
  {g \in Gateways : /\ stage[g] \in {"scoring", "recording"}
                    /\ call[g].tenant = t /\ call[g].key = k}

Storing(t, k) ==
  {g \in Gateways : stage[g] = "storing" /\ call[g].tenant = t /\ call[g].key = k}

Troubles(t, k) == faults[t][k] + expired[t][k]
AllGateways == Cardinality(Gateways)

Budget(t, k) ==
  IF store[t][k] = Nothing
  THEN Cardinality(EntriesUnder(t, k))
         <= AllGateways * Troubles(t, k) + Cardinality(Storing(t, k))
  ELSE Cardinality(EntriesUnder(t, k)) + Cardinality(Missed(t, k))
         <= AllGateways * Troubles(t, k) + AllGateways

CountersOK ==
  /\ IsFiniteSet(ledger)
  /\ faults \in [ScoreTenants -> [Keys -> Nat]]
  /\ expired \in [ScoreTenants -> [Keys -> Nat]]

DInv == IInv /\ CountersOK /\ \A t \in ScoreTenants, k \in Keys : Budget(t, k)

(* The histories stay numbers.                                             *)
LEMMA CountersStep ==
  ASSUME IInv, CountersOK, [ScoreNext]_scoreVars
  PROVE  CountersOK'
<1>1. ASSUME NEW g \in Gateways, Serve(g) PROVE CountersOK'
  <2>1. CASE Record(g)
    BY <2>1, FS_AddElement DEF Record, CountersOK
  <2>2. CASE Fail(g)
    <3>1. CASE HasKey(g)
      <4>1. call[g].tenant \in ScoreTenants /\ call[g].key \in Keys
        BY <2>2, <3>1 DEF Fail, IInv, ScoreTypeOK, Call, HasKey
      <4> QED  BY <2>2, <3>1, <4>1 DEF Fail, Counted, CountersOK
    <3>2. CASE ~ HasKey(g)
      BY <2>2, <3>2 DEF Fail, Counted, CountersOK
    <3> QED  BY <3>1, <3>2
  <2>3. CASE ~ Record(g) /\ ~ Fail(g)
    BY <1>1, <2>3
    DEF Serve, Receive, Replay, Miss, ComputeScore, StoreResult, Respond, CountersOK
  <2> QED  BY <2>1, <2>2, <2>3
<1>2. ASSUME NEW t \in ScoreTenants, NEW k \in Keys, Expire(t, k) PROVE CountersOK'
  BY <1>2 DEF Expire, CountersOK
<1>3. CASE SourceChanges \/ UNCHANGED scoreVars
  BY <1>3 DEF SourceChanges, scoreVars, CountersOK
<1> QED  BY <1>1, <1>2, <1>3 DEF ScoreNext

(* One element more adds one at most.                                      *)
LEMMA OneMore ==
  ASSUME NEW S, NEW x, IsFiniteSet(S)
  PROVE  IsFiniteSet(S \cup {x}) /\ Cardinality(S \cup {x}) <= Cardinality(S) + 1
<1>1. Cardinality(S) \in Nat
  BY FS_CardinalityType
<1> QED  BY <1>1, FS_AddElement

(* A set of processes is finite and no larger than all.                    *)
LEMMA SetsOfGateways ==
  ASSUME NEW S \in SUBSET Gateways
  PROVE  IsFiniteSet(S) /\ Cardinality(S) \in Nat /\ Cardinality(S) <= AllGateways
BY FS_Subset, FS_CardinalityType, GatewayAssumption DEF AllGateways

\* The numbers a budget is made of.
LEMMA BudgetNumbers ==
  ASSUME CountersOK, NEW t \in ScoreTenants, NEW k \in Keys
  PROVE  /\ Cardinality(EntriesUnder(t, k)) \in Nat
         /\ Cardinality(Missed(t, k)) \in Nat
         /\ Cardinality(Storing(t, k)) \in Nat
         /\ Cardinality(Missed(t, k)) + Cardinality(Storing(t, k)) <= AllGateways
         /\ AllGateways \in Nat /\ Troubles(t, k) \in Nat
         /\ AllGateways * Troubles(t, k) \in Nat
         /\ AllGateways * (Troubles(t, k) + 1) = AllGateways * Troubles(t, k) + AllGateways
<1> DEFINE M == Missed(t, k)
           S == Storing(t, k)
<1>1. M \subseteq Gateways /\ S \subseteq Gateways /\ M \cap S = {} /\ M \cup S \subseteq Gateways
  BY DEF Missed, Storing
<1>2. /\ IsFiniteSet(M) /\ IsFiniteSet(S) /\ Cardinality(M) \in Nat /\ Cardinality(S) \in Nat
      /\ Cardinality(M \cup S) <= AllGateways
  BY <1>1, SetsOfGateways
<1>3. Cardinality({}) = 0
  BY FS_EmptySet
<1>4. Cardinality(M \cup S) = Cardinality(M) + Cardinality(S)
  <2>1. Cardinality(M \cap S) = 0
    BY <1>1, <1>3
  <2>2. IsFiniteSet(M) /\ IsFiniteSet(S) /\ Cardinality(M) \in Nat /\ Cardinality(S) \in Nat
    BY <1>2
  <2> HIDE DEF M, S
  <2>3. Cardinality(M \cup S) = Cardinality(M) + Cardinality(S) - Cardinality(M \cap S)
    BY <2>2, FS_Union
  <2> QED  BY <2>1, <2>2, <2>3
<1>5. IsFiniteSet(EntriesUnder(t, k))
  BY FS_Subset DEF CountersOK, EntriesUnder
<1>6. Cardinality(EntriesUnder(t, k)) \in Nat
  BY <1>5, FS_CardinalityType
<1>7. AllGateways \in Nat
  BY GatewayAssumption, FS_CardinalityType DEF AllGateways
<1>8. Troubles(t, k) \in Nat
  BY DEF Troubles, CountersOK
<1>9. AllGateways * Troubles(t, k) \in Nat
  BY <1>7, <1>8
<1>10. AllGateways * (Troubles(t, k) + 1) = AllGateways * Troubles(t, k) + AllGateways
  BY <1>7, <1>8
<1> QED  BY <1>2, <1>4, <1>6, <1>7, <1>8, <1>9, <1>10

\* A step that takes nobody out of Storing, adds nobody to Missed once there is
\* a result, and records nothing, keeps the budget.
LEMMA BudgetKept ==
  ASSUME CountersOK, CountersOK', NEW t \in ScoreTenants, NEW k \in Keys, Budget(t, k),
         ledger' = ledger, Troubles(t, k)' = Troubles(t, k),
         store'[t][k] = Nothing <=> store[t][k] = Nothing,
         store[t][k] = Nothing => Storing(t, k) \subseteq Storing(t, k)',
         store[t][k] # Nothing => Missed(t, k)' \subseteq Missed(t, k)
  PROVE  Budget(t, k)'
<1>1. Storing(t, k)' \subseteq Gateways /\ Missed(t, k) \subseteq Gateways
  BY DEF Storing, Missed
<1>2. /\ store[t][k] = Nothing => Cardinality(Storing(t, k)) <= Cardinality(Storing(t, k)')
      /\ store[t][k] # Nothing => Cardinality(Missed(t, k)') <= Cardinality(Missed(t, k))
  BY <1>1, SetsOfGateways, FS_Subset
<1>3. Cardinality(Storing(t, k)') \in Nat /\ Cardinality(Missed(t, k)') \in Nat
  BY SetsOfGateways DEF Storing, Missed
<1>4. EntriesUnder(t, k)' = EntriesUnder(t, k)
  BY DEF EntriesUnder
<1> QED
  BY <1>2, <1>3, <1>4, BudgetNumbers DEF Budget

\* Another failure, or another loss of the key, pays for every gateway.
LEMMA BudgetRaised ==
  ASSUME CountersOK, CountersOK', NEW t \in ScoreTenants, NEW k \in Keys, Budget(t, k),
         ledger' = ledger, Troubles(t, k)' = Troubles(t, k) + 1,
         store'[t][k] # Nothing => store'[t][k] = store[t][k],
         Missed(t, k)' \subseteq Missed(t, k)
  PROVE  Budget(t, k)'
<1>1. Missed(t, k) \subseteq Gateways
  BY DEF Missed
<1>2. Cardinality(Missed(t, k)') <= Cardinality(Missed(t, k))
  BY <1>1, SetsOfGateways, FS_Subset
<1>3. Cardinality(Storing(t, k)') \in Nat /\ Cardinality(Missed(t, k)') \in Nat
  BY SetsOfGateways DEF Storing, Missed
<1>4. EntriesUnder(t, k)' = EntriesUnder(t, k)
  BY DEF EntriesUnder
<1>5. AllGateways * Troubles(t, k)' = AllGateways * Troubles(t, k) + AllGateways
  BY BudgetNumbers
<1> QED
  BY <1>2, <1>3, <1>4, <1>5, BudgetNumbers DEF Budget, AllGateways

(* Every step keeps the account of a key: a call that is processed was one *)
(* of those under way.                                                     *)
LEMMA BudgetStep ==
  ASSUME IInv, IInv', CountersOK, CountersOK', [ScoreNext]_scoreVars,
         NEW t \in ScoreTenants, NEW k \in Keys, Budget(t, k)
  PROVE  Budget(t, k)'
<1>1. ASSUME NEW g \in Gateways, NEW u \in ScoreTenants, NEW j \in Keys \cup {NoKey}, Receive(g, u, j)
      PROVE  Budget(t, k)'
  <2>1. Storing(t, k) \subseteq Storing(t, k)' /\ Missed(t, k)' \subseteq Missed(t, k)
    BY <1>1, KeyAssumption DEF Receive, Storing, Missed, IInv, ScoreTypeOK
  <2> QED  BY <1>1, <2>1, BudgetKept DEF Receive, Troubles
<1>2. ASSUME NEW g \in Gateways, Replay(g) \/ Respond(g) PROVE Budget(t, k)'
  <2>1. Storing(t, k) \subseteq Storing(t, k)' /\ Missed(t, k)' \subseteq Missed(t, k)
    BY <1>2 DEF Replay, Respond, End, Storing, Missed, IInv, ScoreTypeOK
  <2> QED  BY <1>2, <2>1, BudgetKept DEF Replay, Respond, Troubles
<1>3. ASSUME NEW g \in Gateways, Miss(g) PROVE Budget(t, k)'
  <2>1. Storing(t, k) \subseteq Storing(t, k)'
    BY <1>3 DEF Miss, Storing, IInv, ScoreTypeOK
  <2>2. store[t][k] # Nothing => Missed(t, k)' \subseteq Missed(t, k)
    BY <1>3 DEF Miss, Stored, Missed, IInv, ScoreTypeOK
  <2> QED  BY <1>3, <2>1, <2>2, BudgetKept DEF Miss, Troubles
<1>4. ASSUME NEW g \in Gateways, ComputeScore(g) PROVE Budget(t, k)'
  <2>1. Storing(t, k) \subseteq Storing(t, k)' /\ Missed(t, k)' \subseteq Missed(t, k)
    BY <1>4 DEF ComputeScore, Storing, Missed, IInv, ScoreTypeOK
  <2> QED  BY <1>4, <2>1, BudgetKept DEF ComputeScore, Troubles
<1>5. ASSUME NEW g \in Gateways, Record(g) PROVE Budget(t, k)'
  <2> DEFINE e == [tenant  |-> call[g].tenant, key   |-> call[g].key,
                   request |-> result[g].request, score |-> result[g].score]
  <2>0. ledger' = ledger \cup {e} /\ e.tenant = call[g].tenant /\ e.key = call[g].key
    BY <1>5 DEF Record
  <2> HIDE DEF e
  <2>1. CASE call[g].tenant = t /\ call[g].key = k
    <3>1. g \in Missed(t, k) /\ g \notin Storing(t, k) /\ HasKey(g)
      BY <1>5, <2>1, KeyAssumption DEF Record, Missed, Storing, HasKey
    <3>2. /\ Missed(t, k)' \subseteq Missed(t, k) \ {g}
          /\ Storing(t, k)' = Storing(t, k) \cup {g}
      BY <1>5, <2>1, <3>1 DEF Record, Missed, Storing, IInv, ScoreTypeOK
    <3>3. EntriesUnder(t, k)' \subseteq EntriesUnder(t, k) \cup {e}
      BY <2>0 DEF EntriesUnder
    <3>4. IsFiniteSet(EntriesUnder(t, k))
      BY FS_Subset DEF CountersOK, EntriesUnder
    <3>5. IsFiniteSet(EntriesUnder(t, k) \cup {e})
           /\ Cardinality(EntriesUnder(t, k) \cup {e}) <= Cardinality(EntriesUnder(t, k)) + 1
      BY <3>4, OneMore
    <3>6. Cardinality(EntriesUnder(t, k)') <= Cardinality(EntriesUnder(t, k)) + 1
      <4>1. /\ Cardinality(EntriesUnder(t, k)') <= Cardinality(EntriesUnder(t, k) \cup {e})
            /\ Cardinality(EntriesUnder(t, k)') \in Nat
            /\ Cardinality(EntriesUnder(t, k) \cup {e}) \in Nat
        BY <3>3, <3>5, FS_Subset, FS_CardinalityType
      <4> QED  BY <3>5, <4>1, BudgetNumbers
    <3>7. Missed(t, k) \subseteq Gateways /\ Storing(t, k) \subseteq Gateways
      BY DEF Missed, Storing
    <3>8. Cardinality(Missed(t, k) \ {g}) = Cardinality(Missed(t, k)) - 1
      BY <3>1, <3>7, SetsOfGateways, FS_RemoveElement
    <3>9. Cardinality(Missed(t, k)') <= Cardinality(Missed(t, k)) - 1
      BY <3>2, <3>7, <3>8, SetsOfGateways, FS_Subset
    <3>10. Cardinality(Storing(t, k)') = Cardinality(Storing(t, k)) + 1
      BY <3>1, <3>2, <3>7, SetsOfGateways, FS_AddElement
    <3>11. store' = store /\ Troubles(t, k)' = Troubles(t, k)
      BY <1>5 DEF Record, Troubles
    <3>12. /\ Cardinality(EntriesUnder(t, k)') \in Nat /\ Cardinality(Missed(t, k)') \in Nat
      <4>1. Missed(t, k)' \subseteq Gateways
        BY DEF Missed
      <4>2. IsFiniteSet(EntriesUnder(t, k)')
        BY <3>3, <3>5, FS_Subset
      <4> QED  BY <4>1, <4>2, SetsOfGateways, FS_CardinalityType
    <3> QED  BY <3>6, <3>9, <3>10, <3>11, <3>12, BudgetNumbers DEF Budget
  <2>2. CASE ~ (call[g].tenant = t /\ call[g].key = k)
    <3>1. EntriesUnder(t, k)' = EntriesUnder(t, k)
      BY <2>0, <2>2 DEF EntriesUnder
    <3>2. Missed(t, k)' = Missed(t, k) /\ Storing(t, k)' = Storing(t, k)
      BY <1>5, <2>2 DEF Record, Missed, Storing, IInv, ScoreTypeOK
    <3> QED  BY <1>5, <3>1, <3>2 DEF Record, Budget, Troubles
  <2> QED  BY <2>1, <2>2
<1>6. ASSUME NEW g \in Gateways, StoreResult(g) PROVE Budget(t, k)'
  <2>1. call[g].tenant \in ScoreTenants /\ call[g].key \in Keys /\ result[g] \in Score
    BY <1>6 DEF StoreResult, IInv, ScoreTypeOK, StoringHasKey, HasKey, Call
  <2>2. result[g] # Nothing
    BY <2>1 DEF Score, Nothing
  <2>3. Missed(t, k)' = Missed(t, k)
    BY <1>6 DEF StoreResult, Missed, IInv, ScoreTypeOK
  <2>4. CASE call[g].tenant = t /\ call[g].key = k
    <3>1. store'[t][k] # Nothing
      BY <1>6, <2>1, <2>2, <2>4 DEF StoreResult, IInv, ScoreTypeOK
    <3>2. EntriesUnder(t, k)' = EntriesUnder(t, k) /\ Troubles(t, k)' = Troubles(t, k)
      BY <1>6 DEF StoreResult, EntriesUnder, Troubles
    <3> QED  BY <2>3, <3>1, <3>2, BudgetNumbers DEF Budget
  <2>5. CASE ~ (call[g].tenant = t /\ call[g].key = k)
    <3>1. store'[t][k] = store[t][k]
      BY <1>6, <2>1, <2>5 DEF StoreResult, IInv, ScoreTypeOK
    <3>2. Storing(t, k) \subseteq Storing(t, k)'
      BY <1>6, <2>5 DEF StoreResult, Storing, IInv, ScoreTypeOK
    <3> QED  BY <1>6, <2>3, <3>1, <3>2, BudgetKept DEF StoreResult, Troubles
  <2> QED  BY <2>4, <2>5
<1>7. ASSUME NEW g \in Gateways, Fail(g) PROVE Budget(t, k)'
  <2>1. Missed(t, k)' \subseteq Missed(t, k)
    BY <1>7 DEF Fail, End, Missed, IInv, ScoreTypeOK
  <2>2. CASE call[g].tenant = t /\ call[g].key = k
    <3>1. Troubles(t, k)' = Troubles(t, k) + 1
      BY <1>7, <2>2, KeyAssumption DEF Fail, Counted, HasKey, Troubles, CountersOK
    <3> QED  BY <1>7, <2>1, <3>1, BudgetRaised DEF Fail
  <2>3. CASE ~ (call[g].tenant = t /\ call[g].key = k)
    <3>1. Troubles(t, k)' = Troubles(t, k)
      BY <1>7, <2>3 DEF Fail, Counted, HasKey, Troubles, CountersOK
    <3>2. Storing(t, k) \subseteq Storing(t, k)'
      BY <1>7, <2>3 DEF Fail, End, Storing, IInv, ScoreTypeOK
    <3> QED  BY <1>7, <2>1, <3>1, <3>2, BudgetKept DEF Fail
  <2> QED  BY <2>2, <2>3
<1>8. ASSUME NEW u \in ScoreTenants, NEW j \in Keys, Expire(u, j) PROVE Budget(t, k)'
  <2>1. Missed(t, k)' = Missed(t, k) /\ Storing(t, k)' = Storing(t, k)
    BY <1>8 DEF Expire, Missed, Storing
  <2>2. CASE u = t /\ j = k
    <3>1. Troubles(t, k)' = Troubles(t, k) + 1 /\ store'[t][k] = Nothing
      BY <1>8, <2>2 DEF Expire, Troubles, CountersOK, IInv, ScoreTypeOK
    <3> QED  BY <1>8, <2>1, <3>1, BudgetRaised DEF Expire
  <2>3. CASE ~ (u = t /\ j = k)
    <3>1. Troubles(t, k)' = Troubles(t, k) /\ store'[t][k] = store[t][k]
      BY <1>8, <2>3 DEF Expire, Troubles, CountersOK, IInv, ScoreTypeOK
    <3> QED  BY <1>8, <2>1, <3>1, BudgetKept DEF Expire
  <2> QED  BY <2>2, <2>3
<1>9. CASE SourceChanges \/ UNCHANGED scoreVars
  <2>1. Missed(t, k)' = Missed(t, k) /\ Storing(t, k)' = Storing(t, k)
    BY <1>9 DEF SourceChanges, scoreVars, Missed, Storing
  <2> QED  BY <1>9, <2>1, BudgetKept DEF SourceChanges, scoreVars, Troubles
<1> QED
  BY <1>1, <1>2, <1>3, <1>4, <1>5, <1>6, <1>7, <1>8, <1>9 DEF ScoreNext, Serve

(* The initial states satisfy the account.                                 *)
LEMMA InitDInv == ScoreInit => DInv
<1> SUFFICES ASSUME ScoreInit, NEW t \in ScoreTenants, NEW k \in Keys PROVE CountersOK /\ Budget(t, k)
  BY InitIInv, FS_EmptySet DEF DInv, ScoreInit, CountersOK
<1>1. CountersOK
  BY FS_EmptySet DEF ScoreInit, CountersOK
<1>2. EntriesUnder(t, k) = {} /\ store[t][k] = Nothing
  BY DEF ScoreInit, EntriesUnder
<1>3. Cardinality(EntriesUnder(t, k)) = 0
  BY <1>2, FS_EmptySet
<1> QED  BY <1>1, <1>2, <1>3, BudgetNumbers DEF Budget

(* Every step keeps it.                                                    *)
LEMMA StepDInv == DInv /\ [ScoreNext]_scoreVars => DInv'
<1> SUFFICES ASSUME DInv, [ScoreNext]_scoreVars PROVE DInv'
  OBVIOUS
<1>1. IInv'
  BY StepIInv DEF DInv
<1>2. CountersOK'
  BY CountersStep DEF DInv
<1>3. ASSUME NEW t \in ScoreTenants, NEW k \in Keys PROVE Budget(t, k)'
  BY <1>1, <1>2, BudgetStep DEF DInv
<1> QED  BY <1>1, <1>2, <1>3 DEF DInv

(* However many gateways, tenants and calls there are, a key is processed  *)
(* at most once per gateway, and as often again for every failure under it *)
(* and every time Redis forgot it (legalscore.py 160-254).                 *)
THEOREM DuplicatesAreBounded == ScoreSpec => []DuplicatesBounded
<1>1. DInv => DuplicatesBounded
  <2> SUFFICES ASSUME DInv, NEW t \in ScoreTenants, NEW k \in Keys
               PROVE  Cardinality(EntriesUnder(t, k))
                        <= AllGateways * (1 + faults[t][k] + expired[t][k])
    BY DEF DuplicatesBounded, AllGateways
  <2>1. CountersOK /\ Budget(t, k)
    BY DEF DInv
  <2>2. 1 + faults[t][k] + expired[t][k] = Troubles(t, k) + 1
    BY <2>1 DEF Troubles, CountersOK
  <2> QED  BY <2>1, <2>2, BudgetNumbers DEF Budget
<1> QED  BY <1>1, InitDInv, StepDInv, PTL DEF ScoreSpec
-----------------------------------------------------------------------------
(* Batches.  That an entry is truthful and never goes back rests on what   *)
(* the one task of a job knows when it writes: it is the only writer, it   *)
(* was started by the only message of the job, and it has kept everything  *)
(* it ever wrote.                                                          *)

Message == [name : {SentName, RegisteredName}, job : Jobs]

BatchTyped ==
  /\ BatchTypeOK
  /\ read \in [Jobs -> Entry \cup {NoEntry}]
  /\ queue \subseteq Message

\* A job has one message, until the task starts or the message is dropped.
OneMessage ==
  /\ \A m \in queue : phase[m.job] = "sent"
  /\ \A m, n \in queue : m.job = n.job => m = n

\* Where a task stands, what it is doing to the tracker and what it has.
TaskKnows(j) ==
  /\ step[j] # "idle" => phase[j] \in {"first", "progress", "final"}
  /\ step[j] \in {"ttl", "setex"} => read[j] # NoEntry
  /\ phase[j] \in {"none", "sending", "sent", "first"} => scored[j] = {}
  /\ phase[j] \in {"final", "finished"} => scored[j] = Items
  /\ phase[j] = "none" => tracker[j] = NoEntry

\* What is in the tracker, the task has.
EntryBehind(j) ==
  tracker[j] # NoEntry =>
    /\ tracker[j].results \subseteq scored[j]
    /\ tracker[j].processed = Cardinality(tracker[j].results)
    /\ tracker[j].status = "done" => phase[j] = "finished" /\ tracker[j].results = Items

BInv == BatchTyped /\ OneMessage /\ \A j \in Jobs : TaskKnows(j) /\ EntryBehind(j)

(* A set of items is no larger than the batch.                             *)
LEMMA ItemSets ==
  /\ Total \in Nat
  /\ \A S \in SUBSET Items : Cardinality(S) \in 0..Total
<1>1. ASSUME NEW S \in SUBSET Items PROVE Cardinality(S) \in Nat /\ Cardinality(S) <= Total
  BY FS_Subset, FS_CardinalityType, BatchAssumption DEF Total
<1>2. Total \in Nat
  BY FS_CardinalityType, BatchAssumption DEF Total
<1> QED  BY <1>1, <1>2

\* The entry an update writes.
LEMMA UpdateShape ==
  ASSUME BInv, NEW j \in Jobs, step[j] = "setex"
  PROVE  /\ Updated(j) \in Entry /\ Updated(j) # NoEntry
         /\ Updated(j).results = scored[j]
         /\ Updated(j).processed = Cardinality(scored[j])
         /\ Updated(j).status = IF phase[j] = "final" THEN "done" ELSE "processing"
<1>1. read[j] \in Entry
  BY DEF BInv, BatchTyped, TaskKnows
<1>2. scored[j] \in SUBSET Items
  BY DEF BInv, BatchTyped, BatchTypeOK
<1>3. Cardinality(scored[j]) \in 0..Total
  BY <1>2, ItemSets
<1> QED  BY <1>1, <1>2, <1>3 DEF Updated, Entry, NoEntry, Status

(* Every step keeps the types of a batch.                                  *)
LEMMA BatchTypedStep == BInv /\ [BatchNext]_batchVars => BatchTyped'
<1> SUFFICES ASSUME BInv, [BatchNext]_batchVars PROVE BatchTyped'
  OBVIOUS
<1>0. BatchTyped
  BY DEF BInv
<1> USE DEF BatchTyped, BatchTypeOK
<1>1. ASSUME NEW j \in Jobs, CreateJob(j) PROVE BatchTyped'
  <2>1. [status |-> "queued", processed |-> 0, results |-> {}] \in Entry
    BY ItemSets DEF Entry, Status
  <2>2. BatchTtl \in 0..BatchTtl
    BY BatchAssumption
  <2> QED  BY <1>0, <1>1, <2>1, <2>2 DEF CreateJob, Phases
<1>2. ASSUME NEW j \in Jobs, SendTask(j) \/ CallTask(j) PROVE BatchTyped'
  <2>1. PICK name \in {SentName, RegisteredName} : SendAs(j, name)
    BY <1>2 DEF SendTask, CallTask
  <2>2. [name |-> name, job |-> j] \in Message
    BY DEF Message
  <2> QED  BY <1>0, <2>1, <2>2 DEF SendAs, Phases
<1>3. ASSUME NEW j \in Jobs, SendFails(j) \/ TaskDies(j) PROVE BatchTyped'
  BY <1>0, <1>3 DEF SendFails, TaskDies, Phases
<1>4. ASSUME NEW m \in queue, Deliver(m) PROVE BatchTyped'
  BY <1>0, <1>4 DEF Deliver, StartTask, DropUnknown, Phases, Message
<1>5. ASSUME NEW j \in Jobs, GetEntry(j) PROVE BatchTyped'
  BY <1>0, <1>5 DEF GetEntry, AfterUpdate, Phases
<1>6. ASSUME NEW j \in Jobs, ReadTtl(j) PROVE BatchTyped'
  BY <1>0, <1>6 DEF ReadTtl
<1>7. ASSUME NEW j \in Jobs, WriteEntry(j) PROVE BatchTyped'
  <2>1. Updated(j) \in Entry
    BY <1>7, UpdateShape DEF WriteEntry
  <2>2. NewTtl(j) \in 0..BatchTtl
    BY <1>0, BatchAssumption DEF NewTtl
  <2> QED  BY <1>0, <1>7, <2>1, <2>2 DEF WriteEntry, AfterUpdate, Phases
<1>8. ASSUME NEW j \in Jobs, NEW i \in Items, ScoreItem(j, i) PROVE BatchTyped'
  BY <1>0, <1>8 DEF ScoreItem, Phases
<1>9. ASSUME NEW j \in Jobs, Finish(j) PROVE BatchTyped'
  BY <1>0, <1>9 DEF Finish, Phases
<1>10. ASSUME NEW j \in Jobs, Evict(j) PROVE BatchTyped'
  BY <1>0, <1>10, BatchAssumption DEF Evict, taskVars
<1>11. CASE Tick
  BY <1>0, <1>11, BatchAssumption DEF Tick, taskVars
<1>12. CASE UNCHANGED batchVars
  BY <1>0, <1>12 DEF batchVars, taskVars
<1> QED
  BY <1>1, <1>2, <1>3, <1>4, <1>5, <1>6, <1>7, <1>8, <1>9, <1>10, <1>11, <1>12
  DEF BatchNext, Submit, Work

(* A job has one message or one task, never both.                          *)
LEMMA OneMessageStep == BInv /\ [BatchNext]_batchVars => OneMessage'
<1> SUFFICES ASSUME BInv, [BatchNext]_batchVars PROVE OneMessage'
  OBVIOUS
<1>0. /\ phase \in [Jobs -> Phases] /\ queue \subseteq Message /\ OneMessage
      /\ \A j \in Jobs : step[j] # "idle" => phase[j] \in {"first", "progress", "final"}
  BY DEF BInv, BatchTyped, BatchTypeOK, TaskKnows
<1>1. ASSUME NEW j \in Jobs, SendTask(j) \/ CallTask(j) PROVE OneMessage'
  <2>1. PICK name : SendAs(j, name)
    BY <1>1 DEF SendTask, CallTask
  <2>2. \A m \in queue : m.job # j
    BY <1>0, <2>1 DEF SendAs, OneMessage
  <2> QED  BY <1>0, <2>1, <2>2 DEF SendAs, OneMessage, Message
<1>2. ASSUME NEW m \in queue, Deliver(m) PROVE OneMessage'
  <2>1. \A n \in queue : n # m => n.job # m.job
    BY <1>0 DEF OneMessage
  <2>2. queue' = queue \ {m} /\ \A n \in queue : n.job # m.job => phase'[n.job] = phase[n.job]
    BY <1>0, <1>2 DEF Deliver, StartTask, DropUnknown, Message
  <2> QED  BY <1>0, <2>1, <2>2 DEF OneMessage
<1>3. ASSUME NEW j \in Jobs, queue' = queue, phase[j] # "sent",
             phase' = [phase EXCEPT ![j] = phase'[j]]
      PROVE  OneMessage'
  BY <1>0, <1>3 DEF OneMessage, Message
<1>4. ASSUME NEW j \in Jobs, CreateJob(j) \/ SendFails(j) \/ TaskDies(j) PROVE OneMessage'
  BY <1>0, <1>3, <1>4 DEF CreateJob, SendFails, TaskDies, Running
<1>5. ASSUME NEW j \in Jobs, Work(j) PROVE OneMessage'
  BY <1>0, <1>3, <1>5 DEF Work, GetEntry, ReadTtl, WriteEntry, ScoreItem, Finish
<1>6. ASSUME queue' = queue, phase' = phase PROVE OneMessage'
  BY <1>0, <1>6 DEF OneMessage
<1>7. ASSUME NEW j \in Jobs, Evict(j) PROVE OneMessage'
  BY <1>6, <1>7 DEF Evict, taskVars
<1>8. CASE Tick \/ UNCHANGED batchVars
  BY <1>6, <1>8 DEF Tick, batchVars, taskVars
<1> QED
  BY <1>1, <1>2, <1>4, <1>5, <1>7, <1>8 DEF BatchNext, Submit

\* A step of another job, or of Redis, leaves a task alone.
LEMMA OtherTasks ==
  ASSUME BInv, NEW j \in Jobs,
         \/ \E i \in Jobs \ {j} : Submit(i) \/ Work(i) \/ TaskDies(i) \/ Evict(i)
         \/ \E m \in queue : m.job # j /\ Deliver(m)
         \/ Evict(j) \/ Tick \/ UNCHANGED batchVars
  PROVE  /\ UNCHANGED <<phase[j], step[j], scored[j], read[j]>>
         /\ tracker'[j] = tracker[j] \/ tracker'[j] = NoEntry
<1>0. BatchTyped
  BY DEF BInv
<1>1. ASSUME NEW i \in Jobs \ {j}, Submit(i)
      PROVE  UNCHANGED <<phase[j], step[j], scored[j], read[j], tracker[j]>>
  BY <1>0, <1>1
  DEF Submit, CreateJob, SendTask, CallTask, SendAs, SendFails, BatchTyped, BatchTypeOK
<1>2. ASSUME NEW i \in Jobs \ {j}, Work(i) \/ TaskDies(i) \/ Evict(i)
      PROVE  UNCHANGED <<phase[j], step[j], scored[j], read[j], tracker[j]>>
  BY <1>0, <1>2
  DEF Work, GetEntry, ReadTtl, WriteEntry, ScoreItem, Finish, TaskDies, Evict, taskVars,
      BatchTyped, BatchTypeOK
<1>3. ASSUME NEW m \in queue, m.job # j, Deliver(m)
      PROVE  UNCHANGED <<phase[j], step[j], scored[j], read[j], tracker[j]>>
  BY <1>0, <1>3 DEF Deliver, StartTask, DropUnknown, BatchTyped, BatchTypeOK, Message
<1>4. CASE Evict(j) \/ Tick \/ UNCHANGED batchVars
  BY <1>0, <1>4 DEF Evict, Tick, batchVars, taskVars, BatchTyped, BatchTypeOK
<1> QED  BY <1>1, <1>2, <1>3, <1>4

(* What a task has behind it, and what it left in the tracker, stay in     *)
(* step.                                                                   *)
LEMMA TaskStep ==
  ASSUME BInv, BatchTyped', [BatchNext]_batchVars, NEW j \in Jobs
  PROVE  TaskKnows(j)' /\ EntryBehind(j)'
<1>0. BatchTyped /\ OneMessage /\ TaskKnows(j) /\ EntryBehind(j)
  BY DEF BInv
<1> USE DEF BatchTyped, BatchTypeOK, TaskKnows, EntryBehind
<1>1. CASE CreateJob(j)
  <2>1. Cardinality({}) = 0
    BY FS_EmptySet
  <2> QED  BY <1>0, <1>1, <2>1 DEF CreateJob
<1>2. CASE SendTask(j) \/ CallTask(j) \/ SendFails(j) \/ TaskDies(j)
  BY <1>0, <1>2 DEF SendTask, CallTask, SendAs, SendFails, TaskDies, Running
<1>3. ASSUME NEW m \in queue, m.job = j, Deliver(m) PROVE TaskKnows(j)' /\ EntryBehind(j)'
  BY <1>0, <1>3 DEF Deliver, StartTask, DropUnknown, OneMessage
<1>4. CASE GetEntry(j)
  BY <1>0, <1>4 DEF GetEntry, AfterUpdate
<1>5. CASE ReadTtl(j)
  BY <1>0, <1>5 DEF ReadTtl
<1>6. CASE WriteEntry(j)
  <2>1. /\ tracker'[j].results = scored[j]
        /\ tracker'[j].processed = Cardinality(scored[j])
        /\ tracker'[j].status = IF phase[j] = "final" THEN "done" ELSE "processing"
    BY <1>0, <1>6, UpdateShape DEF WriteEntry
  <2> QED  BY <1>0, <1>6, <2>1 DEF WriteEntry, AfterUpdate
<1>7. ASSUME NEW i \in Items, ScoreItem(j, i) PROVE TaskKnows(j)' /\ EntryBehind(j)'
  BY <1>0, <1>7 DEF ScoreItem
<1>8. CASE Finish(j)
  BY <1>0, <1>8 DEF Finish
<1>9. CASE \/ \E i \in Jobs \ {j} : Submit(i) \/ Work(i) \/ TaskDies(i) \/ Evict(i)
           \/ \E m \in queue : m.job # j /\ Deliver(m)
           \/ Evict(j) \/ Tick \/ UNCHANGED batchVars
  <2>1. /\ UNCHANGED <<phase[j], step[j], scored[j], read[j]>>
        /\ tracker'[j] = tracker[j] \/ tracker'[j] = NoEntry
    BY <1>9, OtherTasks
  <2> QED  BY <1>0, <2>1
<1> QED
  BY <1>1, <1>2, <1>3, <1>4, <1>5, <1>6, <1>7, <1>8, <1>9 DEF BatchNext, Submit, Work

(* The invariant holds in every reachable state.                           *)
LEMMA BatchInvariance == BatchSpec => []BInv
<1>1. BatchInit => BInv
  <2> SUFFICES ASSUME BatchInit PROVE BInv
    OBVIOUS
  <2>1. BatchTyped
    BY BatchAssumption DEF BatchInit, BatchTyped, BatchTypeOK, Phases
  <2> QED  BY <2>1 DEF BatchInit, BInv, OneMessage, TaskKnows, EntryBehind
<1>2. BInv /\ [BatchNext]_batchVars => BInv'
  <2> SUFFICES ASSUME BInv, [BatchNext]_batchVars PROVE BInv'
    OBVIOUS
  <2>1. BatchTyped' /\ OneMessage'
    BY BatchTypedStep, OneMessageStep
  <2>2. \A j \in Jobs : TaskKnows(j)' /\ EntryBehind(j)'
    BY <2>1, TaskStep
  <2> QED  BY <2>1, <2>2 DEF BInv
<1> QED  BY <1>1, <1>2, PTL DEF BatchSpec

(* Whatever a client reads of a job is true when it is read: its counter   *)
(* is the number of results beside it, and a job that is done has all of   *)
(* them (idempotency.py 60-85, tasks.py), for any number of items.         *)
THEOREM TrackerIsSound == BatchSpec => []TrackerSound
<1>1. BInv => TrackerSound
  BY DEF BInv, BatchTyped, EntryBehind, TrackerSound, ProgressTruthful
<1> QED  BY <1>1, BatchInvariance, PTL

(* No update, of whatever job, takes a status, a result or progress away   *)
(* from an entry that stays in Redis.                                      *)
THEOREM TrackerNeverGoesBack == BatchSpec => NeverGoesBack
<1>1. BInv /\ BInv' /\ [BatchNext]_batchVars =>
        \A j \in Jobs : tracker[j] # NoEntry /\ tracker'[j] # NoEntry =>
          /\ Rank(tracker[j].status) <= Rank(tracker'[j].status)
          /\ tracker[j].results \subseteq tracker'[j].results
  <2> SUFFICES ASSUME BInv, [BatchNext]_batchVars, NEW j \in Jobs,
                      tracker[j] # NoEntry, tracker'[j] # NoEntry
               PROVE  /\ Rank(tracker[j].status) <= Rank(tracker'[j].status)
                      /\ tracker[j].results \subseteq tracker'[j].results
    OBVIOUS
  <2>0. BatchTyped /\ TaskKnows(j) /\ EntryBehind(j) /\ tracker[j] \in Entry
    BY DEF BInv, BatchTyped, BatchTypeOK
  <2>1. CASE tracker'[j] = tracker[j]
    <3>1. tracker[j].status \in Status
      BY <2>0 DEF Entry
    <3> QED  BY <2>1, <3>1 DEF Rank, Status
  <2>2. CASE WriteEntry(j)
    <3>1. /\ tracker'[j].results = scored[j]
          /\ tracker'[j].status \in {"done", "processing"}
      BY <2>0, <2>2, UpdateShape DEF WriteEntry, BatchTyped, BatchTypeOK
    <3>2. tracker[j].results \subseteq scored[j] /\ tracker[j].status \in {"queued", "processing"}
      BY <2>0, <2>2 DEF WriteEntry, TaskKnows, EntryBehind, Entry, Status
    <3>3. Rank(tracker[j].status) \in {0, 1} /\ Rank(tracker'[j].status) \in {1, 2}
      BY <3>1, <3>2 DEF Rank
    <3> QED  BY <3>1, <3>2, <3>3
  <2>3. CASE \/ \E i \in Jobs \ {j} : Submit(i) \/ Work(i) \/ TaskDies(i) \/ Evict(i)
             \/ \E m \in queue : m.job # j /\ Deliver(m)
             \/ Evict(j) \/ Tick \/ UNCHANGED batchVars
    BY <2>1, <2>3, OtherTasks
  <2>4. CASE CreateJob(j)
    BY <2>0, <2>4 DEF CreateJob, TaskKnows
  <2>5. CASE \/ SendTask(j) \/ CallTask(j) \/ SendFails(j) \/ TaskDies(j)
             \/ GetEntry(j) \/ ReadTtl(j) \/ Finish(j) \/ \E i \in Items : ScoreItem(j, i)
             \/ \E m \in queue : Deliver(m)
    BY <2>1, <2>5
    DEF SendTask, CallTask, SendAs, SendFails, TaskDies, GetEntry, ReadTtl, Finish, ScoreItem,
        Deliver, StartTask, DropUnknown
  <2> QED  BY <2>2, <2>3, <2>4, <2>5 DEF BatchNext, Submit, Work
<1> QED  BY <1>1, BatchInvariance, PTL DEF BatchSpec, NeverGoesBack
=============================================================================
