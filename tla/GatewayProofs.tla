---------------------------- MODULE GatewayProofs ----------------------------
(***************************************************************************)
(* What surrounds a request: the rate limiter and the authentication, for  *)
(* any number of gateway processes, hosts, accounts, tokens and requests   *)
(* and any limit.                                                          *)
(*                                                                         *)
(* LimitHolds alone is not inductive: a request that was counted below the *)
(* limit is still to be let through.  Those requests are Passing, and the  *)
(* counter in Redis bounds them together with the ones already admitted:   *)
(* every INCR that returns at most Limit uses up one of its values.        *)
(***************************************************************************)
EXTENDS RateLimiter, GatewayAccess, FiniteSetTheorems, TLAPS

Requests == [host : Hosts, tenant : Bearers, now : 0..LastTick]

PTypeOK ==
  /\ ticks \in 0..LastTick
  /\ counter \in [Keys -> Nat]
  /\ forgotten \in [Keys -> Nat]
  /\ admitted \in [Keys -> Nat]
  /\ count \in [Uvicorns -> Nat]
  /\ doing \in [Uvicorns -> {"idle", "incr", "expire", "decide", "unlimited"}]
  /\ req \in [Uvicorns -> Requests \cup {NoRequest}]
  /\ \A g \in Uvicorns : doing[g] # "idle" => req[g] \in Requests

\* The processes that are going to let a request of k through.
Passing(k) ==
  {g \in Uvicorns : /\ doing[g] \in {"expire", "decide"}
                    /\ KeyOf(g) = k /\ count[g] <= RatePerMin}

AtMost(n, m) == IF n <= m THEN n ELSE m

Counted(k) ==
  admitted[k] + Cardinality(Passing(k))
    <= RatePerMin * forgotten[k] + AtMost(counter[k], RatePerMin)

IInv == PTypeOK /\ \A k \in Keys : Counted(k)
-----------------------------------------------------------------------------
\* Every request belongs to a minute of the model.
LEMMA MinuteOf ==
  ASSUME NEW n \in 0..LastTick PROVE n \div Minute \in Minutes
BY LimiterAssumption DEF Minutes

(* The key of a request is one of the keys.                                *)
LEMMA KeyOfRequest ==
  ASSUME NEW g \in Uvicorns, req[g] \in Requests PROVE KeyOf(g) \in Keys
BY MinuteOf DEF Requests, KeyOf, Keys

(* A set of processes is finite.                                           *)
LEMMA GatewaySets ==
  ASSUME NEW S \in SUBSET Uvicorns
  PROVE  IsFiniteSet(S) /\ Cardinality(S) \in Nat
BY FS_Subset, FS_CardinalityType, LimiterAssumption

\* What one process less, or more, does to the number of them.
LEMMA FewerGateways ==
  ASSUME NEW S \in SUBSET Uvicorns, NEW T \in SUBSET S
  PROVE  Cardinality(T) <= Cardinality(S)
BY GatewaySets, FS_Subset

(* One process more adds one at most.                                      *)
LEMMA OneGatewayMore ==
  ASSUME NEW S \in SUBSET Uvicorns, NEW g \in Uvicorns, NEW T \in SUBSET (S \cup {g})
  PROVE  Cardinality(T) <= Cardinality(S) + 1
<1>1. IsFiniteSet(S) /\ Cardinality(S) \in Nat
  BY GatewaySets
<1>2. Cardinality(S \cup {g}) <= Cardinality(S) + 1 /\ S \cup {g} \subseteq Uvicorns
  BY <1>1, FS_AddElement
<1>3. Cardinality(T) <= Cardinality(S \cup {g}) /\ T \subseteq Uvicorns
  BY <1>2, FewerGateways
<1> QED BY <1>1, <1>2, <1>3, GatewaySets

(* One process less takes one at least.                                    *)
LEMMA OneGatewayLess ==
  ASSUME NEW S \in SUBSET Uvicorns, NEW g \in S, NEW T \in SUBSET (S \ {g})
  PROVE  Cardinality(T) + 1 <= Cardinality(S)
<1>1. IsFiniteSet(S) /\ Cardinality(S) \in Nat
  BY GatewaySets
<1>2. Cardinality(S \ {g}) = Cardinality(S) - 1
  BY <1>1, FS_RemoveElement
<1>3. Cardinality(T) <= Cardinality(S \ {g}) /\ T \subseteq Uvicorns
  BY FewerGateways
<1> QED BY <1>1, <1>2, <1>3, GatewaySets
-----------------------------------------------------------------------------
\* Every variable the limit depends on keeps its type.
LEMMA TypeInvariant == LimiterSpec => []PTypeOK
<1>1. LimiterInit => PTypeOK
  BY LimiterAssumption, MinuteOf DEF LimiterInit, PTypeOK
<1>2. PTypeOK /\ [LimiterNext]_limiterVars => PTypeOK'
  <2> SUFFICES ASSUME PTypeOK, [LimiterNext]_limiterVars PROVE PTypeOK'
    OBVIOUS
  <2> USE DEF limiterHistory, redisVars, StepTo, Add
  <2>1. ASSUME NEW g \in Uvicorns, NEW h \in Hosts, NEW t \in Bearers, Receive(g, h, t)
        PROVE  PTypeOK'
    <3>1. [host |-> h, tenant |-> t, now |-> ticks] \in Requests
      BY DEF Requests, PTypeOK
    <3> QED BY <2>1, <3>1 DEF Receive, PTypeOK
  <2>2. ASSUME NEW g \in Uvicorns, NEW n \in {1, 2}, Incr(g, n) PROVE PTypeOK'
    <3>1. KeyOf(g) \in Keys
      BY <2>2, KeyOfRequest DEF Incr, PTypeOK
    <3>2. counter' \in [Keys -> Nat]
      BY <2>2, <3>1 DEF Incr, PTypeOK
    <3>3. count' \in [Uvicorns -> Nat]
      BY <2>2, <3>1, <3>2 DEF Incr, PTypeOK
    <3> QED BY <2>2, <3>2, <3>3 DEF Incr, PTypeOK
  <2>3. ASSUME NEW g \in Uvicorns, SetExpire(g) PROVE PTypeOK'
    BY <2>3 DEF SetExpire, PTypeOK
  <2>4. ASSUME NEW g \in Uvicorns, CommandFails(g) PROVE PTypeOK'
    <3>1. KeyOf(g) \in Keys
      BY <2>4, KeyOfRequest DEF CommandFails, PTypeOK
    <3>2. counter' \in [Keys -> Nat]
      BY <2>4, <3>1 DEF CommandFails, PTypeOK
    <3> QED BY <2>4, <3>2 DEF CommandFails, PTypeOK
  <2>5. ASSUME NEW g \in Uvicorns, Admit(g) PROVE PTypeOK'
    <3>1. Bucket(g) \in Keys
      BY <2>5, KeyOfRequest DEF Admit, PTypeOK, Bucket, KeyOf
    <3> QED BY <2>5, <3>1 DEF Admit, Ends, PTypeOK
  <2>6. ASSUME NEW g \in Uvicorns, Reject(g) PROVE PTypeOK'
    BY <2>6 DEF Reject, Ends, PTypeOK
  <2>7. ASSUME NEW g \in Uvicorns, LimiterUnavailable(g) PROVE PTypeOK'
    BY <2>7 DEF LimiterUnavailable, Ends, PTypeOK
  <2>8. ASSUME NEW g \in Uvicorns, Crash(g) PROVE PTypeOK'
    BY <2>8 DEF Crash, Ends, PTypeOK
  <2>9. ASSUME NEW k \in Keys, Evict(k) PROVE PTypeOK'
    BY <2>9 DEF Evict, PTypeOK
  <2>10. CASE LimiterTick
    BY <2>10, LimiterAssumption DEF LimiterTick, PTypeOK
  <2>11. CASE UNCHANGED limiterVars
    BY <2>11 DEF limiterVars, PTypeOK
  <2> QED BY <2>1, <2>2, <2>3, <2>4, <2>5, <2>6, <2>7, <2>8, <2>9, <2>10, <2>11
          DEF LimiterNext, Dispatch
<1> QED BY <1>1, <1>2, PTL DEF LimiterSpec

(* The processes with a request to let through, before and after a step.   *)
LEMMA PassingGateways ==
  ASSUME NEW k \in Keys
  PROVE  /\ Passing(k) \in SUBSET Uvicorns /\ Cardinality(Passing(k)) \in Nat
         /\ Passing(k)' \in SUBSET Uvicorns /\ Cardinality(Passing(k)') \in Nat
<1>1. Passing(k) \in SUBSET Uvicorns /\ Passing(k)' \in SUBSET Uvicorns
  BY DEF Passing
<1> QED BY <1>1, GatewaySets

\* Nothing new is going to pass and the counter has not fallen.
LEMMA KeptBound ==
  ASSUME PTypeOK, PTypeOK', NEW k \in Keys, Counted(k),
         Passing(k)' \subseteq Passing(k),
         admitted'[k] = admitted[k], forgotten'[k] = forgotten[k],
         counter'[k] >= counter[k]
  PROVE  Counted(k)'
<1>1. Cardinality(Passing(k)') <= Cardinality(Passing(k))
  BY PassingGateways, FewerGateways
<1>2. /\ counter[k] \in Nat /\ counter'[k] \in Nat /\ admitted[k] \in Nat
      /\ RatePerMin * forgotten[k] \in Nat
  BY LimiterAssumption DEF PTypeOK
<1> QED BY <1>1, <1>2, PassingGateways, LimiterAssumption DEF Counted, AtMost

\* Redis loses the counter: a new series of Limit requests begins.
LEMMA LostBound ==
  ASSUME PTypeOK, PTypeOK', NEW k \in Keys, Counted(k),
         Passing(k)' \subseteq Passing(k),
         admitted'[k] = admitted[k], forgotten'[k] = forgotten[k] + 1,
         counter'[k] = 0
  PROVE  Counted(k)'
<1>1. Cardinality(Passing(k)') <= Cardinality(Passing(k))
  BY PassingGateways, FewerGateways
<1>2. counter[k] \in Nat /\ admitted[k] \in Nat /\ forgotten[k] \in Nat
  BY DEF PTypeOK
<1>3. RatePerMin * (forgotten[k] + 1) = RatePerMin * forgotten[k] + RatePerMin
  BY <1>2, LimiterAssumption
<1>4. RatePerMin * forgotten[k] \in Nat
  BY <1>2, LimiterAssumption
<1> QED BY <1>1, <1>2, <1>3, <1>4, PassingGateways, LimiterAssumption DEF Counted, AtMost

(* Every step keeps the count of a key: an INCR adds a process to those    *)
(* passing, a request that is admitted takes one away.                     *)
LEMMA CountedStep ==
  ASSUME PTypeOK, PTypeOK', [LimiterNext]_limiterVars, NEW k \in Keys, Counted(k)
  PROVE  Counted(k)'
<1> USE DEF limiterHistory, redisVars, StepTo, Add
<1>1. ASSUME NEW g \in Uvicorns, NEW h \in Hosts, NEW t \in Bearers, Receive(g, h, t)
      PROVE  Counted(k)'
  <2>1. Passing(k)' \subseteq Passing(k)
    BY <1>1 DEF Receive, Passing, KeyOf, PTypeOK
  <2> QED BY <1>1, <2>1, KeptBound DEF Receive, PTypeOK
<1>2. ASSUME NEW g \in Uvicorns, NEW n \in {1, 2}, Incr(g, n) PROVE Counted(k)'
  <2>1. KeyOf(g) \in Keys
    BY <1>2, KeyOfRequest DEF Incr, PTypeOK
  <2>2. /\ admitted'[k] = admitted[k] /\ forgotten'[k] = forgotten[k]
        /\ counter[k] \in Nat /\ counter'[k] >= counter[k]
    BY <1>2, <2>1 DEF Incr, PTypeOK
  <2>3. CASE KeyOf(g) = k /\ counter'[k] <= RatePerMin
    <3>1. Passing(k)' \subseteq Passing(k) \cup {g}
      BY <1>2 DEF Incr, Passing, KeyOf, PTypeOK
    <3>2. Cardinality(Passing(k)') <= Cardinality(Passing(k)) + 1
      BY <3>1, OneGatewayMore, PassingGateways
    <3>3. counter'[k] \in Nat /\ counter'[k] >= counter[k] + 1
      BY <1>2, <2>1, <2>3 DEF Incr, PTypeOK
    <3>4. admitted[k] \in Nat /\ RatePerMin * forgotten[k] \in Nat
      BY LimiterAssumption DEF PTypeOK
    <3> QED BY <2>2, <2>3, <3>2, <3>3, <3>4, PassingGateways, LimiterAssumption
            DEF Counted, AtMost
  <2>4. CASE ~ (KeyOf(g) = k /\ counter'[k] <= RatePerMin)
    <3>1. Passing(k)' \subseteq Passing(k)
      BY <1>2, <2>1, <2>4 DEF Incr, Passing, KeyOf, PTypeOK
    <3> QED BY <2>2, <3>1, KeptBound
  <2> QED BY <2>3, <2>4
<1>3. ASSUME NEW g \in Uvicorns, SetExpire(g) PROVE Counted(k)'
  <2>1. Passing(k)' \subseteq Passing(k)
    BY <1>3 DEF SetExpire, Passing, KeyOf, PTypeOK
  <2> QED BY <1>3, <2>1, KeptBound DEF SetExpire, PTypeOK
<1>4. ASSUME NEW g \in Uvicorns, CommandFails(g) PROVE Counted(k)'
  <2>1. Passing(k)' \subseteq Passing(k)
    BY <1>4 DEF CommandFails, Passing, KeyOf, PTypeOK
  <2>2. KeyOf(g) \in Keys
    BY <1>4, KeyOfRequest DEF CommandFails, PTypeOK
  <2>3. counter'[k] >= counter[k]
    BY <1>4, <2>2 DEF CommandFails, PTypeOK
  <2> QED BY <1>4, <2>1, <2>3, KeptBound DEF CommandFails
<1>5. ASSUME NEW g \in Uvicorns, Admit(g) PROVE Counted(k)'
  <2>1. Bucket(g) = KeyOf(g) /\ KeyOf(g) \in Keys
    BY <1>5, KeyOfRequest DEF Admit, PTypeOK, Bucket, KeyOf
  <2>2. CASE KeyOf(g) = k
    <3>1. g \in Passing(k)
      BY <1>5, <2>2, LimiterAssumption DEF Admit, OverLimit, Passing, PTypeOK
    <3>2. Passing(k)' \subseteq Passing(k) \ {g}
      BY <1>5 DEF Admit, Ends, Passing, KeyOf, PTypeOK
    <3>3. Cardinality(Passing(k)') + 1 <= Cardinality(Passing(k))
      BY <3>1, <3>2, OneGatewayLess, PassingGateways
    <3>4. /\ admitted'[k] = admitted[k] + 1 /\ admitted[k] \in Nat
          /\ UNCHANGED <<forgotten, counter>>
          /\ counter[k] \in Nat /\ RatePerMin * forgotten[k] \in Nat
      BY <1>5, <2>1, <2>2, LimiterAssumption DEF Admit, PTypeOK
    <3> QED BY <3>3, <3>4, PassingGateways, LimiterAssumption DEF Counted, AtMost
  <2>3. CASE KeyOf(g) # k
    <3>1. Passing(k)' \subseteq Passing(k)
      BY <1>5 DEF Admit, Ends, Passing, KeyOf, PTypeOK
    <3> QED BY <1>5, <2>1, <2>3, <3>1, KeptBound DEF Admit, PTypeOK
  <2> QED BY <2>2, <2>3
<1>6. ASSUME NEW g \in Uvicorns, Reject(g) \/ LimiterUnavailable(g) \/ Crash(g)
      PROVE  Counted(k)'
  <2>1. Passing(k)' \subseteq Passing(k)
    BY <1>6 DEF Reject, LimiterUnavailable, Crash, Ends, Passing, KeyOf, PTypeOK
  <2> QED BY <1>6, <2>1, KeptBound DEF Reject, LimiterUnavailable, Crash, PTypeOK
<1>7. ASSUME NEW e \in Keys, Evict(e) PROVE Counted(k)'
  <2>1. Passing(k)' \subseteq Passing(k)
    BY <1>7 DEF Evict, Passing, KeyOf
  <2>2. CASE e = k
    BY <1>7, <2>1, <2>2, LostBound DEF Evict, PTypeOK
  <2>3. CASE e # k
    BY <1>7, <2>1, <2>3, KeptBound DEF Evict, PTypeOK
  <2> QED BY <2>2, <2>3
<1>8. CASE LimiterTick
  <2>1. Passing(k)' \subseteq Passing(k)
    BY <1>8 DEF LimiterTick, Passing, KeyOf
  <2>2. CASE Gone(k)
    BY <1>8, <2>1, <2>2, LostBound DEF LimiterTick, PTypeOK
  <2>3. CASE ~ Gone(k)
    BY <1>8, <2>1, <2>3, KeptBound DEF LimiterTick, PTypeOK
  <2> QED BY <2>2, <2>3
<1>9. CASE UNCHANGED limiterVars
  <2>1. Passing(k)' \subseteq Passing(k)
    BY <1>9 DEF limiterVars, Passing, KeyOf
  <2> QED BY <1>9, <2>1, KeptBound DEF limiterVars, PTypeOK
<1> QED BY <1>1, <1>2, <1>3, <1>4, <1>5, <1>6, <1>7, <1>8, <1>9 DEF LimiterNext, Dispatch

(* The invariant holds in every reachable state.                           *)
LEMMA Inductive == LimiterSpec => []IInv
<1>1. LimiterInit => \A k \in Keys : Counted(k)
  <2> SUFFICES ASSUME LimiterInit, NEW k \in Keys PROVE Counted(k)
    OBVIOUS
  <2>1. Passing(k) = {}
    BY DEF LimiterInit, Passing
  <2>2. Cardinality(Passing(k)) = 0
    BY <2>1, FS_EmptySet
  <2> QED BY <2>2, LimiterAssumption DEF LimiterInit, Counted, AtMost
<1>2. PTypeOK /\ PTypeOK' /\ (\A k \in Keys : Counted(k)) /\ [LimiterNext]_limiterVars
        => (\A k \in Keys : Counted(k))'
  BY CountedStep
<1>3. LimiterSpec => [](\A k \in Keys : Counted(k))
  BY <1>1, <1>2, TypeInvariant, PTL DEF LimiterSpec
<1> QED BY <1>3, TypeInvariant, PTL DEF IInv

(* However many gateway processes share the counters, at most Limit        *)
(* requests of a key pass in a minute by their count, and as many again    *)
(* for each time Redis lost the counter (middleware.py 116-118).           *)
THEOREM Limited == LimiterSpec => []LimitHolds
<1>1. IInv => LimitHolds
  <2> SUFFICES ASSUME IInv, NEW k \in Keys
               PROVE  admitted[k] <= RatePerMin * (1 + forgotten[k])
    BY DEF LimitHolds
  <2>1. Counted(k) /\ admitted[k] \in Nat /\ forgotten[k] \in Nat /\ counter[k] \in Nat
    BY DEF IInv, PTypeOK
  <2>2. RatePerMin * (1 + forgotten[k]) = RatePerMin * forgotten[k] + RatePerMin
    BY <2>1, LimiterAssumption
  <2>3. RatePerMin * forgotten[k] \in Nat
    BY <2>1, LimiterAssumption
  <2> QED BY <2>1, <2>2, <2>3, PassingGateways, LimiterAssumption DEF Counted, AtMost
<1> QED BY <1>1, Inductive, PTL
-----------------------------------------------------------------------------
(* The counters.  A counter never exceeds the commands that were sent for  *)
(* its key, and those are the requests of the key and what went wrong.     *)

\* The processes about to count a request of k.
Counting(k) == {g \in Uvicorns : doing[g] = "incr" /\ KeyOf(g) = k}

CTypeOK ==
  /\ served \in 0..MaxRequests
  /\ sent \in [Keys -> Nat] /\ troubled \in [Keys -> Nat]
  /\ \A k \in Keys : sent[k] <= served
  /\ rejected \subseteq Keys \X Bearers
  /\ ttl \in [Keys -> 0..Minute]
  /\ \A g \in Uvicorns : doing[g] = "idle" <=> req[g] = NoRequest
  /\ downUntil \in [Uvicorns -> Nat]
  /\ \A g \in Uvicorns : downUntil[g] <= ticks + Cooldown
  /\ \A g \in Uvicorns : doing[g] # "idle" => req[g].now <= ticks

OnlySent(k) ==
  /\ counter[k] + 2 * Cardinality(Counting(k)) <= 2 * sent[k]
  /\ counter[k] + Cardinality(Counting(k)) <= sent[k] + troubled[k]

CountsKnown ==
  \A g \in Uvicorns : doing[g] \in {"expire", "decide"} =>
    count[g] <= sent[KeyOf(g)] + troubled[KeyOf(g)]

CInv ==
  /\ PTypeOK /\ CTypeOK /\ CountsKnown
  /\ \A k \in Keys : OnlySent(k)
  /\ RefusedForOwnRequests /\ ImmortalOnlyByFailure

(* The processes that are counting, before and after a step.               *)
LEMMA CountingGateways ==
  ASSUME NEW k
  PROVE  /\ Counting(k) \in SUBSET Uvicorns /\ Counting(k)' \in SUBSET Uvicorns
         /\ Cardinality(Counting(k)) \in Nat /\ Cardinality(Counting(k)') \in Nat
<1>1. Counting(k) \in SUBSET Uvicorns /\ Counting(k)' \in SUBSET Uvicorns
  BY DEF Counting
<1> QED  BY <1>1, GatewaySets

(* The histories start well typed,                                         *)
LEMMA CTypeInit == LimiterInit => CTypeOK
BY LimiterAssumption DEF LimiterInit, CTypeOK

(* and stay so.                                                            *)
LEMMA CTypeStep == PTypeOK /\ CTypeOK /\ [LimiterNext]_limiterVars => CTypeOK'
<1> SUFFICES ASSUME PTypeOK, CTypeOK, [LimiterNext]_limiterVars PROVE CTypeOK'
  OBVIOUS
<1> USE DEF limiterHistory, redisVars, StepTo, Add
<1>0. \A r \in Requests : r # NoRequest
  BY DEF Requests, NoRequest
<1>1. ASSUME NEW g \in Uvicorns, NEW h \in Hosts, NEW t \in Bearers, Receive(g, h, t) PROVE CTypeOK'
  <2>1. <<h, ticks \div Minute>> \in Keys
    BY MinuteOf DEF Keys, PTypeOK
  <2>2. /\ [host |-> h, tenant |-> t, now |-> ticks] \in Requests
             /\ [host |-> h, tenant |-> t, now |-> ticks] # NoRequest
    BY <1>0 DEF Requests, PTypeOK
  <2>3. served + 1 \in 0..MaxRequests
    BY <1>1, LimiterAssumption DEF Receive, CTypeOK
  <2>4. sent' \in [Keys -> Nat] /\ \A k \in Keys : sent'[k] <= served + 1
    BY <1>1, <2>1 DEF Receive, CTypeOK
  <2>5. \A i \in Uvicorns : doing'[i] = "idle" <=> req'[i] = NoRequest
    BY <1>1, <2>2 DEF Receive, CTypeOK, PTypeOK
  <2>6. \A i \in Uvicorns : doing'[i] # "idle" => req'[i].now <= ticks
    BY <1>1, <2>2 DEF Receive, CTypeOK, PTypeOK
  <2> QED  BY <1>1, <2>3, <2>4, <2>5, <2>6 DEF Receive, CTypeOK
<1>2. ASSUME NEW g \in Uvicorns, NEW n \in {1, 2}, Incr(g, n) PROVE CTypeOK'
  <2>1. KeyOf(g) \in Keys
    BY <1>2, KeyOfRequest DEF Incr, PTypeOK
  <2> QED  BY <1>2, <2>1 DEF Incr, CTypeOK, PTypeOK
<1>3. ASSUME NEW g \in Uvicorns, SetExpire(g) PROVE CTypeOK'
  <2>1. KeyOf(g) \in Keys /\ Minute \in 0..Minute
    BY <1>3, KeyOfRequest, LimiterAssumption DEF SetExpire, PTypeOK
  <2> QED  BY <1>3, <2>1 DEF SetExpire, CTypeOK, PTypeOK
<1>4. ASSUME NEW g \in Uvicorns, CommandFails(g) PROVE CTypeOK'
  <2>1. KeyOf(g) \in Keys
    BY <1>4, KeyOfRequest DEF CommandFails, PTypeOK
  <2>2. req[g].now \in Nat /\ req[g].now <= ticks /\ ticks \in Nat
    BY <1>4 DEF CommandFails, PTypeOK, CTypeOK, Requests
  <2>3. downUntil' \in [Uvicorns -> Nat] /\ \A i \in Uvicorns : downUntil'[i] <= ticks + Cooldown
    BY <1>4, <2>2, LimiterAssumption DEF CommandFails, CTypeOK
  <2> QED  BY <1>4, <2>1, <2>3 DEF CommandFails, CTypeOK, PTypeOK
<1>5. ASSUME NEW g \in Uvicorns, Admit(g) \/ LimiterUnavailable(g) PROVE CTypeOK'
  BY <1>5 DEF Admit, LimiterUnavailable, Ends, CTypeOK, PTypeOK
<1>6. ASSUME NEW g \in Uvicorns, Reject(g) PROVE CTypeOK'
  <2>1. Bucket(g) \in Keys
    BY <1>6, KeyOfRequest DEF Reject, PTypeOK, Bucket, KeyOf
  <2>2. req[g].tenant \in Bearers
    BY <1>6 DEF Reject, PTypeOK, Requests
  <2>3. rejected' \subseteq Keys \X Bearers
    BY <1>6, <2>1, <2>2 DEF Reject, CTypeOK
  <2> QED  BY <1>6, <2>3 DEF Reject, Ends, CTypeOK, PTypeOK
<1>7. ASSUME NEW g \in Uvicorns, Crash(g) PROVE CTypeOK'
  <2>1. KeyOf(g) \in Keys /\ 0 <= ticks + Cooldown
    BY <1>7, KeyOfRequest, LimiterAssumption DEF Crash, PTypeOK
  <2> QED  BY <1>7, <2>1 DEF Crash, Ends, CTypeOK, PTypeOK
<1>8. ASSUME NEW k \in Keys, Evict(k) PROVE CTypeOK'
  BY <1>8, LimiterAssumption DEF Evict, CTypeOK
<1>9. CASE LimiterTick
  <2>1. ticks' \in Nat /\ ticks \in Nat /\ ticks' >= ticks
    BY <1>9, LimiterAssumption DEF LimiterTick, PTypeOK
  <2>2. ttl' \in [Keys -> 0..Minute]
    BY <1>9, LimiterAssumption DEF LimiterTick, CTypeOK
  <2>3. \A g \in Uvicorns : doing[g] # "idle" => req[g].now \in Nat
    BY DEF PTypeOK, Requests
  <2> QED  BY <1>9, <2>1, <2>2, <2>3, LimiterAssumption DEF LimiterTick, CTypeOK, PTypeOK
<1>10. CASE UNCHANGED limiterVars
  BY <1>10 DEF limiterVars, CTypeOK
<1> QED
  BY <1>1, <1>2, <1>3, <1>4, <1>5, <1>6, <1>7, <1>8, <1>9, <1>10 DEF LimiterNext, Dispatch

\* A step that counts nothing for k and lets nobody come to count it.
LEMMA SentBound ==
  ASSUME PTypeOK, CTypeOK, CTypeOK', PTypeOK', NEW k \in Keys, OnlySent(k),
         Counting(k)' \subseteq Counting(k),
         counter'[k] <= counter[k], sent'[k] >= sent[k], troubled'[k] >= troubled[k]
  PROVE  OnlySent(k)'
<1>1. Cardinality(Counting(k)') <= Cardinality(Counting(k))
  BY CountingGateways, FewerGateways
<1>2. /\ counter[k] \in Nat /\ counter'[k] \in Nat /\ sent[k] \in Nat /\ sent'[k] \in Nat
      /\ troubled[k] \in Nat /\ troubled'[k] \in Nat
  BY DEF PTypeOK, CTypeOK
<1> QED  BY <1>1, <1>2, CountingGateways DEF OnlySent

(* A counter was raised only by what was sent under its key.               *)
LEMMA OnlySentStep ==
  ASSUME PTypeOK, CTypeOK, PTypeOK', CTypeOK', [LimiterNext]_limiterVars, NEW k \in Keys, OnlySent(k)
  PROVE  OnlySent(k)'
<1> USE DEF limiterHistory, redisVars, StepTo, Add
<1>0. /\ counter[k] \in Nat /\ counter'[k] \in Nat /\ sent[k] \in Nat /\ sent'[k] \in Nat
      /\ troubled[k] \in Nat /\ troubled'[k] \in Nat
  BY DEF PTypeOK, CTypeOK
<1>1. ASSUME NEW g \in Uvicorns, NEW h \in Hosts, NEW t \in Bearers, Receive(g, h, t) PROVE OnlySent(k)'
  <2>1. doing[g] = "idle" /\ \A i \in Uvicorns : i # g => KeyOf(i)' = KeyOf(i) /\ doing'[i] = doing[i]
    BY <1>1 DEF Receive, KeyOf, PTypeOK
  <2>2. KeyOf(g)' = <<h, ticks \div Minute>>
    BY <1>1 DEF Receive, KeyOf, PTypeOK
  <2>3. CASE k = <<h, ticks \div Minute>>
    <3>1. Counting(k)' \subseteq Counting(k) \cup {g}
      BY <2>1 DEF Counting
    <3>2. Cardinality(Counting(k)') <= Cardinality(Counting(k)) + 1
      BY <3>1, OneGatewayMore, CountingGateways
    <3>3. sent'[k] = sent[k] + 1 /\ counter' = counter /\ troubled' = troubled
      BY <1>1, <2>3 DEF Receive, CTypeOK
    <3> QED  BY <1>0, <3>2, <3>3, CountingGateways DEF OnlySent
  <2>4. CASE k # <<h, ticks \div Minute>>
    <3>1. Counting(k)' \subseteq Counting(k)
      BY <2>1, <2>2, <2>4 DEF Counting
    <3>2. sent'[k] = sent[k] /\ counter' = counter /\ troubled' = troubled
      BY <1>1, <2>4 DEF Receive, CTypeOK
    <3> QED  BY <1>0, <3>1, <3>2, SentBound
  <2> QED  BY <2>3, <2>4
<1>2. ASSUME NEW g \in Uvicorns, KeyOf(g) = k, doing[g] = "incr", doing'[g] # "incr",
             \A i \in Uvicorns : i # g => doing'[i] = doing[i], req' = req, sent' = sent,
             \/ counter'[k] = counter[k] + 1 /\ troubled'[k] >= troubled[k]
             \/ counter'[k] = counter[k] + 2 /\ troubled'[k] = troubled[k] + 1
      PROVE  OnlySent(k)'
  <2>1. g \in Counting(k) /\ Counting(k)' \subseteq Counting(k) \ {g}
    BY <1>2 DEF Counting, KeyOf
  <2>2. Cardinality(Counting(k)') + 1 <= Cardinality(Counting(k))
    BY <2>1, OneGatewayLess, CountingGateways
  <2> QED  BY <1>0, <1>2, <2>2, CountingGateways DEF OnlySent
<1>3. ASSUME NEW g \in Uvicorns, NEW n \in {1, 2}, Incr(g, n) PROVE OnlySent(k)'
  <2>1. KeyOf(g) \in Keys
    BY <1>3, KeyOfRequest DEF Incr, PTypeOK
  <2>2. CASE KeyOf(g) = k
    <3>1. counter'[k] = counter[k] + n
      BY <1>3, <2>1, <2>2 DEF Incr, PTypeOK
    <3>2. troubled'[k] = IF n = 1 THEN troubled[k] ELSE troubled[k] + 1
      BY <1>3, <2>1, <2>2 DEF Incr, CTypeOK
    <3>3. doing[g] = "incr" /\ doing'[g] # "incr" /\ \A i \in Uvicorns : i # g => doing'[i] = doing[i]
      BY <1>3 DEF Incr, PTypeOK
    <3>4. req' = req /\ sent' = sent
      BY <1>3 DEF Incr
    <3>5. \/ counter'[k] = counter[k] + 1 /\ troubled'[k] >= troubled[k]
          \/ counter'[k] = counter[k] + 2 /\ troubled'[k] = troubled[k] + 1
      BY <1>0, <3>1, <3>2
    <3> QED  BY <1>2, <2>2, <3>3, <3>4, <3>5
  <2>3. CASE KeyOf(g) # k
    <3>1. Counting(k)' \subseteq Counting(k)
      BY <1>3, <2>3 DEF Incr, Counting, KeyOf, PTypeOK
    <3>2. counter'[k] = counter[k] /\ sent' = sent /\ troubled'[k] = troubled[k]
      BY <1>3, <2>3 DEF Incr, PTypeOK, CTypeOK
    <3> QED  BY <1>0, <3>1, <3>2, SentBound
  <2> QED  BY <2>2, <2>3
<1>4. ASSUME NEW g \in Uvicorns, CommandFails(g) PROVE OnlySent(k)'
  <2>1. KeyOf(g) \in Keys
    BY <1>4, KeyOfRequest DEF CommandFails, PTypeOK
  <2>2. Counting(k)' \subseteq Counting(k) /\ sent' = sent /\ troubled'[k] >= troubled[k]
    BY <1>4, <1>0 DEF CommandFails, Counting, KeyOf, PTypeOK, CTypeOK
  <2>3. CASE counter'[k] = counter[k]
    BY <1>0, <2>2, <2>3, SentBound
  <2>4. CASE counter'[k] # counter[k]
    <3>1. KeyOf(g) = k /\ doing[g] = "incr" /\ counter'[k] = counter[k] + 1
      BY <1>4, <2>1, <2>4 DEF CommandFails, PTypeOK
    <3>2. doing'[g] # "incr" /\ (\A i \in Uvicorns : i # g => doing'[i] = doing[i]) /\ req' = req
      BY <1>4 DEF CommandFails, PTypeOK
    <3> QED  BY <1>2, <2>2, <3>1, <3>2
  <2> QED  BY <2>3, <2>4
<1>5. ASSUME NEW g \in Uvicorns,
             SetExpire(g) \/ Admit(g) \/ Reject(g) \/ LimiterUnavailable(g)
      PROVE  OnlySent(k)'
  <2>1. Counting(k)' \subseteq Counting(k)
    BY <1>5 DEF SetExpire, Admit, Reject, LimiterUnavailable, Ends, Counting, KeyOf, PTypeOK
  <2>2. counter' = counter /\ sent' = sent /\ troubled' = troubled
    BY <1>5 DEF SetExpire, Admit, Reject, LimiterUnavailable
  <2> QED  BY <1>0, <2>1, <2>2, SentBound
<1>6. ASSUME NEW g \in Uvicorns, Crash(g) PROVE OnlySent(k)'
  <2>1. Counting(k)' \subseteq Counting(k)
    BY <1>6 DEF Crash, Ends, Counting, KeyOf, PTypeOK
  <2>2. counter' = counter /\ sent' = sent /\ troubled'[k] >= troubled[k]
    BY <1>6, <1>0 DEF Crash, CTypeOK
  <2> QED  BY <1>0, <2>1, <2>2, SentBound
<1>7. ASSUME NEW e \in Keys, Evict(e) PROVE OnlySent(k)'
  <2>1. Counting(k)' \subseteq Counting(k) /\ counter'[k] <= counter[k]
    BY <1>7, <1>0 DEF Evict, Counting, KeyOf, PTypeOK
  <2> QED  BY <1>7, <1>0, <2>1, SentBound DEF Evict
<1>8. CASE LimiterTick
  <2>1. Counting(k)' \subseteq Counting(k) /\ counter'[k] <= counter[k]
    BY <1>8, <1>0 DEF LimiterTick, Counting, KeyOf, PTypeOK
  <2> QED  BY <1>8, <1>0, <2>1, SentBound DEF LimiterTick
<1>9. CASE UNCHANGED limiterVars
  <2>1. Counting(k)' \subseteq Counting(k)
    BY <1>9 DEF limiterVars, Counting, KeyOf
  <2> QED  BY <1>9, <1>0, <2>1, SentBound DEF limiterVars
<1> QED  BY <1>1, <1>3, <1>4, <1>5, <1>6, <1>7, <1>8, <1>9 DEF LimiterNext, Dispatch

\* The histories only grow.
LEMMA HistoriesGrow ==
  ASSUME PTypeOK, CTypeOK, [LimiterNext]_limiterVars, NEW k \in Keys
  PROVE  sent'[k] >= sent[k] /\ troubled'[k] >= troubled[k] /\ forgotten'[k] >= forgotten[k]
<1>1. sent[k] \in Nat /\ troubled[k] \in Nat /\ forgotten[k] \in Nat
  BY DEF PTypeOK, CTypeOK
<1>2. ASSUME NEW f \in [Keys -> Nat], NEW x PROVE Add(f, x)[k] >= f[k]
  BY DEF Add
<1>3. /\ sent \in [Keys -> Nat] /\ troubled \in [Keys -> Nat] /\ forgotten \in [Keys -> Nat]
  BY DEF PTypeOK, CTypeOK
<1>4. sent' = sent \/ \E x : sent' = Add(sent, x)
  BY DEF LimiterNext, Dispatch, limiterVars, limiterHistory, redisVars, Receive, Incr, SetExpire, CommandFails, Admit,
         Reject, LimiterUnavailable, Crash, Evict, LimiterTick
<1>5. troubled' = troubled \/ \E x : troubled' = Add(troubled, x)
  BY DEF LimiterNext, Dispatch, limiterVars, limiterHistory, redisVars, Receive, Incr, SetExpire, CommandFails, Admit,
         Reject, LimiterUnavailable, Crash, Evict, LimiterTick
<1>6. forgotten' = forgotten \/ (\E x : forgotten' = Add(forgotten, x)) \/ LimiterTick
  BY DEF LimiterNext, Dispatch, limiterVars, limiterHistory, redisVars, Receive, Incr, SetExpire, CommandFails, Admit,
         Reject, LimiterUnavailable, Crash, Evict
<1>7. sent'[k] >= sent[k]
  BY <1>1, <1>2, <1>3, <1>4
<1>8. troubled'[k] >= troubled[k]
  BY <1>1, <1>2, <1>3, <1>5
<1>9. forgotten'[k] >= forgotten[k]
  <2>1. CASE LimiterTick
    BY <1>1, <2>1 DEF LimiterTick
  <2> QED  BY <1>1, <1>2, <1>3, <1>6, <2>1
<1> QED  BY <1>7, <1>8, <1>9

(* What a process read of a counter is no more than was sent.              *)
LEMMA CountsKnownStep ==
  ASSUME PTypeOK, CTypeOK, PTypeOK', CTypeOK', [LimiterNext]_limiterVars, CountsKnown,
         \A k \in Keys : OnlySent(k)'
  PROVE  CountsKnown'
<1> SUFFICES ASSUME NEW g \in Uvicorns, doing'[g] \in {"expire", "decide"}
             PROVE  count'[g] <= sent'[KeyOf(g)'] + troubled'[KeyOf(g)']
  BY DEF CountsKnown
<1>1. KeyOf(g)' \in Keys
  BY KeyOfRequest, MinuteOf DEF PTypeOK, Requests, KeyOf, Keys
<1>2. CASE \E n \in {1, 2} : Incr(g, n)
  <2>1. PICK k \in Keys : k = KeyOf(g)'
    BY <1>1
  <2>2. count'[g] = counter'[k]
    BY <1>2, <2>1 DEF Incr, PTypeOK, KeyOf
  <2>3. OnlySent(k)' /\ Cardinality(Counting(k)') \in Nat
    BY CountingGateways
  <2>4. counter'[k] \in Nat /\ sent'[k] \in Nat /\ troubled'[k] \in Nat
    BY DEF PTypeOK, CTypeOK
  <2> QED  BY <2>1, <2>2, <2>3, <2>4 DEF OnlySent
<1>3. CASE doing[g] \in {"expire", "decide"} /\ req'[g] = req[g] /\ count'[g] = count[g]
  <2>1. KeyOf(g)' = KeyOf(g) /\ count[g] <= sent[KeyOf(g)] + troubled[KeyOf(g)]
    BY <1>3 DEF KeyOf, CountsKnown
  <2>2. /\ sent'[KeyOf(g)] >= sent[KeyOf(g)] /\ troubled'[KeyOf(g)] >= troubled[KeyOf(g)]
    BY <1>1, <2>1, HistoriesGrow
  <2>3. /\ sent[KeyOf(g)] \in Nat /\ troubled[KeyOf(g)] \in Nat /\ count[g] \in Nat
        /\ sent'[KeyOf(g)] \in Nat /\ troubled'[KeyOf(g)] \in Nat
    BY <1>1, <2>1 DEF PTypeOK, CTypeOK
  <2> QED  BY <1>3, <2>1, <2>2, <2>3
<1>4. \/ \E n \in {1, 2} : Incr(g, n)
      \/ doing[g] \in {"expire", "decide"} /\ req'[g] = req[g] /\ count'[g] = count[g]
  <2>1. ASSUME NEW h \in Uvicorns, h # g,
               (\E o \in Hosts, t \in Bearers : Receive(h, o, t)) \/ Dispatch(h) \/ Crash(h)
        PROVE  doing'[g] = doing[g] /\ req'[g] = req[g] /\ count'[g] = count[g]
    BY <2>1, ZenonT(60)
    DEF Dispatch, limiterHistory, redisVars, StepTo, Receive, Incr, SetExpire, CommandFails, Admit, Reject,
        LimiterUnavailable, Crash, Ends, PTypeOK
  <2>2. CASE (\E o \in Hosts, t \in Bearers : Receive(g, o, t)) \/ CommandFails(g) \/ Admit(g) \/ Reject(g)
               \/ LimiterUnavailable(g) \/ Crash(g)
    <3>1. doing'[g] \notin {"expire", "decide"}
      BY <2>2 DEF StepTo, Receive, CommandFails, Admit, Reject, LimiterUnavailable, Crash, Ends, PTypeOK
    <3> QED  BY <3>1
  <2>3. CASE SetExpire(g)
    BY <2>3 DEF SetExpire
  <2>4. CASE LimiterTick \/ (\E k \in Keys : Evict(k)) \/ UNCHANGED limiterVars
    BY <2>4 DEF LimiterTick, Evict, limiterVars
  <2>5. \/ \E h \in Uvicorns : (\E o \in Hosts, t \in Bearers : Receive(h, o, t)) \/ Dispatch(h) \/ Crash(h)
        \/ LimiterTick \/ (\E k \in Keys : Evict(k)) \/ UNCHANGED limiterVars
    BY DEF LimiterNext
  <2>6. CASE (\E o \in Hosts, t \in Bearers : Receive(g, o, t)) \/ Dispatch(g) \/ Crash(g)
    BY <2>2, <2>3, <2>6 DEF Dispatch
  <2> QED  BY <2>1, <2>4, <2>5, <2>6
<1> QED  BY <1>2, <1>3, <1>4

(* So it refuses only for requests of the host it refuses.                 *)
LEMMA RefusedStep ==
  ASSUME PTypeOK, CTypeOK, PTypeOK', CTypeOK', [LimiterNext]_limiterVars, CountsKnown, RefusedForOwnRequests
  PROVE  RefusedForOwnRequests'
<1> SUFFICES ASSUME NEW r \in rejected' PROVE sent'[r[1]] + troubled'[r[1]] > RatePerMin
  BY DEF RefusedForOwnRequests
<1> DEFINE k == r[1]
<1>1. k \in Keys /\ r[1] = k
  BY DEF CTypeOK
<1>2. /\ sent[k] \in Nat /\ troubled[k] \in Nat /\ sent'[k] \in Nat /\ troubled'[k] \in Nat
      /\ sent'[k] >= sent[k] /\ troubled'[k] >= troubled[k]
  BY <1>1, HistoriesGrow DEF CTypeOK
<1>3. CASE r \in rejected
  BY <1>2, <1>3, LimiterAssumption DEF RefusedForOwnRequests
<1>4. CASE \E g \in Uvicorns : Reject(g) /\ r[1] = Bucket(g)
  <2>1. PICK g \in Uvicorns : Reject(g) /\ r[1] = Bucket(g)
    BY <1>4
  <2>2. k = KeyOf(g) /\ count[g] > RatePerMin /\ count[g] \in Nat
    BY <2>1 DEF Reject, OverLimit, Bucket, KeyOf, PTypeOK
  <2>3. count[g] <= sent[k] + troubled[k]
    BY <2>1, <2>2 DEF Reject, CountsKnown
  <2> QED  BY <1>2, <2>2, <2>3, LimiterAssumption
<1>5. r \in rejected \/ \E g \in Uvicorns : Reject(g) /\ r = <<Bucket(g), req[g].tenant>>
  BY DEF LimiterNext, Dispatch, limiterVars, limiterHistory, redisVars, Receive, Incr, SetExpire,
         CommandFails, Admit, Reject, LimiterUnavailable, Crash, Evict, LimiterTick
<1> QED  BY <1>3, <1>4, <1>5

(* Only a failure between INCR and EXPIRE leaves a key without an end.     *)
LEMMA ImmortalStep ==
  ASSUME PTypeOK, CTypeOK, PTypeOK', CTypeOK', [LimiterNext]_limiterVars, ImmortalOnlyByFailure
  PROVE  ImmortalOnlyByFailure'
<1> USE DEF limiterHistory, redisVars, StepTo, Add
<1> SUFFICES ASSUME NEW k \in Keys, counter'[k] > 0, ttl'[k] = 0,
                    troubled'[k] = 0, forgotten'[k] = 0
             PROVE  \E g \in Uvicorns : doing'[g] = "expire" /\ KeyOf(g)' = k
  BY DEF ImmortalOnlyByFailure, PTypeOK, CTypeOK
<1>1. /\ troubled[k] = 0 /\ forgotten[k] = 0
      /\ counter[k] \in Nat /\ counter'[k] \in Nat /\ ttl[k] \in 0..Minute
  BY HistoriesGrow DEF PTypeOK, CTypeOK
<1>2. ASSUME counter[k] > 0, ttl[k] = 0
      PROVE  \E g \in Uvicorns : doing[g] = "expire" /\ KeyOf(g) = k
  BY <1>1, <1>2 DEF ImmortalOnlyByFailure
<1>3. ASSUME NEW g \in Uvicorns, NEW h \in Hosts, NEW t \in Bearers, Receive(g, h, t)
      PROVE  \E i \in Uvicorns : doing'[i] = "expire" /\ KeyOf(i)' = k
  BY <1>2, <1>3 DEF Receive, KeyOf, PTypeOK
<1>4. ASSUME NEW g \in Uvicorns, NEW n \in {1, 2}, Incr(g, n)
      PROVE  \E i \in Uvicorns : doing'[i] = "expire" /\ KeyOf(i)' = k
  <2>1. KeyOf(g) \in Keys /\ KeyOf(g)' = KeyOf(g) /\ doing[g] = "incr"
    BY <1>4, KeyOfRequest DEF Incr, PTypeOK, KeyOf
  <2>2. CASE counter[k] > 0
    BY <1>2, <1>4, <2>1, <2>2 DEF Incr, KeyOf, PTypeOK
  <2>3. CASE counter[k] = 0
    <3>1. KeyOf(g) = k /\ counter'[k] = n
      BY <1>4, <2>1, <2>3 DEF Incr, PTypeOK
    <3>2. n = 1
      BY <1>1, <1>4, <3>1 DEF Incr, CTypeOK
    <3> QED  BY <1>4, <2>1, <3>1, <3>2 DEF Incr, PTypeOK
  <2> QED  BY <1>1, <2>2, <2>3
<1>5. ASSUME NEW g \in Uvicorns, SetExpire(g)
      PROVE  \E i \in Uvicorns : doing'[i] = "expire" /\ KeyOf(i)' = k
  <2>1. KeyOf(g) \in Keys
    BY <1>5, KeyOfRequest DEF SetExpire, PTypeOK
  <2>2. KeyOf(g) # k
    BY <1>1, <1>5, <2>1, LimiterAssumption DEF SetExpire, CTypeOK
  <2>3. ttl[k] = 0 /\ counter[k] > 0
    BY <1>5, <2>2 DEF SetExpire, CTypeOK
  <2>4. PICK i \in Uvicorns : doing[i] = "expire" /\ KeyOf(i) = k
    BY <1>2, <2>3
  <2> QED  BY <1>5, <2>2, <2>4 DEF SetExpire, KeyOf, PTypeOK
<1>6. ASSUME NEW g \in Uvicorns, CommandFails(g)
      PROVE  \E i \in Uvicorns : doing'[i] = "expire" /\ KeyOf(i)' = k
  <2>1. KeyOf(g) \in Keys
    BY <1>6, KeyOfRequest DEF CommandFails, PTypeOK
  <2>2. KeyOf(g) # k
    BY <1>1, <1>6, <2>1 DEF CommandFails, CTypeOK
  <2>3. counter[k] > 0 /\ ttl[k] = 0
    BY <1>6, <2>2 DEF CommandFails, PTypeOK
  <2>4. PICK i \in Uvicorns : doing[i] = "expire" /\ KeyOf(i) = k
    BY <1>2, <2>3
  <2> QED  BY <1>6, <2>2, <2>4 DEF CommandFails, KeyOf, PTypeOK
<1>7. ASSUME NEW g \in Uvicorns, Admit(g) \/ Reject(g) \/ LimiterUnavailable(g)
      PROVE  \E i \in Uvicorns : doing'[i] = "expire" /\ KeyOf(i)' = k
  BY <1>2, <1>7 DEF Admit, Reject, LimiterUnavailable, Ends, KeyOf, PTypeOK
<1>8. ASSUME NEW g \in Uvicorns, Crash(g)
      PROVE  \E i \in Uvicorns : doing'[i] = "expire" /\ KeyOf(i)' = k
  <2>1. KeyOf(g) \in Keys
    BY <1>8, KeyOfRequest DEF Crash, PTypeOK
  <2>2. KeyOf(g) # k
    BY <1>1, <1>8, <2>1 DEF Crash, CTypeOK
  <2>3. PICK i \in Uvicorns : doing[i] = "expire" /\ KeyOf(i) = k
    BY <1>2, <1>8 DEF Crash
  <2> QED  BY <1>8, <2>2, <2>3 DEF Crash, Ends, KeyOf, PTypeOK
<1>9. ASSUME NEW e \in Keys, Evict(e)
      PROVE  \E i \in Uvicorns : doing'[i] = "expire" /\ KeyOf(i)' = k
  <2>1. e # k
    BY <1>9 DEF Evict, PTypeOK
  <2> QED  BY <1>2, <1>9, <2>1 DEF Evict, KeyOf, PTypeOK, CTypeOK
<1>10. CASE LimiterTick
  <2>1. ~ Gone(k) /\ ttl[k] = 0 /\ counter[k] > 0
    BY <1>1, <1>10 DEF LimiterTick, Gone, PTypeOK
  <2> QED  BY <1>2, <1>10, <2>1 DEF LimiterTick, KeyOf
<1>11. CASE UNCHANGED limiterVars
  BY <1>2, <1>11 DEF limiterVars, KeyOf
<1> QED
  BY <1>3, <1>4, <1>5, <1>6, <1>7, <1>8, <1>9, <1>10, <1>11 DEF LimiterNext, Dispatch

(* For any number of processes and requests: nobody is refused for the     *)
(* requests of another host or minute, and no counter stays for ever       *)
(* unless something failed (middleware.py 120-160).                        *)
THEOREM CountersAreSound == LimiterSpec => []CountersSound
<1>1. LimiterInit => CTypeOK /\ CountsKnown /\ (\A k \in Keys : OnlySent(k))
                /\ RefusedForOwnRequests /\ ImmortalOnlyByFailure
  <2> SUFFICES ASSUME LimiterInit
               PROVE  /\ CTypeOK /\ CountsKnown /\ (\A k \in Keys : OnlySent(k))
                      /\ RefusedForOwnRequests /\ ImmortalOnlyByFailure
    OBVIOUS
  <2>1. ASSUME NEW k \in Keys PROVE OnlySent(k)
    <3>1. Counting(k) = {} /\ counter[k] = 0 /\ sent[k] = 0 /\ troubled[k] = 0
      BY DEF LimiterInit, Counting
    <3> QED  BY <3>1, FS_EmptySet DEF OnlySent
  <2>2. CountsKnown /\ RefusedForOwnRequests /\ ImmortalOnlyByFailure
    BY DEF LimiterInit, CountsKnown, RefusedForOwnRequests, ImmortalOnlyByFailure
  <2> QED  BY <2>1, <2>2, CTypeInit
<1>2. PTypeOK /\ PTypeOK' /\ CInv /\ [LimiterNext]_limiterVars => CInv'
  <2> SUFFICES ASSUME PTypeOK, PTypeOK', CInv, [LimiterNext]_limiterVars PROVE CInv'
    OBVIOUS
  <2>1. CTypeOK'
    BY CTypeStep DEF CInv
  <2>2. \A k \in Keys : OnlySent(k)'
    BY <2>1, OnlySentStep DEF CInv
  <2>3. CountsKnown'
    BY <2>1, <2>2, CountsKnownStep DEF CInv
  <2>4. RefusedForOwnRequests' /\ ImmortalOnlyByFailure'
    BY <2>1, RefusedStep, ImmortalStep DEF CInv
  <2> QED  BY <2>1, <2>2, <2>3, <2>4 DEF CInv
<1>3. PTypeOK /\ CTypeOK /\ CountsKnown /\ (\A k \in Keys : OnlySent(k))
        /\ RefusedForOwnRequests /\ ImmortalOnlyByFailure => CInv
  BY DEF CInv
<1>4. LimiterSpec => []CInv
  BY <1>1, <1>2, <1>3, TypeInvariant, PTL DEF LimiterSpec
<1>5. CInv => CountersSound
  <2> SUFFICES ASSUME CInv PROVE LimiterTypeOK
    BY DEF CInv, CountersSound
  <2>1. PTypeOK /\ CTypeOK
    BY DEF CInv
  <2>2. ASSUME NEW k \in Keys PROVE counter[k] \in 0..(2 * MaxRequests)
    <3>1. OnlySent(k) /\ Cardinality(Counting(k)) \in Nat
      BY CountingGateways DEF CInv
    <3>2. /\ counter[k] \in Nat /\ sent[k] \in Nat /\ sent[k] <= served
          /\ served <= MaxRequests /\ served \in Nat
      BY <2>1 DEF PTypeOK, CTypeOK
    <3> QED  BY <3>1, <3>2, LimiterAssumption DEF OnlySent
  <2>3. counter \in [Keys -> 0..(2 * MaxRequests)]
    BY <2>1, <2>2 DEF PTypeOK
  <2>4. \A g \in Uvicorns : doing[g] # "idle" => KeyOf(g) \in Keys
    BY <2>1, KeyOfRequest DEF PTypeOK
  <2> QED  BY <2>1, <2>3, <2>4 DEF LimiterTypeOK, PTypeOK, CTypeOK
<1> QED  BY <1>4, <1>5, PTL
-----------------------------------------------------------------------------
(* Authentication.  A token is worth no more than the right its account    *)
(* had when it was issued, and a key pair is that of the secret wherever   *)
(* it was loaded: both are carried along from the issue to the use.        *)

AccessTyped ==
  /\ hour \in Nat
  /\ users \in [Accounts -> [role : Roles, active : BOOLEAN]]
  /\ lastRight \in [Accounts -> [Roles -> Nat]]
  /\ keyOf \in [Replicas -> Nat] /\ secret \in Nat /\ drawn \in Nat
  /\ \A a \in Accounts, role \in Roles : lastRight[a][role] <= hour

\* Somebody u may still be served as until x.
RightUntil(u, x) ==
  /\ u.sub \in Accounts /\ u.role \in Roles /\ u.tenant = TenantOf[u.sub]
  /\ x <= Noted[u.sub][u.role] + Lifetime

TokensOfRights == env = "production" => \A t \in tokens : t.exp \in Nat /\ RightUntil(t.user, t.exp)

ServedByRight == ServedTo /\ env = "production" => RightUntil(reply.user, hour + 1)

OnePair ==
  env = "production" /\ ~ rotated =>
    /\ \A r \in Replicas : keyOf[r] \in {0, secret}
    /\ \A t \in tokens : t.key = secret /\ secret # 0

AInv == AccessTyped /\ TokensOfRights /\ ServedByRight /\ OnePair /\ HeadersUnlessUnhandled

\* When an account had a right, and that this is never forgotten.
LEMMA NotedShape ==
  ASSUME AccessTyped
  PROVE  Noted \in [Accounts -> [Roles -> Nat]]
         /\ \A a \in Accounts, role \in Roles : Noted[a][role] <= hour
BY DEF AccessTyped, Noted

(* The hour until which a right was last noted never goes back.            *)
LEMMA NotedKept ==
  ASSUME AccessTyped, [AccessNext]_accessVars, NEW a \in Accounts, NEW role \in Roles
  PROVE  Noted'[a][role] >= Noted[a][role]
<1>1. Noted[a][role] = IF users[a].active /\ users[a].role = role THEN hour ELSE lastRight[a][role]
  BY DEF Noted
<1>2. Noted'[a][role] = IF users'[a].active /\ users'[a].role = role
                        THEN hour' ELSE lastRight'[a][role]
  BY DEF Noted
<1>3. hour \in Nat /\ lastRight[a][role] \in Nat /\ lastRight[a][role] <= hour
  BY DEF AccessTyped
<1>4. CASE Administer
  <2>1. hour' = hour /\ lastRight'[a][role] = Noted[a][role]
    BY <1>4 DEF Administer
  <2>2. Noted[a][role] \in Nat /\ Noted[a][role] <= hour
    BY NotedShape
  <2> QED  BY <1>2, <1>3, <2>1, <2>2
<1>5. CASE HourPassed
  BY <1>1, <1>2, <1>3, <1>5 DEF HourPassed
<1>6. CASE hour' = hour /\ users' = users /\ lastRight' = lastRight
  BY <1>1, <1>2, <1>3, <1>6
<1> QED
  BY <1>4, <1>5, <1>6 DEF AccessNext, Request, Replace, Rotate, accessVars

(* The state of the accounts and tokens stays well typed.                  *)
LEMMA AccessTypedStep == AccessTyped /\ [AccessNext]_accessVars => AccessTyped'
<1> SUFFICES ASSUME AccessTyped, [AccessNext]_accessVars PROVE AccessTyped'
  OBVIOUS
<1>1. CASE Administer
  <2>1. lastRight' \in [Accounts -> [Roles -> Nat]]
        /\ \A a \in Accounts, role \in Roles : lastRight'[a][role] <= hour
    BY <1>1, NotedShape DEF Administer
  <2>2. PICK a \in Accounts, role \in Roles, active \in BOOLEAN :
          users' = [users EXCEPT ![a] = [role |-> role, active |-> active]]
    BY <1>1 DEF Administer
  <2>3. users' \in [Accounts -> [role : Roles, active : BOOLEAN]]
    BY <2>2 DEF AccessTyped
  <2>4. /\ hour' = hour /\ keyOf' = keyOf /\ secret' = secret /\ drawn' = drawn
    BY <1>1 DEF Administer
  <2> QED  BY <2>1, <2>3, <2>4 DEF AccessTyped
<1>2. CASE HourPassed
  BY <1>2 DEF HourPassed, AccessTyped
<1>3. ASSUME NEW r \in Replicas, Replace(r) PROVE AccessTyped'
  BY <1>3 DEF Replace, AccessTyped
<1>4. CASE Rotate \/ UNCHANGED accessVars
  BY <1>4 DEF Rotate, accessVars, AccessTyped
<1>5. ASSUME NEW r \in Replicas, Request(r) PROVE AccessTyped'
  <2>1. UNCHANGED <<keyOf, drawn>> \/ LoadKeys(r)
    BY <1>5 DEF Request, Login, Protected, Jwks
  <2>2. Key(r) \in Nat
    BY DEF Key, AccessTyped
  <2>3. keyOf' \in [Replicas -> Nat] /\ drawn' \in Nat
    BY <2>1, <2>2 DEF LoadKeys, AccessTyped
  <2> QED  BY <1>5, <2>3 DEF Request, AccessTyped
<1> QED  BY <1>1, <1>2, <1>3, <1>4, <1>5 DEF AccessNext

(* What a request does, as far as rights and keys go: it issues at most    *)
(* one token, and answers somebody only by that token or a valid one.      *)
Issues(r, u) ==
  /\ Key(r) # 0
  /\ tokens' = tokens \cup {Token(r, u)}

AnswersTo(u, status, by) == reply' = [user |-> u, response |-> Response(status, by)]

(* What a request of production can lead to: a refusal, an answer by the   *)
(* right of a token, or a login.                                           *)
LEMMA RequestShape ==
  ASSUME NEW r \in Replicas, Request(r), env = "production"
  PROVE  /\ UNCHANGED <<hour, env, secret, users, lastRight, rotated>>
         /\ UNCHANGED keyOf \/ keyOf' = [keyOf EXCEPT ![r] = Key(r)]
         /\ \/ /\ tokens' = tokens
               /\ \/ \E s, by : AnswersTo(Nobody, s, by)
                  \/ \E t \in tokens : hour < t.exp /\ \E s, by : AnswersTo(t.user, s, by)
            \/ \E a \in Accounts :
                 /\ users[a].active
                 /\ Issues(r, UserOf(a)) /\ AnswersTo(UserOf(a), 200, "handler")
<1>1. UNCHANGED <<hour, env, secret, users, lastRight, rotated>>
  BY DEF Request
<1>2. UNCHANGED keyOf \/ keyOf' = [keyOf EXCEPT ![r] = Key(r)]
  BY DEF Request, Login, Protected, Jwks, LoadKeys
<1>3. ASSUME NEW a \in Accounts, NEW p, NEW up \in BOOLEAN, Login(r, a, p, up)
      PROVE  \/ /\ tokens' = tokens
                /\ \E s, by : AnswersTo(Nobody, s, by)
             \/ /\ users[a].active
                /\ Issues(r, UserOf(a)) /\ AnswersTo(UserOf(a), 200, "handler")
  <2>1. CASE /\ p # "empty" /\ ~ up
             /\ Responds(Nobody, Response(503, "handler")) /\ tokens' = tokens
    BY <2>1 DEF Responds, AnswersTo
  <2>2. CASE p = "empty" \/ up
    <3>1. ASSUME Responds(Nobody, Response(401, "handler")), tokens' = tokens
          PROVE  tokens' = tokens /\ \E s, by : AnswersTo(Nobody, s, by)
      BY <3>1 DEF Responds, AnswersTo
    <3>2. ASSUME Responds(Nobody, Response(500, "nobody")), tokens' = tokens
          PROVE  tokens' = tokens /\ \E s, by : AnswersTo(Nobody, s, by)
      BY <3>2 DEF Responds, AnswersTo
    <3>3. CASE p = "empty" \/ p # "right" \/ ~ users[a].active
      BY <1>3, <2>2, <3>1, <3>2, <3>3 DEF Login, UserOf
    <3>4. CASE p = "right" /\ users[a].active
      BY <1>3, <2>2, <3>1, <3>2, <3>4 DEF Login, UserOf, Issues, Responds, AnswersTo
    <3> QED  BY <3>3, <3>4
  <2> QED  BY <1>3, <2>1, <2>2 DEF Login
<1>4. ASSUME NEW token \in tokens \cup {Nobody}, Protected(r, token)
      PROVE  /\ tokens' = tokens
             /\ \/ \E s, by : AnswersTo(Nobody, s, by)
                \/ \E t \in tokens : hour < t.exp /\ \E s, by : AnswersTo(t.user, s, by)
  <2>1. tokens' = tokens
    BY <1>4 DEF Protected
  <2>2. CASE token = Nobody \/ ~ Valid(r, token)
    <3>1. AnswersTo(Nobody, 401, "auth")
      BY <1>4, <2>2 DEF Protected, Responds, AnswersTo
    <3> QED  BY <2>1, <3>1
  <2>3. CASE token # Nobody /\ Valid(r, token)
    <3>1. token \in tokens /\ hour < token.exp
      BY <2>3 DEF Valid
    <3>2. (\E s \in HandlerStatus : AnswersTo(token.user, s, "handler"))
            \/ AnswersTo(token.user, 500, "nobody")
      BY <1>4, <2>3 DEF Protected, Responds, AnswersTo
    <3>3. \E s, by : AnswersTo(token.user, s, by)
      BY <3>2
    <3> QED  BY <2>1, <3>1, <3>3
  <2> QED  BY <2>2, <2>3
<1>5. ASSUME Jwks(r)
      PROVE  tokens' = tokens /\ \E s, by : AnswersTo(Nobody, s, by)
  <2>1. AnswersTo(Nobody, 500, "nobody") \/ AnswersTo(Nobody, 200, "handler")
    BY <1>5 DEF Jwks, Responds, AnswersTo
  <2> QED  BY <1>5, <2>1 DEF Jwks
<1>6. \/ /\ tokens' = tokens
         /\ \/ \E s, by : AnswersTo(Nobody, s, by)
            \/ \E t \in tokens : hour < t.exp /\ \E s, by : AnswersTo(t.user, s, by)
      \/ \E a \in Accounts :
           /\ users[a].active
           /\ Issues(r, UserOf(a)) /\ AnswersTo(UserOf(a), 200, "handler")
  BY <1>3, <1>4, <1>5 DEF Request
<1> QED  BY <1>1, <1>2, <1>6

(* A right that was noted stays noted.                                     *)
LEMMA RightStays ==
  ASSUME AccessTyped, AccessTyped', [AccessNext]_accessVars, NEW u, NEW x \in Nat, RightUntil(u, x)
  PROVE  RightUntil(u, x)'
<1>1. Noted'[u.sub][u.role] >= Noted[u.sub][u.role]
  BY NotedKept DEF RightUntil
<1>2. Noted[u.sub][u.role] \in Nat /\ Noted'[u.sub][u.role] \in Nat
  <2>1. Noted' \in [Accounts -> [Roles -> Nat]]
    BY DEF AccessTyped, Noted
  <2> QED  BY <2>1, NotedShape DEF RightUntil
<1> QED  BY <1>1, <1>2, AccessAssumption DEF RightUntil

\* Who logs in has the right, for the whole lifetime of the token.
LEMMA RightAtLogin ==
  ASSUME AccessTyped, NEW a \in Accounts, users[a].active
  PROVE  /\ RightUntil(UserOf(a), hour + Lifetime) /\ RightUntil(UserOf(a), hour + 1)
         /\ hour + Lifetime \in Nat
<1>1. UserOf(a).sub = a /\ UserOf(a).tenant = TenantOf[a] /\ UserOf(a).role = users[a].role
  BY DEF UserOf
<1>2. users[a].role \in Roles /\ hour \in Nat
  BY DEF AccessTyped
<1>3. Noted[a][users[a].role] = hour
  BY <1>2 DEF Noted
<1> QED  BY <1>1, <1>2, <1>3, AccessAssumption DEF RightUntil

(* Tokens are issued, and requests served, by rights that were noted.      *)
LEMMA RightsStep ==
  ASSUME AccessTyped, AccessTyped', TokensOfRights, ServedByRight, [AccessNext]_accessVars
  PROVE  TokensOfRights' /\ ServedByRight'
<1>1. env' = env
  BY DEF AccessNext, Request, Replace, Administer, Rotate, HourPassed, accessVars
<1>2. ASSUME env = "production", NEW t \in tokens PROVE t.exp \in Nat /\ RightUntil(t.user, t.exp)'
  BY <1>2, RightStays DEF TokensOfRights
<1>3. CASE tokens' \subseteq tokens /\ reply' = NoReply
  BY <1>1, <1>2, <1>3 DEF TokensOfRights, ServedByRight, ServedTo
<1>4. ASSUME NEW r \in Replicas, Request(r), env = "production"
      PROVE  TokensOfRights' /\ ServedByRight'
  <2>1. /\ UNCHANGED <<hour, env, secret, users, lastRight, rotated>>
        /\ \A u, x : RightUntil(u, x)' <=> RightUntil(u, x)
    BY <1>4, RequestShape DEF RightUntil, Noted
  <2>2. ASSUME NEW s, NEW by, AnswersTo(Nobody, s, by) PROVE ServedByRight'
    BY <2>2 DEF AnswersTo, ServedByRight, ServedTo
  <2>3. ASSUME NEW t \in tokens, hour < t.exp, NEW s, NEW by, AnswersTo(t.user, s, by)
        PROVE  ServedByRight'
    <3>1. RightUntil(t.user, t.exp) /\ t.exp \in Nat
      BY <1>4 DEF TokensOfRights
    <3>2. RightUntil(t.user, hour + 1)
      BY <2>3, <3>1, NotedShape, AccessAssumption DEF RightUntil, AccessTyped
    <3>3. reply'.user = t.user
      BY <2>3 DEF AnswersTo
    <3> QED  BY <2>1, <3>2, <3>3 DEF ServedByRight
  <2>4. ASSUME NEW a \in Accounts, users[a].active, Issues(r, UserOf(a)),
               AnswersTo(UserOf(a), 200, "handler")
        PROVE  TokensOfRights' /\ ServedByRight'
    <3>1. /\ RightUntil(UserOf(a), hour + Lifetime) /\ RightUntil(UserOf(a), hour + 1)
          /\ hour + Lifetime \in Nat
      BY <2>4, RightAtLogin
    <3>2. Token(r, UserOf(a)).user = UserOf(a) /\ Token(r, UserOf(a)).exp = hour + Lifetime
      BY DEF Token
    <3>3. TokensOfRights'
      BY <1>2, <1>4, <2>1, <2>4, <3>1, <3>2 DEF TokensOfRights, Issues
    <3>4. reply'.user = UserOf(a)
      BY <2>4 DEF AnswersTo
    <3> QED  BY <2>1, <3>1, <3>3, <3>4 DEF ServedByRight
  <2>5. ASSUME tokens' = tokens PROVE TokensOfRights'
    BY <1>2, <1>4, <2>5 DEF TokensOfRights
  <2> QED  BY <1>4, <2>2, <2>3, <2>4, <2>5, RequestShape
<1>5. CASE env # "production"
  BY <1>1, <1>5 DEF TokensOfRights, ServedByRight
<1>6. CASE UNCHANGED accessVars
  BY <1>6 DEF accessVars, TokensOfRights, ServedByRight, RightUntil, Noted, ServedTo
<1>7. ASSUME NEW r \in Replicas, Replace(r) PROVE TokensOfRights' /\ ServedByRight'
  BY <1>3, <1>7 DEF Replace
<1>8. CASE Administer \/ Rotate \/ HourPassed
  BY <1>3, <1>8 DEF Administer, Rotate, HourPassed
<1> QED  BY <1>4, <1>5, <1>6, <1>7, <1>8 DEF AccessNext

(* Until the key is rotated all processes have one key.                    *)
LEMMA OnePairStep ==
  ASSUME AccessTyped, OnePair, [AccessNext]_accessVars
  PROVE  OnePair'
<1> SUFFICES ASSUME env' = "production", ~ rotated'
             PROVE  /\ \A r \in Replicas : keyOf'[r] \in {0, secret'}
                    /\ \A t \in tokens' : t.key = secret' /\ secret' # 0
  BY DEF OnePair
<1>1. /\ env = "production" /\ ~ rotated /\ secret' = secret
  BY DEF AccessNext, Request, Replace, Administer, Rotate, HourPassed, accessVars
<1>2. /\ \A r \in Replicas : keyOf[r] \in {0, secret}
      /\ \A t \in tokens : t.key = secret /\ secret # 0
  BY <1>1 DEF OnePair
<1>3. \A r \in Replicas : Key(r) \in {0, secret}
  BY <1>1, <1>2 DEF Key
<1>4. ASSUME NEW r \in Replicas, Request(r)
      PROVE  /\ \A i \in Replicas : keyOf'[i] \in {0, secret}
             /\ \A t \in tokens' : t.key = secret /\ secret # 0
  <2>1. \A i \in Replicas : keyOf'[i] \in {0, secret}
    BY <1>1, <1>2, <1>3, <1>4, RequestShape DEF AccessTyped
  <2>2. tokens' = tokens \/ \E u : Issues(r, u)
    BY <1>1, <1>4, RequestShape
  <2>3. ASSUME NEW u, Issues(r, u) PROVE \A t \in tokens' : t.key = secret /\ secret # 0
    BY <1>2, <1>3, <2>3 DEF Issues, Token
  <2> QED  BY <1>2, <2>1, <2>2, <2>3
<1>5. ASSUME NEW r \in Replicas, Replace(r)
      PROVE  /\ \A i \in Replicas : keyOf'[i] \in {0, secret}
             /\ \A t \in tokens' : t.key = secret /\ secret # 0
  BY <1>2, <1>5 DEF Replace, AccessTyped
<1>6. CASE Administer \/ HourPassed \/ UNCHANGED accessVars
  BY <1>1, <1>2, <1>6 DEF Administer, HourPassed, accessVars
<1>7. ~ Rotate
  BY DEF Rotate
<1> QED  BY <1>1, <1>4, <1>5, <1>6, <1>7 DEF AccessNext

(* Every step keeps the headers on what is answered.                       *)
LEMMA HeadersStep ==
  ASSUME HeadersUnlessUnhandled, [AccessNext]_accessVars
  PROVE  HeadersUnlessUnhandled'
<1>1. CASE UNCHANGED accessVars
  BY <1>1 DEF accessVars, HeadersUnlessUnhandled
<1>2. CASE reply' = NoReply
  BY <1>2 DEF HeadersUnlessUnhandled
<1>3. ASSUME NEW u, NEW s, NEW by, reply' = [user |-> u, response |-> Response(s, by)],
             by = "nobody" => s = 500
      PROVE  HeadersUnlessUnhandled'
  <2>1. /\ reply'.response.headers = (by # "nobody") /\ reply'.response.status = s
    BY <1>3 DEF Response
  <2> QED  BY <1>3, <2>1, ZenonT(60) DEF HeadersUnlessUnhandled
<1>4. ASSUME NEW r \in Replicas, Request(r) PROVE HeadersUnlessUnhandled'
  <2>1. ASSUME NEW a \in Accounts, NEW p, NEW up \in BOOLEAN, Login(r, a, p, up)
        PROVE  \E u, s, by : /\ reply' = [user |-> u, response |-> Response(s, by)]
                             /\ by = "nobody" => s = 500
    BY <2>1 DEF Login, Responds
  <2>2. ASSUME NEW t, Protected(r, t)
        PROVE  \E u, s, by : /\ reply' = [user |-> u, response |-> Response(s, by)]
                             /\ by = "nobody" => s = 500
    BY <2>2 DEF Protected, Responds
  <2>3. CASE Jwks(r)
    BY <1>3, <2>3 DEF Jwks, Responds
  <2> QED  BY <1>3, <1>4, <2>1, <2>2, <2>3 DEF Request
<1>5. ASSUME NEW r \in Replicas, Replace(r) PROVE HeadersUnlessUnhandled'
  BY <1>2, <1>5 DEF Replace
<1>6. CASE Administer \/ Rotate \/ HourPassed
  BY <1>2, <1>6 DEF Administer, Rotate, HourPassed
<1> QED  BY <1>1, <1>4, <1>5, <1>6 DEF AccessNext

(* The invariant holds in every reachable state.                           *)
LEMMA AccessInvariance == AccessSpec => []AInv
<1>1. AccessInit => AInv
  <2> SUFFICES ASSUME AccessInit PROVE AInv
    OBVIOUS
  <2>1. AccessTyped
    BY DEF AccessInit, AccessTyped, Roles
  <2> QED
    BY <2>1
    DEF AccessInit, AInv, TokensOfRights, ServedByRight, ServedTo, OnePair, HeadersUnlessUnhandled
<1>2. AInv /\ [AccessNext]_accessVars => AInv'
  BY AccessTypedStep, RightsStep, OnePairStep, HeadersStep DEF AInv
<1> QED  BY <1>1, <1>2, PTL DEF AccessSpec

(* In production nobody is served longer than a token outlives the right   *)
(* it was issued for, no process refuses what another has signed, and only *)
(* unhandled errors lack the security headers, for any number of accounts, *)
(* tokens, processes and rotations (middleware.py 90-115, jwt.py 40-120).  *)
THEOREM AccessIsSound == AccessSpec => []AccessSound
<1>1. AInv => AccessSound
  <2> SUFFICES ASSUME AInv PROVE RightsEndWithTokens /\ RefusedOnlyAfterRotation
    BY DEF AInv, AccessSound
  <2>1. AccessTyped /\ TokensOfRights /\ ServedByRight /\ OnePair
    BY DEF AInv
  <2>2. RightsEndWithTokens
    <3> SUFFICES ASSUME ServedTo, env = "production"
                 PROVE  /\ reply.user.tenant = TenantOf[reply.user.sub]
                        /\ Noted[reply.user.sub][reply.user.role] + Lifetime > hour
      BY DEF RightsEndWithTokens
    <3>1. RightUntil(reply.user, hour + 1)
      BY <2>1 DEF ServedByRight
    <3>2. Noted[reply.user.sub][reply.user.role] \in Nat /\ hour \in Nat
      BY <2>1, <3>1, NotedShape DEF RightUntil, AccessTyped
    <3> QED  BY <3>1, <3>2, AccessAssumption DEF RightUntil
  <2>3. RefusedOnlyAfterRotation
    BY <2>1 DEF OnePair, RefusedOnlyAfterRotation, Valid, Key
  <2> QED  BY <2>2, <2>3
<1> QED  BY <1>1, AccessInvariance, PTL
=============================================================================
