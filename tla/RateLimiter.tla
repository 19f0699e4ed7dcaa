---------------------------- MODULE RateLimiter ----------------------------
(***************************************************************************)
(* RateLimitMiddleware of services/gateway/middleware.py: a counter per    *)
(* key and minute in Redis, shared by all gateway processes, and a         *)
(* cooldown per process after Redis has failed.                            *)
(*                                                                         *)
(* dispatch has no await before call_next, so a process decides on one     *)
(* request at a time; INCR and EXPIRE of several processes interleave.     *)
(* main.py adds this middleware after JWTAuthMiddleware, hence outside of  *)
(* it: no tenant is known yet and the key is the client's host.            *)
(***************************************************************************)
EXTENDS Naturals, FiniteSets

CONSTANTS Uvicorns, Hosts,
          Bearers,     \* the tenants whose tokens the requests carry
          RatePerMin,  \* _RATE_LIMIT_PER_MIN
          Minute,      \* 60 seconds, in ticks of the clock
          Cooldown,    \* _REDIS_COOLDOWN, in ticks
          MaxRequests, \* bound of the model: requests
          LastTick     \* bound of the model: the last tick that has a number

ASSUME LimiterAssumption ==
  /\ RatePerMin \in Nat \ {0} /\ Minute \in Nat \ {0} /\ Cooldown \in Nat
  /\ MaxRequests \in Nat /\ LastTick \in Nat /\ IsFiniteSet(Uvicorns)

VARIABLES ticks,     \* the clock, in parts of a minute
          counter,   \* counter[k]: value of ratelimit:{host}:{minute}, 0 without one
          ttl,       \* ttl[k]: ticks until it expires, 0 if it never does
          doing,     \* doing[g]: the next step of dispatch
          req,       \* req[g]: the request being decided on, with its "now"
          count,     \* count[g]: what INCR returned
          downUntil, \* downUntil[g]: _redis_down_until of that process
          served,    \* history: number of requests received
          sent,      \* sent[k]: history: requests received under that key
          askedBy,   \* askedBy[<<t, m>>]: history: requests of tenant t in minute m
          admitted,  \* admitted[k]: history: requests let through by their count
          rejected,  \* history: <<key, tenant>> of the requests that were refused
          forgotten, \* forgotten[k]: history: how often Redis lost the counter
          troubled   \* troubled[k]: history: commands lost, or sent twice

redisVars == <<counter, ttl, forgotten>>
limiterHistory == <<served, sent, askedBy, admitted, rejected, troubled>>
limiterVars == <<ticks, redisVars, doing, req, count, downUntil, limiterHistory>>

Minutes == 0..(LastTick \div Minute)
Keys == Hosts \X Minutes
NoRequest == [none |-> TRUE]

LimiterInit ==
  /\ ticks = 0
  /\ counter = [k \in Keys |-> 0] /\ ttl = [k \in Keys |-> 0]
  /\ doing = [g \in Uvicorns |-> "idle"]
  /\ req = [g \in Uvicorns |-> NoRequest]
  /\ count = [g \in Uvicorns |-> 0]
  /\ downUntil = [g \in Uvicorns |-> 0]
  /\ served = 0 /\ rejected = {}
  /\ askedBy = [u \in Bearers \X Minutes |-> 0]
  /\ sent = [k \in Keys |-> 0] /\ admitted = [k \in Keys |-> 0]
  /\ forgotten = [k \in Keys |-> 0] /\ troubled = [k \in Keys |-> 0]

\* Seeded fault: one counter per host, whatever the minute.
KeyOfHost(g) == <<req[g].host, 0>>

\* Seeded fault: one counter per minute, whatever the host.
KeyOfMinute(g) == <<CHOOSE h \in Hosts : TRUE, req[g].now \div Minute>>

KeyOf(g) == <<req[g].host, req[g].now \div Minute>>

\* The true host and minute of a request, for the history.
Bucket(g) == <<req[g].host, req[g].now \div Minute>>

StepTo(g, p) == doing' = [doing EXCEPT ![g] = p]
Add(f, k) == [f EXCEPT ![k] = @ + 1]
-----------------------------------------------------------------------------
\* A request arrives and "now" is read; within the cooldown Redis is left alone.
Receive(g, h, t) ==
  /\ doing[g] = "idle" /\ served < MaxRequests
  /\ served' = served + 1
  /\ sent' = Add(sent, <<h, ticks \div Minute>>)
  /\ askedBy' = Add(askedBy, <<t, ticks \div Minute>>)
  /\ req' = [req EXCEPT ![g] = [host |-> h, tenant |-> t, now |-> ticks]]
  /\ StepTo(g, IF ticks < downUntil[g] THEN "unlimited" ELSE "incr")
  /\ UNCHANGED <<ticks, redisVars, count, downUntil, admitted, rejected, troubled>>

\* Seeded fault: a counter is never given a time to live.
IncrNoExpire(g, n) ==
  /\ doing[g] = "incr"
  /\ counter' = [counter EXCEPT ![KeyOf(g)] = @ + n]
  /\ count' = [count EXCEPT ![g] = counter'[KeyOf(g)]]
  /\ StepTo(g, "decide")
  /\ troubled' = IF n = 1 THEN troubled ELSE Add(troubled, KeyOf(g))
  /\ UNCHANGED <<ticks, ttl, forgotten, req, downUntil, served, sent, askedBy, admitted, rejected>>

\* INCR.  n = 2: it timed out and the client sent it again (retry_on_timeout).
Incr(g, n) ==
  /\ doing[g] = "incr"
  /\ counter' = [counter EXCEPT ![KeyOf(g)] = @ + n]
  /\ count' = [count EXCEPT ![g] = counter'[KeyOf(g)]]
  /\ StepTo(g, IF counter'[KeyOf(g)] = 1 THEN "expire" ELSE "decide")
  /\ troubled' = IF n = 1 THEN troubled ELSE Add(troubled, KeyOf(g))
  /\ UNCHANGED <<ticks, ttl, forgotten, req, downUntil, served, sent, askedBy, admitted, rejected>>

\* EXPIRE 60; of a key that is gone by now it does nothing.
SetExpire(g) ==
  /\ doing[g] = "expire"
  /\ ttl' = IF counter[KeyOf(g)] = 0 THEN ttl ELSE [ttl EXCEPT ![KeyOf(g)] = Minute]
  /\ StepTo(g, "decide")
  /\ UNCHANGED <<ticks, counter, forgotten, req, count, downUntil, limiterHistory>>

\* Redis raises, before or after the command took effect: the process leaves
\* it alone until the cooldown, counted from the request's "now", is over.
CommandFails(g) ==
  /\ doing[g] \in {"incr", "expire"}
  /\ \/ UNCHANGED counter
     \/ doing[g] = "incr" /\ counter' = Add(counter, KeyOf(g))
  /\ troubled' = Add(troubled, KeyOf(g))
  /\ downUntil' = [downUntil EXCEPT ![g] = req[g].now + Cooldown]
  /\ StepTo(g, "unlimited")
  /\ UNCHANGED <<ticks, ttl, forgotten, req, count, served, sent, askedBy, admitted, rejected>>

\* Seeded fault: a decided request is not forgotten.
EndsHalfway(g) == StepTo(g, "idle") /\ UNCHANGED <<req, count>>

Ends(g) ==
  /\ StepTo(g, "idle")
  /\ req' = [req EXCEPT ![g] = NoRequest]
  /\ count' = [count EXCEPT ![g] = 0]

\* Seeded fault: one request too many passes.
OverLimitByOne(g) == count[g] > RatePerMin + 1

OverLimit(g) == count[g] > RatePerMin

Admit(g) ==
  /\ doing[g] = "decide" /\ ~ OverLimit(g)
  /\ admitted' = Add(admitted, Bucket(g))
  /\ Ends(g)
  /\ UNCHANGED <<ticks, redisVars, downUntil, served, sent, askedBy, rejected, troubled>>

\* 429.
Reject(g) ==
  /\ doing[g] = "decide" /\ OverLimit(g)
  /\ rejected' = rejected \cup {<<Bucket(g), req[g].tenant>>}
  /\ Ends(g)
  /\ UNCHANGED <<ticks, redisVars, downUntil, served, sent, askedBy, admitted, troubled>>

\* _on_limiter_unavailable: 503, or through without a count, as configured.
LimiterUnavailable(g) ==
  /\ doing[g] = "unlimited"
  /\ Ends(g)
  /\ UNCHANGED <<ticks, redisVars, downUntil, limiterHistory>>

\* The process dies; the next one knows nothing of Redis being down.
Crash(g) ==
  /\ doing[g] # "idle"
  /\ troubled' = Add(troubled, KeyOf(g))
  /\ downUntil' = [downUntil EXCEPT ![g] = 0]
  /\ Ends(g)
  /\ UNCHANGED <<ticks, redisVars, served, sent, askedBy, admitted, rejected>>
-----------------------------------------------------------------------------
(* Redis and the clock *)

Gone(k) == ttl[k] = 1

LimiterTick ==
  /\ ticks < LastTick \/ \E k \in Keys : ttl[k] > 0
  /\ ticks' = IF ticks < LastTick THEN ticks + 1 ELSE ticks
  /\ ttl' = [k \in Keys |-> IF ttl[k] = 0 THEN 0 ELSE ttl[k] - 1]
  /\ counter' = [k \in Keys |-> IF Gone(k) THEN 0 ELSE counter[k]]
  /\ forgotten' = [k \in Keys |-> IF Gone(k) THEN forgotten[k] + 1 ELSE forgotten[k]]
  /\ UNCHANGED <<doing, req, count, downUntil, limiterHistory>>

\* allkeys-lru.
Evict(k) ==
  /\ counter[k] > 0
  /\ counter' = [counter EXCEPT ![k] = 0]
  /\ ttl' = [ttl EXCEPT ![k] = 0]
  /\ forgotten' = Add(forgotten, k)
  /\ UNCHANGED <<ticks, doing, req, count, downUntil, limiterHistory>>
-----------------------------------------------------------------------------
Dispatch(g) ==
  \/ \E n \in {1, 2} : Incr(g, n)
  \/ SetExpire(g) \/ CommandFails(g) \/ Admit(g) \/ Reject(g) \/ LimiterUnavailable(g)

LimiterNext ==
  \/ \E g \in Uvicorns :
       (\E h \in Hosts, t \in Bearers : Receive(g, h, t)) \/ Dispatch(g) \/ Crash(g)
  \/ \E k \in Keys : Evict(k)
  \/ LimiterTick

LimiterSpec == LimiterInit /\ [][LimiterNext]_limiterVars
-----------------------------------------------------------------------------
(* Properties *)

LimiterTypeOK ==
  /\ ticks \in 0..LastTick
  /\ counter \in [Keys -> 0..(2 * MaxRequests)]
  /\ ttl \in [Keys -> 0..Minute]
  /\ doing \in [Uvicorns -> {"idle", "incr", "expire", "decide", "unlimited"}]
  /\ \A g \in Uvicorns : doing[g] = "idle" <=> req[g] = NoRequest
  /\ \A g \in Uvicorns : doing[g] # "idle" => KeyOf(g) \in Keys
  /\ \A g \in Uvicorns : downUntil[g] <= ticks + Cooldown

(* Over all processes together, at most RatePerMin requests of a key are   *)
(* let through in a minute by their count; each time Redis loses the       *)
(* counter allows for as many again (middleware.py 116-118).               *)
LimitHolds ==
  \A k \in Keys : admitted[k] <= RatePerMin * (1 + forgotten[k])

(* Nobody is refused for the requests of another host or of another        *)
(* minute: a 429 means more than RatePerMin commands counted for that host *)
(* in that very minute, a command that was sent twice counting twice.      *)
(* What the tenants behind one host do to each other is TenantsApart.      *)
RefusedForOwnRequests ==
  \A r \in rejected : sent[r[1]] + troubled[r[1]] > RatePerMin

(* A counter without a time to live is about to get one, or is left over   *)
(* from a failure: a lost EXPIRE, a process that died, an INCR whose first *)
(* answer was lost.                                                        *)
ImmortalOnlyByFailure ==
  \A k \in Keys :
    (counter[k] > 0 /\ ttl[k] = 0) =>
      \/ troubled[k] > 0 \/ forgotten[k] > 0
      \/ \E g \in Uvicorns : doing[g] = "expire" /\ KeyOf(g) = k

(* The counters of Redis: nobody is refused for the requests of another    *)
(* host, and no counter stays for ever unless something failed             *)
(* (middleware.py 120-160).                                                *)
CountersSound == LimiterTypeOK /\ RefusedForOwnRequests /\ ImmortalOnlyByFailure

(* What middleware.py 5 and 114 and test_tenant_a_nao_afeta_tenant_b       *)
(* (tests/unit/test_middleware_ratelimit.py 116-123) say: while nothing    *)
(* goes wrong, a tenant is refused only for what it sent itself.  main.py  *)
(* 118-121 puts the limiter outside of the middleware that names the       *)
(* tenant, so the tenants of one host share its counter.                   *)
TenantsApart ==
  (\A k \in Keys : troubled[k] = 0) =>
    \A r \in rejected : askedBy[<<r[2], r[1][2]>>] > RatePerMin
=============================================================================
