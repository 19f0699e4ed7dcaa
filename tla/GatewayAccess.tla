--------------------------- MODULE GatewayAccess ---------------------------
(***************************************************************************)
(* Who gets through the gateway: login against tenant.users, tokens signed *)
(* with a key pair each process loads at its first use, and the middleware *)
(* around every request (auth/jwt.py, auth/users.py, auth/password.py,     *)
(* routers/auth.py, middleware.py, main.py).                               *)
(*                                                                         *)
(* A token carries tenant and role until it expires; nothing revokes it.   *)
(* Signatures are an external library: a token is valid under its key.     *)
(***************************************************************************)
EXTENDS Naturals, FiniteSets

CONSTANTS Replicas, Accounts,
          TenantOf,  \* TenantOf[a]: the tenant of an account
          Lifetime,  \* TOKEN_EXPIRY_SECONDS, in ticks
          LastHour,  \* bound of the model: ticks
          MaxKeys,   \* bound of the model: key pairs drawn
          MaxTokens  \* bound of the model: tokens in use

ASSUME AccessAssumption == Lifetime \in Nat \ {0}

VARIABLES hour,
          env,       \* ENV: "production", its default, or "dev"
          secret,    \* the key pair of the Docker secret, 0 without one
          keyOf,     \* keyOf[r]: the pair process r has loaded, 0 before
          drawn,     \* key pairs drawn so far
          users,     \* tenant.users: role, and whether account and tenant are active
          tokens,    \* tokens issued
          reply,     \* the response the last step gave
          lastRight, \* lastRight[a][role]: history: when a last had the role
          rotated    \* history: the secret was changed

accessVars == <<hour, env, secret, keyOf, drawn, users, tokens, reply, lastRight, rotated>>

Roles == {"viewer", "admin"}
NoReply == [status |-> 0]
Nobody == [none |-> TRUE]

AccessInit ==
  /\ hour = 1 /\ env \in {"production", "dev"} /\ secret \in {0, 1} /\ drawn = 1
  /\ keyOf = [r \in Replicas |-> 0]
  /\ users = [a \in Accounts |-> [role |-> "admin", active |-> TRUE]]
  /\ tokens = {} /\ reply = NoReply /\ rotated = FALSE
  /\ lastRight = [a \in Accounts |-> [role \in Roles |-> 0]]
-----------------------------------------------------------------------------
(* Keys *)

\* Seeded fault: a missing secret is replaced in every environment.
KeyOrEphemeral(r) ==
  IF keyOf[r] # 0 THEN keyOf[r] ELSE IF secret # 0 THEN secret ELSE drawn + 1

\* _load_keys: 0 where it raises, as there is no ephemeral pair in production.
Key(r) ==
  IF keyOf[r] # 0 THEN keyOf[r]
  ELSE IF secret # 0 THEN secret
  ELSE IF env = "dev" THEN drawn + 1 ELSE 0

LoadKeys(r) ==
  /\ Key(r) <= MaxKeys
  /\ keyOf' = [keyOf EXCEPT ![r] = Key(r)]
  /\ drawn' = IF Key(r) > drawn THEN Key(r) ELSE drawn

\* validate_token.
Valid(r, t) == t.key = Key(r) /\ hour < t.exp

\* issue_token.
Token(r, user) == [user |-> user, key |-> Key(r), exp |-> hour + Lifetime]
-----------------------------------------------------------------------------
(* Responses *)

\* Seeded fault: the headers are set inside of the authentication.
HeadersInside(status, by) == [status |-> status, by |-> by, headers |-> by = "handler"]

\* SecurityHeadersMiddleware is the outermost of the three; what nobody
\* catches is answered outside of it, by generic_exception_handler.
Response(status, by) == [status |-> status, by |-> by, headers |-> by # "nobody"]

\* _problem_json of main.py and of the middleware: a detail that is a problem
\* already is passed on.  Handlers answer, or raise with a status of their own.
HandlerStatus == {200, 422}

Responds(user, response) == reply' = [user |-> user, response |-> response]

\* Seeded fault: the account need not be active any more.
UserOfAny(a) == [sub |-> a, tenant |-> TenantOf[a], role |-> users[a].role]

\* authenticate: the row of an active account in an active tenant.
UserOf(a) == IF users[a].active THEN [sub |-> a, tenant |-> TenantOf[a], role |-> users[a].role] ELSE Nobody

DevUser(a) == [sub |-> a, tenant |-> "dev", role |-> "admin"]

\* POST /auth/token.  An empty field is refused before the database is asked.
Login(r, a, password, dbUp) ==
  LET user == IF password = "empty" THEN Nobody
              ELSE IF ~ dbUp THEN DevUser(a)
              ELSE IF password = "right" THEN UserOf(a) ELSE Nobody
  IN  \/ /\ password # "empty" /\ ~ dbUp /\ env = "production"
         /\ Responds(Nobody, Response(503, "handler"))
         /\ UNCHANGED <<keyOf, drawn, tokens>>
      \/ /\ password = "empty" \/ dbUp \/ env = "dev"
         /\ IF user = Nobody THEN /\ Responds(Nobody, Response(401, "handler"))
                                  /\ UNCHANGED <<keyOf, drawn, tokens>>
            ELSE IF Key(r) = 0 THEN /\ Responds(Nobody, Response(500, "nobody"))
                                    /\ UNCHANGED <<keyOf, drawn, tokens>>
            ELSE /\ Cardinality(tokens) < MaxTokens
                 /\ tokens' = tokens \cup {Token(r, user)}
                 /\ Responds(user, Response(200, "handler"))
                 /\ LoadKeys(r)

\* A path outside of _PUBLIC_PATHS; token is Nobody without a Bearer header.
\* Without keys every token is refused, as validate_token raises.
Protected(r, token) ==
  IF token = Nobody \/ (token # Nobody /\ ~ Valid(r, token))
  THEN /\ Responds(Nobody, Response(401, "auth"))
       /\ IF token = Nobody \/ Key(r) = 0 THEN UNCHANGED <<keyOf, drawn>> ELSE LoadKeys(r)
       /\ UNCHANGED tokens
  ELSE /\ \/ \E s \in HandlerStatus : Responds(token.user, Response(s, "handler"))
          \/ Responds(token.user, Response(500, "nobody"))
       /\ LoadKeys(r) /\ UNCHANGED tokens

\* GET /.well-known/jwks.json: the key as PEM, or nobody catches the error.
Jwks(r) ==
  /\ IF Key(r) = 0
     THEN Responds(Nobody, Response(500, "nobody")) /\ UNCHANGED <<keyOf, drawn>>
     ELSE Responds(Nobody, Response(200, "handler")) /\ LoadKeys(r)
  /\ UNCHANGED tokens

Request(r) ==
  /\ \/ \E a \in Accounts, p \in {"right", "wrong", "empty"}, up \in BOOLEAN : Login(r, a, p, up)
     \/ \E t \in tokens \cup {Nobody} : Protected(r, t)
     \/ Jwks(r)
  /\ UNCHANGED <<hour, env, secret, users, lastRight, rotated>>
-----------------------------------------------------------------------------
(* Administration *)

Noted == [a \in Accounts |-> [role \in Roles |->
            IF users[a].active /\ users[a].role = role THEN hour ELSE lastRight[a][role]]]

\* A row of tenant.users or of tenant.tenants is changed.
Administer ==
  /\ lastRight' = Noted /\ reply' = NoReply
  /\ \E a \in Accounts, role \in Roles, active \in BOOLEAN :
       users' = [users EXCEPT ![a] = [role |-> role, active |-> active]]
  /\ UNCHANGED <<hour, env, secret, keyOf, drawn, tokens, rotated>>

Rotate ==
  /\ drawn < MaxKeys /\ drawn' = drawn + 1
  /\ secret' = drawn + 1 /\ rotated' = TRUE /\ reply' = NoReply
  /\ UNCHANGED <<hour, env, keyOf, users, tokens, lastRight>>

\* A process is replaced, and loads its keys anew.
Replace(r) ==
  /\ keyOf[r] # 0 /\ keyOf' = [keyOf EXCEPT ![r] = 0] /\ reply' = NoReply
  /\ UNCHANGED <<hour, env, secret, drawn, users, tokens, lastRight, rotated>>

HourPassed ==
  /\ hour < LastHour /\ hour' = hour + 1 /\ reply' = NoReply
  /\ tokens' = {t \in tokens : t.exp > hour}   \* one that is long expired is never used
  /\ UNCHANGED <<env, secret, keyOf, drawn, users, lastRight, rotated>>

AccessNext ==
  \/ \E r \in Replicas : Request(r) \/ Replace(r)
  \/ Administer \/ Rotate \/ HourPassed

AccessSpec == AccessInit /\ [][AccessNext]_accessVars
-----------------------------------------------------------------------------
(* Properties *)

ServedTo == reply # NoReply /\ reply.response.by = "handler" /\ reply.user # Nobody

(* In production a request is served as somebody only if that account had  *)
(* that role, in a tenant that was active, within the lifetime of a token: *)
(* a token outlives the right it was issued for, but never by more, over   *)
(* role changes, deactivations, replaced processes and rotated keys.       *)
RightsEndWithTokens ==
  ServedTo /\ env = "production" =>
    LET a == reply.user.sub
    IN  /\ reply.user.tenant = TenantOf[a]
        /\ Noted[a][reply.user.role] + Lifetime > hour

(* As long as the secret is not changed all processes of production agree  *)
(* on all tokens: what one has issued no other refuses before it expires,  *)
(* also after either is replaced (jwt.py 60-67).                           *)
RefusedOnlyAfterRotation ==
  env = "production" /\ ~ rotated =>
    \A t \in tokens, r \in Replicas : hour < t.exp => Valid(r, t)

(* Every response carries the security headers, a refused login or token   *)
(* too, except the 500 for an exception nobody handled (the docstring of   *)
(* the middleware says "all responses").                                   *)
HeadersUnlessUnhandled ==
  reply # NoReply /\ ~ reply.response.headers => reply.response.status = 500

(* Who is served, who is refused and with what headers, over the lifetime  *)
(* of tokens, changes of rights and rotations of the secret (middleware.py *)
(* 90-115, jwt.py 40-120).                                                 *)
AccessSound == RightsEndWithTokens /\ RefusedOnlyAfterRotation /\ HeadersUnlessUnhandled
=============================================================================
