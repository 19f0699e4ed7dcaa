----------------------------- MODULE MCSources -----------------------------
(***************************************************************************)
(* Small instances of what stands between the platform and the outside:    *)
(* the ingestion, the limiter and the authentication.  They share no state *)
(* but the clock of the ingestion, so a behaviour belongs to one of them   *)
(* ("part"): IngestCircuit (two workers over PGFN), Ingestion (the tasks   *)
(* of one worker, one source at a time, as they share neither keys nor     *)
(* circuits), LiveQueries (the gateway's own process), ConfazDocuments,    *)
(* RateLimiter or GatewayAccess.                                           *)
(***************************************************************************)
EXTENDS LiveQueries, ConfazDocuments, RateLimiter, GatewayAccess
CONSTANTS c1, c2, a1
VARIABLE part

OneTenant == [a \in {a1} |-> "t1"]

TwoCompanies == {c1, c2}

\* A list over which the circuit opens, and one in which a company comes twice.
LongLists == {<<c1, c2>>, <<c2, c1, c2>>}

\* No row; two good ones with a bad one between them.
SmallAnswers ==
  {<<>>, <<[id |-> 1, ok |-> TRUE], [id |-> 2, ok |-> FALSE], [id |-> 3, ok |-> TRUE]>>}
TownLists == {<<"t1">>, <<"t1", "t2">>}

\* The same agreement under two addresses, a page that is none, one link
\* twice; a scan, a file that cannot be opened, and one the model finds no
\* rule in.
Anchor(url, hint) == [url |-> url, pdf |-> TRUE, hint |-> hint]
SmallIndex ==
  {<<Anchor("u1", TRUE), Anchor("x", FALSE), Anchor("u2", TRUE), Anchor("u1", TRUE)>>,
   <<Anchor("u3", TRUE)>>, <<Anchor("u4", TRUE)>>}
Paper(name, native, byModel) ==
  [name |-> name, native |-> native, byModel |-> byModel,
   byRegex |-> {[n |-> 1, valid |-> TRUE], [n |-> 2, valid |-> FALSE]}]
SmallLibrary ==
  [u1 |-> Paper("a", 100, {[n |-> 3, valid |-> FALSE]}),
   u2 |-> Paper("a", 100, {[n |-> 3, valid |-> FALSE]}),
   u3 |-> Paper("b", -1, {}), u4 |-> Paper("c", 100, {})]

inboundVars == <<vars, ingestVars, liveVars, docVars>>
AllVars == <<inboundVars, limiterVars, accessVars, part>>

AllInit ==
  /\ Init /\ IngestInit /\ LiveInit /\ DocInit /\ LimiterInit /\ AccessInit
  /\ part \in Loops \cup {"circuit", "gateway", "datajud", "confaz", "limiter", "access"}
  /\ part # "access" => env = "dev" /\ secret = 0   \* which play no part there

CircuitPart == Next /\ UNCHANGED <<ingestVars, liveVars>>
TasksPart ==
  /\ part \in Loops \cup {"datajud"} /\ IngestNext
  /\ job'.task \in {"none", part} \cup IF part = "datajud" THEN {"waiting", "persist"} ELSE {}
  /\ UNCHANGED <<pc, todo, breaker, cache, history, liveVars>>
GatewayPart ==
  /\ LiveNext \/ (HourPasses /\ UNCHANGED liveVars)
  /\ UNCHANGED <<pc, todo, breaker, cache, history>>

InboundNext ==
  \/ /\ UNCHANGED docVars
     /\ \/ part = "circuit" /\ CircuitPart
        \/ TasksPart
        \/ part = "gateway" /\ GatewayPart
  \/ /\ part = "confaz"
     /\ (DocNext /\ UNCHANGED clock) \/ (HourPasses /\ UNCHANGED docVars)
     /\ UNCHANGED <<pc, todo, breaker, cache, history, ingestVars, liveVars>>

AllNext ==
  /\ \/ InboundNext /\ UNCHANGED <<limiterVars, accessVars>>
     \/ part = "limiter" /\ LimiterNext /\ UNCHANGED <<inboundVars, accessVars>>
     \/ part = "access" /\ AccessNext /\ UNCHANGED <<inboundVars, limiterVars>>
  /\ UNCHANGED part

AllSpec == AllInit /\ [][AllNext]_AllVars
=============================================================================
