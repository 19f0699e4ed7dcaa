---------------------------- MODULE LiveQueries ----------------------------
(***************************************************************************)
(* What the gateway answers by asking a source at once: the towns of a     *)
(* state, the population and the profile of a town (routers/compliance.py),*)
(* the macro indicators (routers/taxpredict.py) and the register of a      *)
(* company (routers/entidade.py).  The handlers call the fetch functions   *)
(* of the ingestion in the gateway's own process, where all functions of   *)
(* IBGE share one circuit; what is missing is left out of the answer.      *)
(***************************************************************************)
EXTENDS Ingestion

VARIABLES query,   \* the request in progress: the calls that are left
          answer,  \* history: the last answer given
          queries  \* history: requests

liveVars == <<query, answer, queries>>

NoQuery == [calls |-> <<>>, got |-> <<>>]
Nothing == NoPoint

\* The calls of each handler, in order.
Handlers ==
  [list_uf_municipios  |-> <<"municipios">>,
   municipio_populacao |-> <<"populacao">>,
   municipio_perfil    |-> <<"populacao", "pib", "cempre", "area">>,
   macro               |-> <<"ipca", "selic", "cambio">>,
   entidade            |-> <<"cnpj">>]

LiveInit == query = NoQuery /\ answer = NoQuery /\ queries = 0

Accept(h) ==
  /\ query = NoQuery /\ queries < MaxJobs
  /\ queries' = queries + 1
  /\ query' = [handler |-> h, calls |-> Handlers[h], got |-> <<>>]
  /\ UNCHANGED <<clock, ingestVars, answer>>

CircuitOf(call) ==
  CASE call = "cnpj" -> "gateway:RECEITA"
    [] call \in {"selic", "cambio"} -> "gateway:bcb"
    [] OTHER -> "gateway:ibge"

\* The calls on one circuit differ in when they record the success, and in
\* what an odd body does to them.
Moment(call) ==
  CASE call \in {"municipios", "cempre", "selic", "cambio", "cnpj"} -> "status"
    [] call \in {"populacao", "pib", "area"} -> "point"
    [] OTHER -> "end"
OddFails(call) == call \in {"populacao", "pib", "area", "cempre", "ipca"}

FetchOf(call, b, reply) ==
  CASE call = "municipios" -> FetchMunicipios(b, reply)
    [] call = "populacao" -> FetchPopulacao(b, reply)
    [] call = "pib" -> FetchPib(b, reply)
    [] call = "area" -> FetchArea(b, reply)
    [] call = "cempre" -> FetchCempre(b, reply)
    [] call = "cnpj" -> FetchCnpj(b, reply)
    [] call = "ipca" -> FetchIpca(b, reply, reply)
    [] OTHER -> FetchSerie(b, reply)

Call(reply) ==
  LET call == Head(query.calls)
      s == CircuitOf(call)
      f == FetchOf(call, circuits[s], reply)
      given == f.asked /\ reply.kind = "ok"
  IN  /\ query.calls # <<>>
      /\ Use(s, f, reply, Moment(call), OddFails(call))
      /\ query' = [query EXCEPT !.calls = Tail(@),
                                !.got = With(@, call, IF given THEN f.result.value ELSE Nothing)]
      /\ UNCHANGED <<clock, redis, archive, job, report, jobs, answer, queries>>

\* Seeded fault: the density is given whenever there is an area.
DensityOfArea(got) == got["area"].value > 0

\* The derived figures of a profile: given when both parts are, and not zero.
HasDensity(got) == got["populacao"].value > 0 /\ got["area"].value > 0
HasPerCapita(got) == got["pib"].value > 0 /\ got["populacao"].value > 0

Answer ==
  /\ query # NoQuery /\ query.calls = <<>>
  /\ answer' = IF query.handler # "municipio_perfil" THEN query ELSE
       With(With(query, "density", HasDensity(query.got)), "perCapita", HasPerCapita(query.got))
  /\ query' = NoQuery
  /\ UNCHANGED <<clock, ingestVars, queries>>

LiveNext ==
  \/ \E h \in DOMAIN Handlers : Accept(h)
  \/ \E r \in FigureReplies(Points) : Call(r)
  \/ Answer

\* The worker and the gateway beside each other, each with its own circuits.
sourcesVars == <<clock, ingestVars, liveVars>>

SourcesInit == clock = 0 /\ IngestInit /\ LiveInit
SourcesNext == (IngestNext /\ UNCHANGED liveVars) \/ LiveNext
SourcesSpec == SourcesInit /\ [][SourcesNext]_sourcesVars
-----------------------------------------------------------------------------
(* A profile never shows a figure derived from a part it does not have,    *)
(* whichever of the four calls failed, had no figure or was held back by   *)
(* the circuit the others opened (compliance.py 451-461).                  *)
DerivedOnlyFromGiven ==
  answer # NoQuery /\ answer.handler = "municipio_perfil" =>
    LET Given(figure) == answer.got[figure].value # Missing
    IN  /\ answer.density => Given("populacao") /\ Given("area")
        /\ answer.perCapita => Given("populacao") /\ Given("pib")

(* What the ingestions and the live queries tell is true of what they got  *)
(* and stored, whatever fails on the way.                                  *)
ReportsSound ==
  /\ ReportAddsUp /\ YearCovered /\ NoEntryFromFailure /\ StoredOrNamed /\ DayAsked
  /\ DerivedOnlyFromGiven
=============================================================================
