---------------------------- MODULE SourceFetch ----------------------------
(***************************************************************************)
(* How each source of services/ingest/tasks is asked, and what its circuit *)
(* (IngestCircuit) learns from the reply.  Most functions record the       *)
(* success as soon as the status is good and read the body after it;       *)
(* DATAJUD, Receita and the IPCA read the body first, and the population,  *)
(* the PIB and the area of a town are converted to numbers only after the  *)
(* success is on record.                                                   *)
(*                                                                         *)
(* A reply is "down" (refused, timed out, or a status of failure),         *)
(* "garbled" (a good status, a body that cannot be decoded), "odd" (JSON   *)
(* of another shape than expected), "wrong" (the shape is right, the       *)
(* figure is no number) or "ok" with a body.                               *)
(***************************************************************************)
EXTENDS IngestCircuit, Integers

\* The function or record f, with v as its value for k.
With(f, k, v) == [x \in DOMAIN f \cup {k} |-> IF x = k THEN v ELSE f[x]]

Reply(kind, body) == [kind |-> kind, body |-> body]

\* What a function returns to its caller: a value, or an exception.
Value(v) == [raised |-> FALSE, value |-> v]
Raised == [raised |-> TRUE, value |-> <<>>]

\* When a function records its success: at a good "status", once the "point"
\* of a series was found in the body, or at the "end" of its work.
Moments == {"status", "point", "end"}

\* "oddFails" says whether a body of another shape, or with a figure that is
\* no number, raises where the function still catches it.
IsFailure(reply, oddFails) ==
  reply.kind \in {"down", "garbled"} \/ (reply.kind \in {"odd", "wrong"} /\ oddFails)

\* The success is on record already when the failure shows.
TooSoon(reply, moment) ==
  \/ moment = "status" /\ reply.kind # "down"
  \/ moment = "point" /\ reply.kind = "wrong"

Learnt(b, reply, moment, oddFails) ==
  IF ~ IsFailure(reply, oddFails) THEN RecordSuccess(b)
  ELSE IF TooSoon(reply, moment) THEN RecordFailure(RecordSuccess(b)) ELSE RecordFailure(b)

Body(reply, none) == IF reply.kind = "ok" THEN reply.body ELSE none

\* One call through the circuit b: nothing is asked while it is open.
Through(b, Learn(_), blocked, result) ==
  IF Observed(b).state = "OPEN"
  THEN [circuit |-> b, asked |-> FALSE, result |-> blocked]
  ELSE [circuit |-> Learn(Observed(b)), asked |-> TRUE, result |-> result]
-----------------------------------------------------------------------------
\* Failures raise DatajudUnreachable; a list instead of a dict is returned.
FetchFromApi(b, reply) ==
  Through(b, LAMBDA c : Learnt(c, reply, "end", FALSE), Raised,
          IF reply.kind \in {"down", "garbled"} THEN Raised ELSE Value(reply))

\* The items of a page and the number of pages the source reports now.
FetchPncpPage(b, reply) ==
  Through(b, LAMBDA c : Learnt(c, reply, "status", FALSE), Value([items |-> <<>>, total |-> 0]),
          Value(Body(reply, [items |-> <<>>, total |-> 0])))

FetchCagedApi(b, reply) ==
  Through(b, LAMBDA c : Learnt(c, reply, "status", TRUE), Value(<<>>), Value(Body(reply, <<>>)))

FetchSiconfiApi(b, reply) ==
  Through(b, LAMBDA c : Learnt(c, reply, "status", FALSE), Value(<<>>), Value(Body(reply, <<>>)))

\* Seeded fault: the success is recorded before the body is read.
FetchReceitaEarly(b, reply) ==
  Through(b, LAMBDA c : Learnt(c, reply, "status", FALSE), Raised,
          IF reply.kind = "ok" THEN Value(reply.body) ELSE Raised)

\* The collector: what it raises for an odd body is no RequestException.
FetchReceitaCnpj(b, reply) ==
  Through(b, LAMBDA c : Learnt(c, reply, "end", FALSE), Raised,
          IF reply.kind = "ok" THEN Value(reply.body) ELSE Raised)

\* The gateway's single query, on the same circuit "RECEITA".
FetchCnpj(b, reply) ==
  Through(b, LAMBDA c : Learnt(c, reply, "status", FALSE), Value("none"), Value(Body(reply, "none")))

FetchMunicipios(b, reply) ==
  Through(b, LAMBDA c : Learnt(c, reply, "status", FALSE), Value(<<>>), Value(Body(reply, <<>>)))

\* _fetch_n6_latest under fetch_populacao, fetch_pib and fetch_area: the last
\* year of a series and its value, which is missing where SIDRA has "-" or
\* "..."; without an answer the year is missing too.  int() and float() come
\* after the success.
Missing == -1
NoPoint == [year |-> 0, value |-> Missing]
FetchN6Latest(b, reply) ==
  Through(b, LAMBDA c : Learnt(c, reply, "point", TRUE), Value(NoPoint), Value(Body(reply, NoPoint)))

FetchPopulacao(b, reply) == FetchN6Latest(b, reply)
FetchPib(b, reply) == FetchN6Latest(b, reply)
FetchArea(b, reply) == FetchN6Latest(b, reply)

FetchCempre(b, reply) ==
  Through(b, LAMBDA c : Learnt(c, reply, "status", TRUE), Value("none"), Value(Body(reply, "none")))

\* Two series, one success: the second is not asked when the first fails.
FetchIpca(b, first, second) ==
  LET reply == IF first.kind = "ok" THEN second ELSE first
  IN  Through(b, LAMBDA c : Learnt(c, reply, "end", TRUE), Value("none"), Value(Body(reply, "none")))

FetchSerie(b, reply) ==
  Through(b, LAMBDA c : Learnt(c, reply, "status", FALSE), Value("none"), Value(Body(reply, "none")))

\* fetch_macro asks for two series one after the other, each with its own call.
FetchMacro(b, selic, cambio) == FetchSerie(FetchSerie(b, selic).circuit, cambio)

FetchAbjCsv(b, reply) ==
  Through(b, LAMBDA c : Learnt(c, reply, "status", TRUE), Value(<<>>), Value(Body(reply, <<>>)))

FetchEAgrega(b, reply) ==
  Through(b, LAMBDA c : Learnt(c, reply, "status", TRUE), Value(<<>>), Value(Body(reply, <<>>)))

\* TIPI: text is never garbled; a failure goes to Celery, which retries.
RunTipi(b, reply) ==
  Through(b, LAMBDA c : Learnt(c, reply, "status", FALSE), Value("skipped"),
          IF reply.kind = "down" THEN Raised ELSE Value(reply))
-----------------------------------------------------------------------------
(* What a source makes of the rows it was given *)

\* Seeded fault: an empty run counts as a total loss.
LossOfEmpty(in, out) == IF in > 0 THEN ((in - out) * 10000) \div in ELSE 10000

\* reconcile: the loss in hundredths of a percent, rounded down here.
Reconcile(in, out) == IF in > 0 THEN ((in - out) * 10000) \div in ELSE 0

\* receita.py takes an unknown situation for ATIVA, receita_cnpj.py does not.
Situacoes == {"ATIVA", "BAIXADA", "INAPTA", "SUSPENSA", "NULA"}
MapSituacaoBatch(raw) == IF raw \in Situacoes THEN raw ELSE "ATIVA"
MapSituacaoSingle(raw) == IF raw \in Situacoes THEN raw
                          ELSE IF raw = "" THEN "DESCONHECIDA" ELSE raw

=============================================================================
