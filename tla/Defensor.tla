------------------------------ MODULE Defensor ------------------------------
(***************************************************************************)
(* The agent of services/defensor: it classifies a case, looks for         *)
(* precedents, lets a language model write the sections of the defence,    *)
(* decides who goes on with it, and files it or pretends to.  Every call   *)
(* of the model is a step: the provider may fail at any of them.           *)
(***************************************************************************)
EXTENDS Naturals, Sequences, FiniteSets

CONSTANTS Cases,    \* the requests: [canal, valor]
          Sections, \* number of sections of a petition
          Handoff,  \* _LIMIAR_HANDOFF_HUMANO
          Filings,  \* the requests to file: [canal, parties]; a text is a sequence of signs
          Settings  \* the configurations: [modo, provider, key, login]

ASSUME DefensorAssumption ==
  /\ Sections \in Nat \ {0}
  /\ Filings \subseteq [canal : STRING, parties : [1..3 -> Seq(STRING)]]

VARIABLES setting, agent, filed

defensorVars == <<setting, agent, filed>>

Nothing == "none"
NoNumber == <<>>   \* numero_protocolo=None
Resting == [at |-> "rest"]
Event(name, status) == [evento |-> name, status |-> status]
FirstEvents == <<Event("caso.classificado", "ok"), Event("reclamante.consultado", "ok"),
                 Event("subsidios.solicitando", "ok"), Event("subsidios.ok", "ok")>>

DefensorInit == setting \in Settings /\ agent = Resting /\ filed = {}
-----------------------------------------------------------------------------
\* generate_text: a text, or None for an error and for an empty text.
\* OpenAI is not asked without a key.
Texts ==
  IF setting.provider = "openai" /\ ~setting.key THEN {Nothing} ELSE {Nothing, "text"}

\* _definir_responsavel.
Responsible(case) ==
  IF case.canal = "CONTENCIOSO" \/ case.valor >= Handoff
  THEN <<"humano", "AGUARDA_PROTOCOLO">> ELSE <<"agente", "DEFESA_PRONTA">>

\* The first steps of run_agente, stubs which cannot fail, and the search of
\* assemble_petition: a search that fails has found nothing.
Open(case, found) ==
  /\ agent.at = "rest"
  /\ agent' = [at |-> "writing", case |-> case, found |-> found, up |-> TRUE, asked |-> 0,
               secoes |-> <<>>, eventos |-> Append(FirstEvents, Event("jurisprudencia.match", "ok"))]
  /\ UNCHANGED <<setting, filed>>

\* Seeded fault: a failure does not stop the calls.
WriteAlwaysAsking ==
  /\ agent.at = "writing" /\ Len(agent.secoes) < Sections
  /\ \E text \in Texts :
       agent' = [agent EXCEPT !.asked = @ + 1,
                   !.secoes = Append(@, [by |-> IF text = Nothing THEN "template" ELSE "llm",
                                         precedente |-> 0])]
  /\ UNCHANGED <<setting, filed>>

\* One turn of _redigir_secoes: after the first failure the model is not
\* asked again, and the template of the section stays.  The i-th section
\* carries the i-th precedent.
WriteSection ==
  LET i == Len(agent.secoes) + 1 IN
  /\ agent.at = "writing" /\ i <= Sections
  /\ \E text \in IF agent.up THEN Texts ELSE {Nothing} :
       agent' = [agent EXCEPT
         !.up = text # Nothing,
         !.asked = @ + IF agent.up THEN 1 ELSE 0,
         !.secoes = Append(@, [by |-> IF text = Nothing THEN "template" ELSE "llm",
                               precedente |-> IF i <= agent.found THEN i ELSE 0])]
  /\ UNCHANGED <<setting, filed>>

Written(by) == {i \in DOMAIN agent.secoes : agent.secoes[i].by = by}

\* Seeded fault: one section of the model is enough.
ViaOfSome == IF Written("llm") = {} THEN "template" ELSE "llm"

Via == CASE Written("llm") = {} -> "template"
         [] Written("template") = {} -> "llm"
         [] OTHER -> "parcial"

\* The rest of run_agente.
AnswerRequest ==
  LET who == Responsible(agent.case) IN
  /\ agent.at = "writing" /\ Len(agent.secoes) = Sections
  /\ agent' = [at |-> "done", case |-> agent.case, found |-> agent.found, up |-> agent.up,
       asked |-> agent.asked, secoes |-> agent.secoes, via |-> Via, status |-> who[2],
       eventos |-> agent.eventos \o
         <<Event("defesa.redigindo", IF Via = "template" THEN "running" ELSE "ok"),
           Event("defesa.pronta", "ok"),
           Event("protocolo.preparado", IF who[1] = "agente" THEN "ok" ELSE "pending")>>]
  /\ UNCHANGED <<setting, filed>>

\* The response is sent: nothing of a case is kept.
Close == agent.at = "done" /\ agent' = Resting /\ UNCHANGED <<setting, filed>>
-----------------------------------------------------------------------------
Channels == {"CONSUMIDOR_GOV", "PROCON"}   \* _DRIVERS_REAIS

\* Seeded fault: the parts are put together without a separator.
BaseGlued(req) == <<req.canal>> \o req.parties[1] \o req.parties[2] \o req.parties[3]

\* What numero_simulado hashes: f"{canal}|{reclamante}|{reclamada}|{resumo}".
Base(req) == <<req.canal, "|">> \o req.parties[1] \o <<"|">> \o req.parties[2]
             \o <<"|">> \o req.parties[3]

\* SimulacaoDriver.submit.
Simulated(req) ==
  [request |-> req, modo |-> "simulacao", status |-> "SIMULADO", number |-> Base(req)]

\* Seeded fault: a portal without a login is tried.
PortalAnyway(req) ==
  [request |-> req, modo |-> "real", status |-> "FALHA", number |-> NoNumber]

\* _PlaywrightPortalDriver.submit: the flow of the portal is a scaffold that
\* always raises.
Portal(req) ==
  [request |-> req, modo |-> "real", number |-> NoNumber,
   status |-> IF req.canal \in setting.login THEN "FALHA" ELSE "AGUARDA_CREDENCIAIS"]

\* get_driver and protocolar.
File(req) ==
  /\ filed' = filed \cup {IF setting.modo = "real" /\ req.canal \in Channels
                          THEN Portal(req) ELSE Simulated(req)}
  /\ UNCHANGED <<setting, agent>>

DefensorNext ==
  \/ \E case \in Cases, found \in 0..5 : Open(case, found)
  \/ WriteSection \/ AnswerRequest \/ Close
  \/ \E req \in Filings : File(req)

DefensorSpec == DefensorInit /\ [][DefensorNext]_defensorVars
-----------------------------------------------------------------------------
(* Properties *)

(* A defence is said to be written by the model only when every section    *)
(* is, and the timeline shows a draft still "running" exactly when none    *)
(* is (orchestrator.py 99-106), whenever in the case the provider fails.   *)
HonestProvenance ==
  agent.at = "done" =>
    /\ agent.via = "llm" <=> \A i \in 1..Sections : agent.secoes[i].by = "llm"
    /\ agent.via = "template" <=> \A i \in 1..Sections : agent.secoes[i].by = "template"
    /\ agent.eventos[6].status = "running" <=> agent.via = "template"

(* However many sections there are, a request waits for one failed call of *)
(* the provider at most: timeouts do not add up (orchestrator.py 74).      *)
OneTimeoutPerCase ==
  agent # Resting => agent.asked <= Cardinality(Written("llm")) + 1

(* Nothing is filed in the name of a party unless the real mode, a driver  *)
(* of the channel and its login are all there, and what was not filed for  *)
(* certain never carries the number of a portal (real.py 4-14).            *)
FilingIsDeliberate ==
  \A result \in filed :
    /\ result.status = "FALHA" =>
         setting.modo = "real" /\ result.request.canal \in Channels \cap setting.login
    /\ result.status # "ENVIADO"
    /\ result.number # NoNumber <=> result.status = "SIMULADO"

(* Two simulated filings have one number only when they are the same case, *)
(* as long as no name contains the separator (base.py 16-20).              *)
NumberNamesOneCase ==
  \A a, b \in {f \in filed : f.status = "SIMULADO"} :
    /\ \A f \in {a, b} : \A i \in 1..3 : \A j \in DOMAIN f.request.parties[i] :
         f.request.parties[i][j] # "|"
    /\ a.number = b.number
    => a.request = b.request

(* The client of a case is told where its texts came from and waits for    *)
(* the language model once at most; nothing is filed by accident, and no   *)
(* two cases share a protocol number (orchestrator.py, protocolar.py).     *)
DefensorSound ==
  /\ HonestProvenance /\ OneTimeoutPerCase /\ FilingIsDeliberate /\ NumberNamesOneCase
=============================================================================
