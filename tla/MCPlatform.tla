----------------------------- MODULE MCPlatform -----------------------------
(* Small instances of the parts of the platform that share no state with   *)
(* each other: a behaviour belongs to one of them ("part").                *)
EXTENDS DecisionLedger, CryptoShredding, Migrations, Defensor, CaseGraph,
        PublicMonitors, TaxPredict, Answers, Jurimetrics
VARIABLE part

(* Defensor: cases of two channels, one with a value to ask for; filings   *)
(* that differ in where one part of the text ends and the next begins.     *)
SmallCases ==
  {[canal |-> "PROCON", valor |-> 1], [canal |-> "PROCON", valor |-> 2],
   [canal |-> "CONTENCIOSO", valor |-> 1]}
SmallFilings ==
  {[canal |-> "PROCON", parties |-> <<<<"a">>, <<"a", "b">>, <<"c">>>>],
   [canal |-> "PROCON", parties |-> <<<<"a", "a">>, <<"b">>, <<"c">>>>],
   [canal |-> "OUVIDORIA", parties |-> <<<<"a">>, <<"|", "b">>, <<"c">>>>]}
SmallSettings ==
  [modo : {"simulacao", "real"}, provider : {"ollama", "openai"},
   key : BOOLEAN, login : {{}, {"PROCON"}}]

\* Batches for the graph: new, changed and moved lawsuits, with and without
\* a company.
Suit(p, c, r, a) == [id |-> p, cnpj |-> c, ramo |-> r, assunto |-> a]
SmallBatches ==
  {{Suit("p1", "c1", "TRABALHISTA", "a")},
   {Suit("p1", "c1", "TRABALHISTA", "b"), Suit("p2", "c2", "CIVEL", "a")},
   {Suit("p2", "c1", "CIVEL", "none")}, {Suit("p1", "none", "CIVEL", "a")}}

\* Shares of contracts on both sides of every threshold, by one contract.
Shares4(a, b, c, d) ==
  [r \in Rules |-> CASE r = "LL01" -> a [] r = "LL02" -> b [] r = "LL03" -> c [] OTHER -> d]
SmallCounts ==
  {NoContracts, [total |-> 500, share |-> Shares4(351, 151, 251, 101)],
   [total |-> 500, share |-> Shares4(350, 150, 250, 100)],
   [total |-> 3, share |-> Shares4(2, 1, 2, 1)],
   [total |-> 501, share |-> Shares4(351, 151, 251, 101)]}
SmallSnis == {[agua |-> 49, esgoto |-> 29, uf |-> "SP"]}
\* The second town is elsewhere.
SmallUfs == [t \in Towns |-> IF t = 2 THEN "RJ" ELSE "SP"]

\* Three segments in two courts, of which one has two subjects; files of ABJ:
\* two editions of a year, one with the period TODOS, and a refused row.
Seg(tribunal, assunto) == [tribunal |-> tribunal, classe |-> "7", assunto |-> assunto]
SmallSegments == {Seg("TJSP", "a"), Seg("TJSP", "b"), Seg("TJRJ", "a")}
AbjRow(p, b, pe) ==
  [segment |-> Seg("TJSP", "a"), periodo |-> p, tempo |-> 100, taxa |-> NULL,
   novos |-> 5, baixados |-> b, pendentes |-> pe]
SmallCsvs ==
  {{AbjRow("2023", 1, 2)}, {AbjRow("2023", 1, 1), AbjRow(TODOS, 0, 0)},
   {[AbjRow("2024", 1, 1) EXCEPT !.taxa = 20000]}}
SmallSizes == <<2, 1, 1>>
-----------------------------------------------------------------------------
PlatformInit ==
  /\ Init /\ KeysInit /\ MigrationsInit /\ DefensorInit /\ GraphInit /\ MonitorsInit
  /\ TaxInit /\ AdviceInit /\ EngineInit /\ JuriInit
  /\ part \in {"ledger", "keys", "migrations", "defensor", "graph", "towns", "list", "agencies",
               "taxpredict", "advice", "engine", "jurimetria"}
  /\ part = "defensor" \/ setting = CHOOSE s \in Settings : TRUE
  /\ part = "advice" \/ ~database
  /\ part = "engine" \/ backend = "auto"

\* The list of towns, the summaries behind it, and the agencies are taken one
\* at a time.
MonitorsPart ==
  CASE part = "towns" -> SummariesNext \/ RedisFails
    [] part = "list" -> FoundNext \/ ListNext \/ RedisFails
    [] part = "agencies" -> AgenciesNext \/ RedisFails
    [] OTHER -> UNCHANGED monitorVars

PlatformNext ==
  /\ UNCHANGED part
  /\ IF part = "ledger" THEN Next ELSE UNCHANGED vars
  /\ IF part = "keys" THEN KeysNext ELSE UNCHANGED keyVars
  /\ IF part = "migrations" THEN MigrationsNext ELSE UNCHANGED migrationVars
  /\ IF part = "defensor" THEN DefensorNext ELSE UNCHANGED defensorVars
  /\ IF part = "graph" THEN GraphNext ELSE UNCHANGED graphVars
  /\ MonitorsPart
  /\ IF part = "taxpredict" THEN TaxNext ELSE UNCHANGED taxVars
  /\ IF part = "advice" THEN AdviceNext ELSE UNCHANGED adviceVars
  /\ IF part = "engine" THEN EngineNext ELSE UNCHANGED engineVars
  /\ IF part = "jurimetria" THEN JuriNext ELSE UNCHANGED juriVars

platformVars ==
  <<vars, keyVars, migrationVars, defensorVars, graphVars, monitorVars,
    taxVars, adviceVars, engineVars, juriVars, part>>

PlatformSpec == PlatformInit /\ [][PlatformNext]_platformVars
=============================================================================
