---------------------------- MODULE Jurimetrics ----------------------------
(***************************************************************************)
(* From the decisions DATAJUD published and the indicators of ABJ to the   *)
(* table jurimetria.indicador, and to the products that read it: market    *)
(* intelligence, demand forecasting, early warning and chamber profiles.   *)
(*                                                                         *)
(* run_aggregation reads the decisions, then the landing table of ABJ, and *)
(* writes both together; several may run at once, each read may fail, and  *)
(* a failed read counts as nothing found.  Nothing schedules it: it runs   *)
(* when somebody asks for it (no beat schedule names it).                  *)
(***************************************************************************)
EXTENDS Integers, Sequences, FiniteSets, FiniteSetsExt

CONSTANTS Segments,    \* [tribunal, classe, assunto]
          Sizes,       \* of the terms aggregations: courts, classes, subjects
          CaseIds,     \* identifiers of lawsuits
          Months,      \* the monthly indices datajud-silver-YYYY-MM
          Csvs,        \* the files ABJ may publish: sets of rows
          Aggregators, \* tasks that may run at the same time
          MaxChanges,  \* bound of the model: changes of the sources
          MaxFailures  \* bound of the model: failed reads and lost tasks

NULL == -1
TODOS == "TODOS"

\* A row of ABJ; the contract takes any numbers, but cases are counted.
AbjRows ==
  [segment : Segments, periodo : STRING, tempo : Int, taxa : Int,
   novos : Int, baixados : Int, pendentes : Nat \cup {NULL}]

ASSUME CsvsAssumption == \A csv \in Csvs : csv \subseteq AbjRows /\ IsFiniteSet(csv)

VARIABLES silver,    \* the documents of datajud-silver-*
          landing,   \* jurimetria.abj_indicador_raw
          indicador, \* jurimetria.indicador
          task,      \* task[a]: a run of run_aggregation
          reading,   \* history: runs whose reads are of the present sources
          current,   \* history: the last run to write the table was one of those
          changes,   \* history: changes of the sources
          failures   \* history: failed reads and lost tasks

juriVars == <<silver, landing, indicador, task, reading, current, changes, failures>>

Waits == [at |-> "start", buckets |-> {}, abj |-> {}]

JuriInit ==
  /\ silver = {} /\ landing = {} /\ indicador = {} /\ changes = 0 /\ failures = 0
  /\ task = [a \in Aggregators |-> Waits] /\ reading = {} /\ current = FALSE

\* Seeded fault: rows are matched whatever their period.
SameKeyOfSegment(r, s) == r.segment = s.segment

SameKey(r, s) == r.segment = s.segment /\ r.periodo = s.periodo

\* INSERT ... ON CONFLICT DO UPDATE: a row of the batch replaces its equal,
\* and nothing is ever deleted.
Upserted(table, batch, Same(_, _)) ==
  {r \in table : \A b \in batch : ~ Same(r, b)} \cup batch
-----------------------------------------------------------------------------
(* The sources *)

\* What was read, and the table made from it, is of the past now.
SourcesChange ==
  /\ changes < MaxChanges /\ changes' = changes + 1
  /\ reading' = {} /\ current' = FALSE

\* bulk_index with the process as identifier: once in each monthly index.
IndexDecision(month, p, segment) ==
  /\ SourcesChange
  /\ silver' = {d \in silver : <<d.month, d.process>> # <<month, p>>}
               \cup {[month |-> month, process |-> p, segment |-> segment]}
  /\ UNCHANGED <<landing, indicador, task, failures>>

\* AbjIndicadorBronze: an invalid row is counted and left out.
Accepted(row) == row.taxa = NULL \/ row.taxa \in 0..10000

\* abj_bronze_to_silver: pendentes / (baixados + pendentes), in 1/10000.
WithRate(row) ==
  LET total == row.baixados + row.pendentes
  IN  IF row.taxa # NULL \/ row.pendentes = NULL \/ row.baixados = NULL \/ total <= 0
      THEN row ELSE [row EXCEPT !.taxa = (2 * 10000 * row.pendentes + total) \div (2 * total)]

\* run_monthly_ingest, when it is enabled and the file could be had.
LoadAbj(csv) ==
  /\ SourcesChange
  /\ landing' = Upserted(landing, {WithRate(r) : r \in {x \in csv : Accepted(x)}}, SameKey)
  /\ UNCHANGED <<silver, indicador, task, failures>>
-----------------------------------------------------------------------------
(* The aggregation *)

\* Seeded fault: one bucket per month of the index.
BucketsByMonth ==
  {[segment |-> d.segment, periodo |-> d.month,
    n |-> Cardinality({e \in silver : e.segment = d.segment /\ e.month = d.month}), provimento |-> 0]
   : d \in silver}

\* The buckets of _query_datajud_buckets, where no terms aggregation cuts any
\* off: the years are asked for and not used.  No record carries
\* resultado_normalizado, so nothing was ever granted.
Buckets ==
  {[segment |-> d.segment, periodo |-> TODOS,
    n |-> Cardinality({e \in silver : e.segment = d.segment}), provimento |-> 0] : d \in silver}

\* The terms aggregations keep the courts, then the classes of a court, then
\* the subjects of a class with most documents, so many of each.
Path(s, n) == SubSeq(<<s.tribunal, s.classe, s.assunto>>, 1, n)
Documents(q) == Cardinality({d \in silver : Path(d.segment, Len(q)) = q})
Terms(segments, q) == {Path(s, Len(q) + 1) : s \in {x \in segments : Path(x, Len(q)) = q}}

KeepsMostFrequent(kept, terms, size) ==
  /\ Cardinality(kept) = IF Cardinality(terms) < size THEN Cardinality(terms) ELSE size
  /\ \A t \in kept, u \in terms \ kept : Documents(t) >= Documents(u)

KeptSegments ==
  LET seen == {d.segment : d \in silver}
  IN  {kept \in SUBSET seen :
         /\ kept = {} => seen = {}
         /\ \A s \in kept, n \in 1..3 :
              KeepsMostFrequent(Terms(kept, Path(s, n - 1)), Terms(seen, Path(s, n - 1)), Sizes[n])}

\* What _query_datajud_buckets may return.
Answered == {{b \in Buckets : b.segment \in kept} : kept \in KeptSegments}

Indicator(r, fonte, n, duracao, taxa, novos, provimento) ==
  [segment |-> r.segment, periodo |-> r.periodo, fonte |-> fonte, n |-> n, duracao |-> duracao,
   taxa |-> taxa, litigiosidade |-> novos, provimento |-> provimento]

\* build_indicador_rows.
Built(buckets, abj) ==
  {Indicator(b, "DATAJUD", b.n, NULL, NULL, b.n, b.provimento) : b \in buckets}
  \cup (UNION {{Indicator(b, "BLEND", b.n, r.tempo, r.taxa, r.novos, b.provimento)
                : r \in {x \in abj : SameKey(b, x)}} : b \in buckets})
  \cup {Indicator(r, "ABJ", IF r.pendentes = NULL THEN 0 ELSE r.pendentes,
                  r.tempo, r.taxa, r.novos, NULL)
        : r \in {x \in abj : \A b \in buckets : ~ SameKey(b, x)}}

SameRow(r, s) == SameKey(r, s) /\ r.fonte = s.fonte

Failure == failures < MaxFailures /\ failures' = failures + 1

ReadBuckets(a) ==
  /\ task[a].at = "start"
  /\ \E found \in Answered \cup {{}} :
       /\ \/ found \in Answered /\ reading' = reading \cup {a} /\ UNCHANGED failures
          \/ found = {} /\ Failure /\ UNCHANGED reading
       /\ task' = [task EXCEPT ![a] = [at |-> "read", buckets |-> found, abj |-> {}]]
  /\ UNCHANGED <<silver, landing, indicador, current, changes>>

\* _load_abj_rows.
ReadAbj(a) ==
  /\ task[a].at = "read"
  /\ \E found \in {landing, {}} :
       /\ \/ found = landing /\ UNCHANGED <<reading, failures>>
          \/ found = {} /\ Failure /\ reading' = reading \ {a}
       /\ task' = [task EXCEPT ![a].at = "write", ![a].abj = found]
  /\ UNCHANGED <<silver, landing, indicador, current, changes>>

Ends(a) == task' = [task EXCEPT ![a] = Waits] /\ reading' = reading \ {a}

\* Seeded fault: rows that are there are left as they are.
UpsertNew(a) ==
  LET rows == Built(task[a].buckets, task[a].abj) IN
  /\ task[a].at = "write"
  /\ indicador' = indicador \cup {r \in rows : \A i \in indicador : ~ SameRow(r, i)}
  /\ Ends(a) /\ current' = (a \in reading)
  /\ UNCHANGED <<silver, landing, changes, failures>>

\* _upsert_indicador, in one transaction.
Upsert(a) ==
  /\ task[a].at = "write"
  /\ indicador' = Upserted(indicador, Built(task[a].buckets, task[a].abj), SameRow)
  /\ Ends(a) /\ current' = (a \in reading)
  /\ UNCHANGED <<silver, landing, changes, failures>>

\* The database refuses the write, or the worker is stopped.
Aborts(a) ==
  /\ task[a].at # "start" /\ Failure /\ Ends(a)
  /\ UNCHANGED <<silver, landing, indicador, current, changes>>

JuriNext ==
  \/ \E m \in Months, p \in CaseIds, s \in Segments : IndexDecision(m, p, s)
  \/ \E csv \in Csvs : LoadAbj(csv)
  \/ \E a \in Aggregators : ReadBuckets(a) \/ ReadAbj(a) \/ Upsert(a) \/ Aborts(a)

JuriSpec == JuriInit /\ [][JuriNext]_juriVars
-----------------------------------------------------------------------------
(* The products *)

Volume(rows) == MapThenSumSet(LAMBDA r : r.n, rows)
Known(rows, Field(_)) == {r \in rows : Field(r) # NULL}
Taxa(r) == r.taxa
Duracao(r) == r.duracao
Provimento(r) == r.provimento

\* AVG of SQL, and the mean weighted by n_processos of the chamber profiles.
Avg(rows, Field(_)) ==
  LET known == Known(rows, Field)
  IN  IF known = {} THEN NULL ELSE MapThenSumSet(Field, known) \div Cardinality(known)
WeightedAvg(rows, Field(_)) ==
  LET known == {r \in Known(rows, Field) : r.n > 0}
  IN  IF known = {} THEN NULL
      ELSE MapThenSumSet(LAMBDA r : Field(r) * r.n, known) \div Volume(known)

CourtRows(tribunal) == {r \in indicador : r.segment.tribunal = tribunal}

\* get_congestion, get_duration and get_litigiosity.
Congestion(tribunal) == Known(CourtRows(tribunal), Taxa)
Duration(classe) == {r \in Known(indicador, Duracao) : r.segment.classe = classe}
Litigiosity == Known(indicador, LAMBDA r : r.litigiosidade)

\* market_intelligence: one line for each class and subject, all sources and
\* periods together.
Market(tribunal) ==
  {LET rows == {r \in CourtRows(tribunal) : r.segment = s}
   IN  [segment |-> s, total |-> Volume(rows), congestionamento |-> Avg(rows, Taxa),
        duracao |-> Avg(rows, Duracao), provimento |-> Avg(rows, Provimento)]
   : s \in {r.segment : r \in CourtRows(tribunal)}}

\* The rows behind the series of forecasting and of early warning.
SeriesRows(tribunal) == {r \in CourtRows(tribunal) : r.periodo # TODOS}
Series(tribunal) ==
  {LET rows == {r \in SeriesRows(tribunal) : r.periodo = p}
   IN  [periodo |-> p, n |-> Volume(rows), congestionamento |-> Avg(rows, Taxa)]
   : p \in {r.periodo : r \in SeriesRows(tribunal)}}

\* profile_tribunal.
ProfileRows(tribunal) == {r \in CourtRows(tribunal) : r.fonte \in {"DATAJUD", "BLEND"}}
Profile(tribunal) ==
  LET rows == ProfileRows(tribunal)
  IN  [n |-> Volume(rows), provimento |-> WeightedAvg(rows, Provimento),
       congestionamento |-> WeightedAvg(rows, Taxa), duracao |-> WeightedAvg(rows, Duracao)]
-----------------------------------------------------------------------------
(* Properties *)

(* The table has every row the sources call for, with its values, as long  *)
(* as nothing but runs that read the present sources wrote it last: old    *)
(* values are left only by a run that began before the sources changed and *)
(* wrote later than one that saw them, or that could not read a source,    *)
(* and then until the next run (jurimetria_aggregate.py 217, "Recomputa    *)
(* jurimetria.indicador").  Rows of what is gone may remain.               *)
CurrentMeansCovered ==
  current => \E found \in Answered : Built(found, landing) \subseteq indicador

(* Every number in the demand series is a stock of pending cases reported  *)
(* by ABJ, never a volume counted by DATAJUD, and the market report counts *)
(* a blended segment at least twice: what the periods and the sources of   *)
(* the rows come to, over the task and its readers (early_warning/queries  *)
(* .py 20, forecasting/queries.py 23, jurimetria/queries.py 129).          *)
SeriesIsAbjStock ==
  \A s \in Segments :
    /\ \A p \in Series(s.tribunal) :
         p.n = MapThenSumSet(LAMBDA r : r.n,
                 {r \in CourtRows(s.tribunal) : r.periodo = p.periodo /\ r.fonte = "ABJ"})
    /\ \A line \in Market(s.tribunal) : \A r \in indicador :
         (r.segment = line.segment /\ r.fonte = "BLEND") =>
           \E d \in indicador : d.fonte = "DATAJUD" /\ SameKey(d, r) /\ line.total >= r.n + d.n

(* A chamber profile knows the congestion and the duration of a court only *)
(* from rows that ABJ published for the period "TODOS", which no ABJ file  *)
(* is documented to have (chamber_profiler/queries.py 19, abj.py 25).      *)
ProfileBlindWithoutTodos ==
  \A s \in Segments :
    (Profile(s.tribunal).congestionamento # NULL \/ Profile(s.tribunal).duracao # NULL) =>
      \E r \in landing : r.periodo = TODOS /\ r.segment.tribunal = s.tribunal

(* The products see one side of the table only: the demand series ABJ, the *)
(* chamber profiles what ABJ gave for all periods together.                *)
ReportsOneSided == SeriesIsAbjStock /\ ProfileBlindWithoutTodos
=============================================================================
