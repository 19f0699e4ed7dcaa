-------------------------- MODULE FiscalReference --------------------------
(***************************************************************************)
(* The reference tables of the fiscal engine: who fills them - the SEFAZ   *)
(* scraper, the TIPI and NCM-history ingestions (services/ingest/tasks),   *)
(* scripts/seed_fiscal.py - and who reads them while they are filled, the  *)
(* triage of one item (classify_one).                                      *)
(*                                                                         *)
(* A load is one transaction (READ COMMITTED) of one statement per row; a  *)
(* row that another open transaction has under the same constraint makes   *)
(* a statement wait.  Rows come into force the day they are inserted and   *)
(* nothing ends them.                                                      *)
(***************************************************************************)
EXTENDS FiscalTriage, FiniteSets

CONSTANTS Loaders,        \* transactions that may be open at a time
          RateTables, TipiFiles, MigrationFiles, \* what the sources publish
          HandMade,       \* rates by NCM prefix, which only a person inserts
          Seeded,         \* INTERNAS: the seed's rates [uf, pct, fcp]
          Requests,       \* items to classify
          Suggestions,    \* sets of hits a semantic source may return
          LastDay, MaxLoads \* bounds of the model

VARIABLES day, tables,
          load,    \* load[w]: the statements left of w's transaction, what it inserted
          asking,  \* the item being classified, with its NCM
          answer,  \* the last answer
          loads,   \* history: transactions begun
          overlap  \* history: whether two were ever open at once

referenceVars == <<day, tables, load, asking, answer, loads, overlap>>

Nothing == [kind |-> "none"]
TableNames == {"rates", "ncms", "ipi", "migr"}
NoRows == [t \in TableNames |-> {}]

ReferenceInit ==
  /\ day = 1 /\ loads = 0 /\ overlap = FALSE
  /\ tables = [NoRows EXCEPT !["rates"] = HandMade]
  /\ load = [w \in Loaders |-> Nothing]
  /\ asking = Nothing /\ answer = Nothing
-----------------------------------------------------------------------------
(* From what is published to statements *)

Statement(table, row) == [table |-> table, row |-> row]

\* The record r with v as its value for k.
With(r, k, v) == [x \in DOMAIN r \cup {k} |-> IF x = k THEN v ELSE r[x]]

EmptyCell == -2   \* None is one with text but no number

\* parse_aliquota_table and the contract: the first cell after the product
\* that holds a number is the rate, and must be plausible (35 %); the product
\* must have a name.
SefazStatements(uf, html) ==
  LET rate(tds) == SelectSeq(Tail(tds), LAMBDA c : c \notin {None, EmptyCell})
      rows == SelectSeq(html, LAMBDA tds : Len(tds) >= 2 /\ rate(tds) # <<>>)
      kept == SelectSeq(rows, LAMBDA tds : Head(tds) # EmptyCell /\ Head(rate(tds)) <= 3500)
  IN  [i \in 1..Len(kept) |-> Statement("rates",
         [uf |-> uf, prefix |-> NoCode, pct |-> Head(rate(kept[i])), fcp |-> None, source |-> "SEFAZ"])]

\* _to_bronze and the two statements of _upsert.  The contract has the same
\* limit of 400 % as _quality_ok, so nothing ever reaches the quarantine.
TipiStatements(csv) ==
  LET kept == SelectSeq(csv, LAMBDA r : r.code # NoCode /\ r.text # "" /\ r.pct <= 40000)
  IN  FlattenSeq([i \in 1..Len(kept) |->
        <<Statement("ncms", [code |-> kept[i].code, text |-> kept[i].text])>>
        \o IF kept[i].pct = None THEN <<>> ELSE
           <<Statement("ipi", [code |-> kept[i].code, ex |-> kept[i].ex, pct |-> kept[i].pct])>>])

\* parse_migracao; a row without a start (0) is kept.
MigrationStatements(csv) ==
  LET kept == SelectSeq(csv, LAMBDA r : r.from # NoCode)
  IN  [i \in 1..Len(kept) |-> Statement("migr", kept[i])]

\* Seeded fault: NULL is compared with "=", and is never equal.
KeyWithNulls(s) ==
  CASE s.table = "rates" -> <<s.row.uf, s.row.prefix>>
    [] s.table = "ncms"  -> s.row.code
    [] s.table = "ipi"   -> <<s.row.code, s.row.ex>>
    [] s.table = "migr"  -> <<s.row.from, s.row.to, IF s.row.to = NoCode /\ "run" \in DOMAIN s.row THEN -1 ELSE s.row.start>>

\* What makes a row "the same" to NOT EXISTS, or to ON CONFLICT.
Key(s) ==
  CASE s.table = "rates" -> <<s.row.uf, s.row.prefix>>
    [] s.table = "ncms"  -> s.row.code
    [] s.table = "ipi"   -> <<s.row.code, s.row.ex>>
    [] s.table = "migr"  -> <<s.row.from, s.row.to, s.row.start>>

\* What is published, as statements; a row has the columns of its table.
Published ==
  {SefazStatements(t.uf, t.html) : t \in RateTables}
    \cup {TipiStatements(f) : f \in TipiFiles} \cup {MigrationStatements(f) : f \in MigrationFiles}

Columns(t) ==
  CASE t = "rates" -> {"uf", "prefix", "pct", "fcp", "source"}
    [] t = "ncms"  -> {"code", "text"}
    [] t = "ipi"   -> {"code", "ex", "pct"}
    [] t = "migr"  -> {"from", "to", "start"}

IsRate(r) == r.pct \in Nat /\ r.fcp \in Nat \cup {None} /\ r.prefix \in Seq(Nat)

ASSUME TablesAssumption ==
  /\ \A file \in Published :
       /\ file \in Seq(Range(file))
       /\ \A i \in DOMAIN file :
            /\ DOMAIN file[i] = {"table", "row"} /\ file[i].table \in TableNames
            /\ DOMAIN file[i].row = Columns(file[i].table)
            /\ file[i].table = "rates" => IsRate(file[i].row)
  /\ IsFiniteSet(HandMade)
  /\ \A r \in HandMade : DOMAIN r = Columns("rates") \cup {"since"} /\ IsRate(r)
  /\ \A r, s \in HandMade : r.uf = s.uf /\ r.prefix = s.prefix => r = s
  /\ IsFiniteSet(Seeded)
  /\ \A s \in Seeded : s.pct \in Nat /\ s.fcp \in Nat \cup {None}
  /\ \A s, t \in Seeded : s.uf = t.uf => s = t

\* The official descriptions; what an item and a semantic source say of them.
Texts == {s.row.text : s \in {x \in UNION {Range(file) : file \in Published} : x.table = "ncms"}}

ASSUME RequestsAssumption ==
  /\ \A r \in Requests :
       /\ DOMAIN r = {"like", "hint", "from", "to", "day", "importado", "conteudo"}
       /\ r.conteudo \in Nat \cup {None}
       /\ r.like # <<>> => \A text \in Texts : r.like[text] \in Int
  /\ \A hits \in Suggestions : IsFiniteSet(hits) /\ \A h \in hits : h.score \in Int

\* The rows of a table with the key of statement s.
Same(s, rows) == {r \in rows : Key([s EXCEPT !.row = r]) = Key(s)}
-----------------------------------------------------------------------------
(* Transactions *)

Open == {w \in Loaders : load[w] # Nothing}

BeginLoad(w, kind, statements) ==
  /\ load[w] = Nothing /\ loads < MaxLoads
  /\ loads' = loads + 1
  /\ overlap' = (overlap \/ Open # {})
  /\ load' = [load EXCEPT ![w] =
       [kind |-> kind, run |-> loads', file |-> statements, left |-> statements,
        mine |-> NoRows, waits |-> FALSE]]
  /\ UNCHANGED <<day, tables, asking, answer>>

Current(w) == Head(load[w].left)
Running(w) == load[w] # Nothing /\ load[w].left # <<>>

\* Seeded fault: no constraint backs the check of the statement.
HeldWithoutConstraint(w) == FALSE

\* Another transaction has inserted the same, and a constraint forbids two.
Held(w) ==
  /\ Current(w).table # "migr"
  /\ \E v \in Open \ {w} : Same(Current(w), load[v].mine[Current(w).table]) # {}

Visible(w) == Same(Current(w), tables[Current(w).table] \cup load[w].mine[Current(w).table])

Advanced(w) == [load[w] EXCEPT !.left = Tail(@), !.waits = FALSE]

\* The row as it is stored; the run stands for the identifier of the row.
Stored(w) ==
  LET s == Current(w)
  IN  IF s.table \in {"ipi", "migr"} THEN With(s.row, "run", load[w].run)
      ELSE With(s.row, "since", day)

\* Seeded fault: ON CONFLICT DO NOTHING.
AbsentForAll(w) == Visible(w) = {}

\* INSERT ... WHERE NOT EXISTS skips what it sees; the IPI is overwritten.
Inserts(w) == Visible(w) = {} \/ Current(w).table = "ipi"

Skip(w) ==
  /\ Running(w) /\ ~ load[w].waits /\ ~ Inserts(w)
  /\ load' = [load EXCEPT ![w] = Advanced(w)]
  /\ UNCHANGED <<day, tables, asking, answer, loads, overlap>>

Wait(w) ==
  /\ Running(w) /\ ~ load[w].waits /\ Inserts(w) /\ Held(w)
  /\ load' = [load EXCEPT ![w].waits = TRUE]
  /\ UNCHANGED <<day, tables, asking, answer, loads, overlap>>

NullStart(w) == Current(w).table = "migr" /\ Current(w).row.start = 0

Insert(w) ==
  /\ Running(w) /\ Inserts(w) /\ ~ Held(w) /\ ~ NullStart(w)
  /\ LET t == Current(w).table IN
       load' = [load EXCEPT ![w] =
         [Advanced(w) EXCEPT !.mine[t] = (@ \ Same(Current(w), @)) \cup {Stored(w)}]]
  /\ UNCHANGED <<day, tables, asking, answer, loads, overlap>>

\* The row waited for was committed, the other one waits for a row of this
\* transaction, a start is missing, the worker dies: nothing is kept, and a
\* failure of the database is not retried.
Rollback(w) ==
  /\ load[w] # Nothing
  /\ load' = [load EXCEPT ![w] = Nothing]
  /\ UNCHANGED <<day, tables, asking, answer, loads, overlap>>

Replaced(t, w) ==
  {r \in tables[t] : \E m \in load[w].mine[t] :
     t = "ipi" /\ Key(Statement(t, r)) = Key(Statement(t, m))}

Commit(w) ==
  /\ load[w] # Nothing /\ load[w].left = <<>>
  /\ tables' = [t \in TableNames |-> (tables[t] \ Replaced(t, w)) \cup load[w].mine[t]]
  /\ load' = [load EXCEPT ![w] = Nothing]
  /\ UNCHANGED <<day, asking, answer, loads, overlap>>

\* seed_fiscal.py: its own rates are replaced; the rate of somebody else for
\* the same UF makes it fail; one not yet committed makes it wait.
SeedRows == {[uf |-> s.uf, prefix |-> NoCode, pct |-> s.pct, fcp |-> s.fcp,
              source |-> "SEFAZ-SEED", since |-> day] : s \in Seeded}

Seed ==
  /\ loads < MaxLoads /\ loads' = loads + 1
  /\ \A w \in Open : \A r \in load[w].mine["rates"] : \A s \in Seeded : r.uf # s.uf
  /\ LET kept == {r \in tables["rates"] : r.source # "SEFAZ-SEED"}
         clash == \E s \in SeedRows : Same(Statement("rates", s), kept) # {}
     IN  tables' = [tables EXCEPT !["rates"] = IF clash THEN @ ELSE kept \cup SeedRows]
  /\ UNCHANGED <<day, load, asking, answer, overlap>>
-----------------------------------------------------------------------------
(* POST /fiscal/ncm/triage: each SELECT sees what is committed by then *)

\* The day of an item is today unless it is given.
Dated(req) == [req EXCEPT !.day = IF @ = None THEN day ELSE @]

Ask(req) ==
  /\ asking = Nothing
  /\ \E r \in {Dated(req)} :
       \E m \in {MatchNcm(r, tables["ncms"], {})} :
         asking' = [kind |-> "item", req |-> r, candidate |-> m.candidate, conflito |-> m.conflito]
  /\ UNCHANGED <<day, tables, load, answer, loads, overlap>>

Answer ==
  /\ asking # Nothing
  /\ answer' = With(asking, "icms", IcmsFor(asking.req, asking.candidate.code, tables["rates"]))
  /\ asking' = Nothing
  /\ UNCHANGED <<day, tables, load, loads, overlap>>

\* GET /fiscal/icms/{ncm}/{uf}: one SELECT; the imported content is not asked.
GetIcms(req, code) ==
  /\ req.hint = code
  /\ \E r \in {With(Dated(req), "conteudo", None)} :
       answer' = [kind |-> "rate", req |-> r, candidate |-> Candidate(code, 1000, "ASKED"),
                  conflito |-> FALSE, icms |-> IcmsFor(r, code, tables["rates"])]
  /\ UNCHANGED <<day, tables, load, asking, loads, overlap>>

DayPasses ==
  /\ day < LastDay /\ day' = day + 1
  /\ UNCHANGED <<tables, load, asking, answer, loads, overlap>>

Loading(w) ==
  \/ \E t \in RateTables : BeginLoad(w, "sefaz", SefazStatements(t.uf, t.html))
  \/ \E f \in TipiFiles : BeginLoad(w, "tipi", TipiStatements(f))
  \/ \E f \in MigrationFiles : BeginLoad(w, "migr", MigrationStatements(f))
  \/ Skip(w) \/ Wait(w) \/ Insert(w) \/ Rollback(w) \/ Commit(w)

ReferenceNext ==
  \/ \E w \in Loaders : Loading(w)
  \/ Seed \/ Answer \/ DayPasses
  \/ \E req \in Requests : Ask(req) \/ GetIcms(req, req.hint)

ReferenceSpec == ReferenceInit /\ [][ReferenceNext]_referenceVars
-----------------------------------------------------------------------------
(* resolve_current: the code that succeeds another at a date *)

\* The applicable migration of a code that begins last; {}: the code stands.
Latest(code, migr, date) ==
  LET open == {m \in migr : m.from = code /\ m.start <= date}
  IN  {m \in open : \A n \in open : m.start >= n.start}

\* Seeded fault: a successor is not followed further.
OneMigration(code, migr, date) ==
  LET m == Latest(code, migr, date) IN IF m = {} THEN code ELSE (CHOOSE x \in m : TRUE).to

ResolveCurrent(code, migr, date) ==
  LET walk[n \in 0..(Cardinality(migr) + 1)] ==
        IF n = 0 THEN [at |-> code, seen |-> {}]
        ELSE LET p == walk[n - 1]
                 m == Latest(p.at, migr, date)
             IN  IF p.at = NoCode \/ p.at \in p.seen \/ m = {} THEN p
                 ELSE [at |-> (CHOOSE x \in m : TRUE).to, seen |-> p.seen \cup {p.at}]
  IN  walk[Cardinality(migr) + 1].at
-----------------------------------------------------------------------------
(* Properties *)

(* At most one rate per UF and prefix, one description per NCM and one IPI *)
(* per exception is in force, whoever loads at the same time               *)
(* (003_fiscal_schema.sql 36, 66, 105): the NOT EXISTS of the loads alone  *)
(* would not be enough.                                                    *)
OneRowInForce ==
  \A t \in TableNames \ {"migr"} : \A r, s \in tables[t] :
    Key(Statement(t, r)) = Key(Statement(t, s)) => r = s

(* The upsert of migrations is idempotent (ncm_history.py 4) unless two    *)
(* loads overlap: no constraint backs it.                                  *)
TwiceOnlyIfConcurrent ==
  ~ overlap => \A r, s \in tables["migr"] :
    (r.from = s.from /\ r.to = s.to /\ r.start = s.start) => r = s

Codes == UNION {{m.from, m.to} : m \in tables["migr"]}
Successors(c, date) == {m.to : m \in Latest(c, tables["migr"], date)}
Reached(c, date) ==
  LET f[n \in 0..Cardinality(Codes)] ==
        IF n = 0 THEN Successors(c, date)
        ELSE f[n - 1] \cup UNION {Successors(d, date) : d \in f[n - 1]}
  IN  f[Cardinality(Codes)]

(* A code resolves to one that has no successor at the date, to nothing if *)
(* the line ends there, and to a member of the cycle if the table has one  *)
(* (ncm_history.py 86-88); rows that are there twice change nothing.       *)
ResolvedIsCurrent ==
  \A date \in 1..LastDay : \A c \in Codes \ {NoCode} :
    \A r \in {ResolveCurrent(c, tables["migr"], date)} :
      /\ r = c \/ r \in Reached(c, date)
      /\ r = NoCode \/ Latest(r, tables["migr"], date) = {} \/ r \in Reached(r, date)

(* An item that is not flagged for review rests on an NCM in force that    *)
(* was given or is similar enough, or on a sure semantic hit: neither a    *)
(* weak match nor an unknown hint goes through unflagged (engine.py 66-90).*)
UnflaggedRestsOnEvidence ==
  \A req \in {[r EXCEPT !.day = day] : r \in Requests} : \A hits \in Suggestions :
    \A m \in {MatchNcm(req, tables["ncms"], hits)} :
      ~ m.conflito =>
        \/ \E r \in tables["ncms"] :
             /\ r.code = m.candidate.code
             /\ req.hint = r.code \/ (req.hint = NoCode /\ req.like[r.text] >= 820)
        \/ req.hint = NoCode /\ \E h \in hits : h.code = m.candidate.code /\ h.score >= 780

(* The tax of an answer is that of the rates in force when it was given,   *)
(* not when the item was matched: nothing is invented for a destination    *)
(* without a rate, no rate for a narrower range of codes is passed over,   *)
(* and what is due to the two states adds up to the internal rate with its *)
(* fund, or to the interstate one if that is higher (icms_resolver.py 4-8).*)
TaxFromRatesInForce ==
  answer' # answer =>
    LET req == answer'.req
        icms == answer'.icms
        there == {r \in tables["rates"] : r.uf = req.to /\ r.since <= req.day
                    /\ IsPrefix(r.prefix, answer'.candidate.code)}
        narrowest == {r \in there : \A s \in there : Len(s.prefix) <= Len(r.prefix)}
        full(r) == r.pct + IF r.fcp = None THEN 0 ELSE r.fcp
    IN  /\ there = {} <=> icms.interna = None
        /\ icms.difal # None <=> there # {} /\ req.from # req.to
        /\ \A r \in narrowest : icms.interna = full(r)
        /\ icms.difal # None => icms.inter + icms.difal = Max({icms.inter, icms.interna})
        /\ req.from # req.to =>
             icms.inter = IF req.importado /\ req.conteudo \notin 0..4000 THEN 400
                          ELSE IF req.from \in SulSudeste /\ req.to \notin SulSudeste THEN 700
                          ELSE 1200

(* The IPI of a code and exception is what the last load committed says,   *)
(* and its last line if it says it twice (rfb_tipi.py 102).                *)
IpiAsLastLoaded ==
  \A w \in Loaders :
    Commit(w) /\ load[w].kind = "tipi" =>
      \A i \in 1..Len(load[w].file) :
        LET s == load[w].file[i] IN
          s.table = "ipi"
          /\ (\A j \in (i + 1)..Len(load[w].file) :
                load[w].file[j].table = "ipi" => Key(load[w].file[j]) # Key(s))
          => \E r \in tables'["ipi"] : Key(Statement("ipi", r)) = Key(s) /\ r.pct = s.row.pct

(* What seed_fiscal.py 6-7 says: from the go-live on the scraper is the    *)
(* source of truth, so a rate it loads is in force afterwards.             *)
ScrapedRateTakesOver ==
  [][\A w \in Loaders :
       Commit(w) /\ load[w].kind = "sefaz" /\ load[w].file # <<>> =>
       \E r \in tables'["rates"] : r.uf = load[w].file[1].row.uf /\ r.prefix = NoCode
         /\ r.pct = load[w].file[1].row.pct]_referenceVars

(* The reference tables say one thing of a code, a state and a day: one    *)
(* rate in force, a migration twice only if two loads overlapped, and a    *)
(* code that is current after the walk (sefaz_scraper.py 50-75, ncm        *)
(* _history.py 30-60 and 98-130).                                          *)
TablesSound == OneRowInForce /\ TwiceOnlyIfConcurrent /\ ResolvedIsCurrent

(* Every answer and every load goes by the tables as they are at that      *)
(* moment: the tax by the rates in force, the IPI by the last load.        *)
AnswersFollowTables == [][TaxFromRatesInForce /\ IpiAsLastLoaded]_referenceVars
=============================================================================
