# Formal models of juridico-platform

TLA+ modules, TLC configurations and TLAPS proofs for the parts of the platform
that decide or keep something: the Decision Ledger, the scores and their batch
jobs, the fiscal engine, the gateway in front of them, the ingestion behind them,
and the products that read what it left.  Paths below are relative to the root of
the repository.  `PROJECT.json` lists, for every definition that models code, the
lines it stands for.

Check a run with `tlc -config <file>.cfg <module>.tla`, a proof with
`tlapm <module>.tla`.

## 1. Inventory

### Parts, their state and their operations

| Part | Code | State | Operations | Here |
|---|---|---|---|---|
| Merkle tree | `services/shared/ledger/merkle.py` 22-62 | none | root, proof, walk | `Merkle` |
| Decision Ledger, in memory | `merkle.py` 65-146 | list of entries, root | `add_entry`, `get_proof`, `verify_integrity` | `DecisionLedger` |
| Decision Ledger, Postgres | `merkle.py` 149-332, `scripts/bootstrap-db.sql`, `tenant_db.py` | `ledger.entries`, `ledger.anchors`; advisory locks | the same, as transactions | `PostgresLedger` |
| LegalScore, one company | `services/gateway/routers/legalscore.py` 171-254, `services/scoring/idempotency.py` | `idempotency:*` in Redis (24 h) | `score_company` | `ScoreService` |
| Score engine | `services/scoring/features.py`, `services/scoring/engine/` | none; the probe of the crate per process | features, Python engine, crate with fallback | `ScoreEngine` |
| LegalScore, batch | `legalscore.py` 358-423, `services/scoring/tasks.py` | `batch:*` trackers in Redis (2 h), Celery queue | submit, run, update, poll | `BatchJob` |
| Fiscal enrichment | `services/gateway/routers/fiscal.py` 161-229, `services/fiscal/tasks.py`, `batch/anchor.py` | sheet in MinIO, tracker, chord, ledger entry, `fiscal.triage_item` | upload, dispatch, classify, finalize | `FiscalEnrichment` |
| Fiscal triage | `services/fiscal/triage/`, `services/shared/contracts/fiscal.py`, `spreadsheet/reader.py` | none | match, rates, DIFAL, rows of a sheet | `FiscalTriage` |
| Fiscal reference tables | `tasks/sefaz_scraper.py`, `rfb_tipi.py`, `ncm_history.py`, `scripts/seed_fiscal.py`, `003_fiscal_schema.sql` | `fiscal.ncm`, `icms_interno`, `ipi`, `ncm_migracao` | loads as transactions, seed, `classify_one`, `get_icms` | `FiscalReference` |
| Rate limiter | `services/gateway/middleware.py` 43-53, 112-167 | `ratelimit:*` in Redis, cooldown per process | `dispatch` | `RateLimiter` |
| Authentication | `services/gateway/auth/`, `middleware.py` 66-110, `main.py` | tokens of clients, keys per process, `tenant.users` | login, `/me`, JWKS, every protected request | `GatewayAccess` |
| Circuit breaker, PGFN | `services/ingest/pipeline/base.py` 36-102, `tasks/pgfn.py` | breaker per process, cache in Redis | weekly task, fetch | `IngestCircuit` |
| Other ingestions | `tasks/datajud.py`, `pncp.py`, `caged.py`, `siconfi.py`, `ibge.py`, `receita_cnpj.py`, `bcb.py`, `abj.py`, `pipeline/base.py` | Redis caches, MinIO, OpenSearch, Neo4j | daily to monthly tasks, `persist_silver` | `SourceFetch`, `Ingestion` |
| Live queries | `routers/compliance.py`, `taxpredict.py`, `entidade.py` | the circuits of the gateway | towns, profile, macro figures, company | `LiveQueries` |
| CONFAZ documents | `confaz_discovery.py`, `confaz_ocr.py`, `services/fiscal/ingestion/` | `fiscal.doc_hash`, Celery queue | discover, download, read | `ConfazDocuments` |
| Crypto-shredding | `services/shared/lgpd_crypto.py` | key store in memory | encrypt, decrypt, erase | `CryptoShredding` |
| Migrations | `scripts/migrate.py` | `public.schema_migrations` | discover, apply, record | `Migrations` |
| Defensor | `services/defensor/`, `routers/defensor.py` | the stream of a case | write sections, hand over, file | `Defensor` |
| Jurimetria | `tasks/jurimetria_aggregate.py`, `services/jurimetria/queries.py` | landing table of ABJ, `jurimetria.indicador` | load, aggregate, query | `Jurimetrics` |
| Knowledge graph | `services/shared/storage/neo4j_client.py` | nodes and edges in Neo4j | upsert, network, summary, statistics | `CaseGraph` |
| Public monitors | `services/compliance/`, `services/licitawatch/` and their routers | what the ingestions cached | summary, list, evaluation | `PublicMonitors` |
| TaxPredict | `services/taxpredict/`, `routers/taxpredict.py` | traces in MinIO, models cached per gateway | recalibrate, predict | `TaxPredict` |
| Advice products | `services/concilia/`, `second_opinion/`, `settlement`, `early_warning/`, `forecasting/`, `scoring/validation.py` | none; entries in the ledger | one computation per request | `Advice` |
| Alerts, audit analytics, AI, front end, deployment | see `PROJECT.json` | none in use | | not modelled (section 7) |

### How they interact

A client calls the gateway.  The rate limiter runs first and counts in the Redis
that all gateway processes share; the token is checked after it
(`GatewayAccess`).  `score_company` looks up the Idempotency-Key, assembles the
features from what the ingestions cached (`ScoreEngine`), encrypts the pseudonym
of the company (`CryptoShredding`), commits an entry to the ledger of the tenant
(`PostgresLedger`), stores the result and answers (`ScoreService`).  A batch or a
spreadsheet is answered with 202: the gateway writes a tracker to Redis and a
message to the broker, and a Celery worker does the rest later, in another
process (`BatchJob`, `FiscalEnrichment`).  A spreadsheet ends in one ledger entry
that anchors all its items by a Merkle root; each item is classified by
`FiscalTriage` over tables that are loaded meanwhile (`FiscalReference`).  The
ingestion runs on its own workers (`IngestCircuit`, `Ingestion`,
`ConfazDocuments`) and leaves its results in Redis, the stores and the graph,
where monitors and reports find them (`PublicMonitors`, `Jurimetrics`,
`CaseGraph`).  Some requests ask a source at once, from the gateway's process
(`LiveQueries`).

What the modules share is stated once: `Merkle` is used by both ledgers and by
`FiscalEnrichment`; `DecisionLedger` is the ledger the other modules take for
granted (an entry is one atomic step), and `PostgresLedger` is shown to implement
it statement by statement; `FiscalReference` extends `FiscalTriage`; the breaker
of `IngestCircuit` is the one `SourceFetch` consults and informs, `Ingestion` is
built on `SourceFetch`, and `LiveQueries` on `Ingestion`, whose functions the
gateway calls.

### What is hard

* Transactions of several processes on one tenant, and on one advisory lock
  shared by two tenants; two statements of one reader with two snapshots; loads
  that both find no row and both insert; migration runners without a lock.
* Stores written one after the other without a common transaction (ledger,
  Redis, answer; ledger, `triage_item`; bronze, index, graph; document hash,
  text), with failures in between and clients, or Celery, that retry.
* Read-modify-write on Redis over several commands while the key expires, is
  evicted (`allkeys-lru`, `docker/compose/base.yml`) or is written by others.
* Results that arrive in any order, workers that die with the message they
  acknowledged, names of tasks that are strings on both sides of a broker,
  retries after midnight.
* What a process keeps: keys used after their lock was released, tokens that
  outlive the rights they were made from, a trace kept without its model, erasures
  that reach one process, breakers whose state changes only when somebody looks at the clock.
* Numbers at a boundary: odd layers of a tree, shares rounded before they are
  compared, missing values that must not read as zero.

### What makes each part correct

* **Merkle tree**: the layered loop builds the tree; a proof binds one leaf at
  one position.
* **Ledger**: entries of a tenant are numbered without holes, the chain of
  roots never forks, anchors match, a request is recorded once, a proof is
  accepted exactly until the next entry, nobody waits for ever.
* **Score service and engine**: nothing is answered, or kept for a retry, that
  the ledger does not record; duplicates are bounded by the races and failures
  that cause them; a broken source never improves a score, a failing crate is
  never seen.
* **Batch**: what a polling client sees is true, never goes back, and goes away.
* **Enrichment**: the anchor covers exactly the items of the sheet in order,
  and each can be proved; every accepted job ends.
* **Reference tables and triage**: one rate in force per key whoever loads; the
  tax of an item is that of the rates in force when it is given; what is not
  flagged rests on evidence; a chain of codes ends at a code that is in force.
* **Gateway**: the limit holds over all processes; no host pays for another;
  rights end with the token; keys that differ between processes refuse tokens
  only after a rotation; every answer has its headers but the unhandled ones.
* **Ingestion**: a failing source is left alone, then asked once; an answer is
  not asked for twice; reports add up and cover what they say; a store that
  fails is named and takes no other with it; a document is read at most once.
* **Crypto-shredding**: what is erased where it was sealed stays unreadable, what
  is not stays readable.
* **Migrations**: scripts take effect in order, once, as recorded.
* **Products**: what is shown as written by a model was; one case waits for one
  timeout; nothing is filed that nobody asked to file; cases are counted once;
  one town's bad data does not hide the others, nor do the pages of a list that
  changes; a recomputed table has what its sources call for; a model is replaced
  by an older one only if recalibrations overlapped.

## 2. Modules and code

**Merkle** - operators for the digests.  SHA-256 is a free constructor: a digest
is the record it was made from, so digests are equal exactly when preimages are.
`LayerAt` is the `while` loop, written as a recursive function so that modules
with proofs can use it.  `Tree` is the reference: the tree of a list defined from
its root down, which the loop over the layers has to agree with.

**DecisionLedger** - one instance per Python object (or tenant), `AddEntry`,
`GetProof`, `VerifyIntegrity`.  A leaf stands for the record: its request and
position.  The type invariant requires the position to be the place in the list.

**PostgresLedger** - a writer goes through `Begin`, `AcquireLock`,
`CountEntries`, `ReadHashes`, `Insert` or `InsertDuplicate`, `Commit`, and may
`Rollback` anywhere: one action per statement of `add_entry` (`merkle.py`
188-272).  Rows are visible to others at `Commit`; a conflicting uncommitted
row makes `Insert` wait, as the unique index does.  A reader runs `FindEntry`
and `ReadProof`, two snapshots.  `LockKeyOf` is `hashtext`: two tenants may
share a key.  `Abstract == INSTANCE DecisionLedger WITH ...` is the refinement.

**ScoreService** - a call goes through check, score, record, store, answer; a
`Fail` may end it between any two, after which the client may call again.
`source` counts changes of the data a score is computed from, so that a
recomputed score can be told from a replayed one.  History variables count
faults and expiries per key; the properties are relative to them.

**BatchJob** - `CreateJob`, `SendTask`, `SendFails` in the gateway; `StartTask`,
`ScoreItem`, `Finish` in the worker; each update of the tracker is `GetEntry`,
`ReadTtl`, `WriteEntry`, between which `Tick` and `Evict` may remove the key.
The message carries the name that is sent, and a worker drops a name it has not
registered.  `CallTask`, a caller of the task object itself, is there so that
the task is exercised at all.

**FiscalEnrichment** - one job per upload; `Dispatch` cuts the sheet into chunks,
`ClassifyChunk` returns them in any order, `Callback`, `AddEntry`, `InsertItems`
are the chord's callback with its two transactions.  A chord is called back by the
last chunk that returns, so an empty sheet goes another way.  A row is of one of three
kinds: classified, left out, or one that raises.

**RateLimiter** - a request comes from a host for a tenant; the key is made from
the host, because no tenant is known yet.  `Receive` reads the clock and builds the key, `Incr` and
`SetExpire` are the two Redis commands, then `Admit`, `Reject` or
`LimiterUnavailable`.  `Incr(g, 2)` is a command that timed out and was resent.
`CommandFails` covers failures before and after the command took effect.

**IngestCircuit** - the three methods of the breaker are operators on its record
(`Observed`, `RecordSuccess`, `RecordFailure`); a task walks a list: `FromCache`,
`Blocked`, or `BeginCall` followed by `Answered`, `Garbled`, `Fails` or
`RedisRaises`.

**CryptoShredding** - `LoadOrCreateKey` (under the lock), `Seal` (after it),
`EraseTitular`, `Restart`; `CanRead` is `decrypt_from_ledger`.  There is one store
per process: an erasure reaches the store of the process it runs in.  A token
records when its key was taken and what had been erased in each process by then,
which is what the properties compare with later erasures.  A restart destroys
the keys of a process with nobody having asked; `ReadableUntilErased` excepts
the tokens made before one.

**FiscalTriage** - pure operators: `MatchExact` and `MatchFuzzy` with their
thresholds, `WithFallback` (the candidate and its flag are replaced together),
`AliquotaInterestadual`, `ResolveIcms`, `ComputeDifal`, and the reader of a sheet
(`DetectColumns`, `RowKindOf`).  Percentages are whole hundredths; the similarity
of two texts is an input.

**FiscalReference** - a load is one transaction: `BeginLoad`, then `Insert`,
`Skip`, `Wait` or `Rollback` for one statement at a time, and `Commit`.  `Held` is
the constraint of the schema (exclusion or unique), which sees uncommitted rows;
`Visible` is what a statement reads.  `Ask` and `Answer` are the two reads of one
classification, between which a load may commit.

**GatewayAccess** - `Login` with each outcome of `authenticate`, `Request` through
the middlewares in the order they really run, `Response` for the headers,
`Key` and `LoadKeys` for the key pair each process loads at its first use.
`Administer`, `Rotate`, `Replace` and `HourPassed` are the world around it.

**SourceFetch** - one operator per fetch function: what is returned and what the
circuit learns.  `Learnt` depends on when a function records its success: at a good
status, once the figure was found in the body, or at its end.  A failure that shows
after that is recorded too: a figure of IBGE that is no number is a success
followed by a failure.  A figure that is missing for a year is a value, and the
seed of the towns stores it as 0.

**Ingestion** - one worker, one task at a time, over what `SourceFetch` returns:
one step per page, town or company, the caches, DATAJUD with its retries, and
`StoreNext`, which writes the three stores in turn.  The last step of a task is
its report.

**LiveQueries** - the requests that ask at once; the profile of a town makes four
calls through one circuit.

**ConfazDocuments** - the discovery and one task per document: `Take`,
`Downloaded`, `LookUp`, `InsertHash`, `Extract`, each in its own transaction, and
`ReaderDies` between any two.

**Migrations** - `EnsureControlTable`, `ReadApplied`, `Discover`, then `Execute`,
`Record`, `Commit` per file.  `Record` waits for another open INSERT of the same
version and fails when that is committed; `effects` is the history of the scripts
that took effect.

**Defensor** - `Open`, `WriteSection`, `AnswerRequest`, `Close` are the events of a
case, `File` the request to file it.  A number is injective in the text it is made
from; `Base` joins that text as the code does.

**Jurimetrics** - `IndexDecision` and `LoadAbj` change the sources; an aggregation
is `ReadBuckets`, `ReadAbj`, `Upsert`, several at once, each of which may be lost.
`Answered` is what the terms aggregations may return, which keep the most frequent
courts, classes and subjects only.  The reports are operators over the table.

**CaseGraph** - a node is a name and the number of the batch that created it.
`BeginUpsert` is where the MERGEs of a batch look: they see committed nodes only,
because nothing creates the uniqueness constraints (`ensure_constraints` has no
caller), so two open batches may create twins of a company or a lawsuit.  Later
MERGEs match both.  `CommitUpsert` makes nodes and edges visible, `UpsertFails` rolls
back; the queries are operators, and count(p) has a row per edge.

**PublicMonitors** - the ingested figures, `TownSummary`, `EvaluateAgency` with its
rounding, and a client that follows the pages of the list of municipalities.  A page
is `RequestPage` (the scan of the keys), `SelectTown` for each turn of the filter by
state, `CutPage`, `ListTown` for each summary, `AnswerList`.  What goes wrong in a
summary is the entry of its town; in the scan or in the filter it is a 503 for
the whole page.

**TaxPredict** - `Fit` and `Save` of overlapping recalibrations, `Predict` of
gateways that cache a trace once it is loaded, without the model that predicting
needs; a load that fails is not kept and is tried again.

**Advice** - one action per product over every input within the constants;
**ScoreEngine** - one step per request over every combination of features, with the
companies whose CNAE the engine refuses or cannot be sliced, and the stub score;
**Answers** - the two side by side.  Lists are walked with folds, as the loops of
the code do; `InOrder` is `sorted`, a rearrangement chosen by its order.

The `MC*` modules give constants values that a `.cfg` cannot express, and put
parts that share no state into one run: a variable `part` says to which of them a
behaviour belongs, so that the states of the parts add up instead of multiplying.
Properties that belong together are conjoined under one name at the end of their
module (`LedgerSound`, `CountersSound`, ...); the parts are stated and commented
one by one.  Definitions marked *Seeded fault* are faulty variants of the
definition that follows them, kept to show that the properties would notice.

## 3. Runs

| Run | Parts and bounds | Shows |
|---|---|---|
| `recording` | `PostgresLedger`: 2 tenants with own locks, 2 writers, 1 reader, 3 identifiers, anchors every 2. `ScoreService`: 2 gateways, 2 tenants, 1 key, 3 calls, 1 change of data | numbering, chain, anchors, uniqueness, a proof from two snapshots, refinement of `DecisionLedger`; recorded before told, bounded duplicates |
| `liveness` | `PostgresLedger`: 3 tenants, two of them on one lock, 2 writers, 2 identifiers. `BatchJob`: 3 items, update after every 2, tracker of 3 ticks | every `add_entry` ends, whether it waits for the lock or, with its lock in hand, for the unique index; truthful, monotone, expiring progress; a started job settles |
| `fiscal` | `FiscalEnrichment`: 6 sheets of up to 8 rows, chunks of 2. `FiscalReference`: 2 loaders, 2 loads, 2 days, 4 requests | the anchor, the proofs, termination; one rate in force, evidence, tax and IPI from the tables |
| `sources` | `IngestCircuit`: 2 workers, 2 companies, 2 tasks. `Ingestion`: each task with every reply, 2 jobs, 2 pages, 2 retries. `LiveQueries`. `ConfazDocuments`: 2 readers, 4 addresses of 3 documents, 1 retry, 2 runs. `RateLimiter`: 2 processes, 2 hosts, limit 2, 3 requests, minute of 2 ticks. `GatewayAccess`: 2 processes, 1 account, 2 keys, 1 token of 2 hours, 3 hours | quiet time and probe, reports that add up, stores named, days asked, documents read once, also when the model is up and finds nothing; the limit and who is refused; withdrawn rights, rotated keys, headers |
| `platform` | in-memory ledger up to 6 entries; crypto-shredding in 2 processes with 2 callers, 1 erasure and 1 restart each; 2 migration runners over 2 files, 2 runs, 1 edit; Defensor with 3 sections; 4 graph batches of which 2 overlap; 3 towns in 2 states, pages of 1, and 1 agency; TaxPredict with 2 calibrators; every small input of the advice products (series and samples of up to 4 values) and of the score engine; 2 aggregators of jurimetria, 3 changes, 1 failed read | what section 1 says of each |

The largest is `sources` with 2.6 million states; each ends within four minutes.

Two of everything that races is enough for every interleaving of a pair; three
of a kind add only longer queues, and the safety properties are proved for all
numbers (section 5).  Thresholds and intervals are scaled so that the bound
is crossed at least twice.  Six entries reach every pattern of odd layers up to
height 3.  The volumes, shares and amounts of the advice products are chosen on
both sides of each threshold.  `CHECK_DEADLOCK FALSE` is set where a bound on
calls, jobs or the clock ends the run, or a part stops when its input is used up;
`EveryAddEntryEnds` says that no writer is left waiting.  Every bound is a named constant
with a comment in its module.

### Runs that show a disagreement

| Run | Code | Text it disagrees with |
|---|---|---|
| `score_finding` | the ledger commits before the idempotency result is stored: failure and retry record twice | `Pendencia.md` 49 |
| `batch_name_finding` | the gateway sends a task name no worker registers | `services/scoring/celery_app.py` 13 |
| `fiscal_items_finding` | `triage_item` rows reference a `triage_job` nobody inserts: the bulk insert raises after the anchor is committed | `services/fiscal/tasks.py` 12 |
| `fiscal_seed_finding` | a rate scraped where the seed put one is skipped for ever | `scripts/seed_fiscal.py` 6-7 |
| `tenant_finding` | the limiter runs before the token is read and counts by host: a tenant is refused for what another tenant of its host sent | `services/gateway/middleware.py` 5 and 114, `tests/unit/test_middleware_ratelimit.py` 116 |
| `erasure_finding` | a key is destroyed in one process only: a token made in another stays readable | `services/shared/lgpd_crypto.py` 5-8 |
| `monitors_finding` | SICONFI is cached as a list and read as an object; the exception is answered as "Redis inacessível" | `routers/compliance.py` 62 |

More differences were met while modelling and need no run to be seen.  The models
do what the code does; where a property could be taken for a promise that the
repository does not keep, its comment says so and the promise is quoted here.

Scores and advice:

* ConciliaIA (`ConciliaIsPrior`).  The endpoint "Recomenda faixa de acordo baseada
  em prior histórico, probabilidade TaxPredict e risco LegalScore do réu"
  (`routers/concilia.py` 107-108; `concilia/recommender.py` 4-6; `contracts/concilia.py`
  6-7).  TaxPredict is asked under the type of the action, which is no matter it
  knows, and nothing stores the `score:{cnpj}` that is read: of the three only the
  prior ever takes part.
* Direction of the score (`MissingNeverFlatters`).  The weights of
  `_default_coefficients` are all 1: a debt or a lawsuit raises the score.  The example
  of the endpoint has `"divida_ativa_valor_log": -30.0` and `"processos_ativos":
  -15.0` (`legalscore.py` 104-105), and the second opinion reads "quanto maior, menor o
  risco" (`consensus.py` 7).  With these weights a missing source never makes
  a company look safer; with those of the example it would.
* Validation (`AucCountsPairs`).  `compute_auc` "Calcula AUC-ROC (área sob a curva
  ROC)" (`validation.py` 54), but counts a tie as won where the area counts half:
  with ties its result is an upper bound.  It sorts by score descending though label
  1 is a failure (70-87, 106).
* A company whose cached CNAE is a number gets the stub score of its digits,
  without the "[PARTIAL" that the answer has for a missing source ("O caller deve
  incluir `is_partial` na resposta", `features.py` 54); one whose CNAE does not begin with
  two digits gets a 500 (`legalscore.py` 200-225).
* Settlement, second opinion and market intelligence swallow a failure of the
  ledger, and without `DATABASE_URL` the entry is lost with the process.
* `verify_integrity` never reads `entry_id`, so a valid proof of one entry
  verifies for any identifier (`merkle.py` 132-146; docstring at 136).

Gateway:

* The list of middlewares is commented "externo → interno" (`main.py` 117); the
  one added last is outermost, which is how `tenant_finding` comes about.
* EXPIRE is a second command sent only after INCR returned 1: a failure in
  between, or a resent INCR, leaves a counter that stays (`middleware.py`
  138-140).  `ImmortalOnlyByFailure` says that nothing else does.
* The overlap of keys in a rotation (`jwt.py` 13) is not implemented: tokens of
  the old key are refused at once.  Unhandled errors have no security headers.

Fiscal:

* The identifier in the 202 of the fiscal upload is not the one the tracker is
  stored under, so polling finds nothing (`routers/fiscal.py` 217; docstring at 10).
* The SEFAZ scraper counts a skipped row as processed and takes only the first
  row as the general rate; a migration of an NCM without a start date fails the
  whole file; no table answers for a day before it was loaded.

Ingestion:

* A function that records the success before the body is decoded never isolates
  a source whose bodies cannot be read (`tasks/pgfn.py` 43-46; `pipeline/base.py`
  49).  In `QuietAfterFailures` such an answer is the first failure of a new series.
* `fetch_populacao` "Retorna (populacao, ano) ou (None, None) em falha/ausência"
  (`ibge.py` 128); for the "-" and "..." of SIDRA it returns None with the year, and
  the seed writes `populacao or 0` (299) over the population it had.
  `NoEntryFromFailure` leaves this case to the code.
* DATAJUD retries after a fixed hour, three times at most, where its text
  speaks of exponential backoff; it caches raw items before pseudonymising them
  (`datajud.py` 85).
* A lawsuit published again in another month is indexed twice (`Jurimetrics`
  keys documents by month); the ABJ index uses the court as identifier, so the rows
  of a court overwrite each other.

Products:

* CAGED is cached by company and looked up by town, and nobody writes `snis:*`: the rule
  `arrecadacao_critica` has nothing to compare.
* When Redis is down, LicitaWatch answers 200 without alerts.
* A trace that was loaded is cached without the model that predicting needs, so
  every prediction fails until the gateway restarts, while the answer says "Tente
  novamente" (`taxpredict.py` 46-47, 61-64).
* Nothing but the interface keeps a case that was handed to a person from being
  filed; a protocol number ignores company, defence, value and attachments, and
  two cases whose texts hold the separator may get one number, which
  `NumberNamesOneCase` leaves out.
* The series of demand forecasting are the ABJ stocks only.
* The graph is written with "`MERGE` (idempotente). Requer as constraints de
  unicidade (`ensure_constraints`) ANTES do primeiro bulk" (`neo4j_client.py` 8-10),
  "Rodar uma vez no bootstrap" (40): nothing runs it, and batches that are open at one
  time create twins.  `CountedOnce` says that nothing else does, and what the
  score may then still be trusted with.
* The buckets of DATAJUD are said to be "por (tribunal, classe_tpu, assunto_tpu, ano)"
  (`jurimetria_aggregate.py` 123); the years are asked for and not used, and every
  row has the period "TODOS" (155).  The numbers of overlapping aggregations may be
  old ones until the next run, which nothing schedules (`CurrentMeansCovered`).

## 4. Fairness

* `PostgresLedger`: strong fairness for what waits (the advisory lock and the
  unique index: Postgres queues and wakes waiters in order), weak fairness for
  the other statements of a transaction.  `Begin` and `Rollback` are not fair.
* `BatchJob`, `FiscalEnrichment`: weak fairness of a living worker and, for
  `BatchJob`, of the broker and the clock.  A worker's death is possible but not
  forced.
* In `fiscal` and `liveness` each fairness condition is guarded by its part, so
  that it says nothing of behaviours of the other part.
* All other modules are checked for safety only and assume none: nothing in
  the repository schedules an aggregation of jurimetria, for instance, so none
  is assumed to come.

## 5. Proofs

Checked by TLAPS for every value of the constants.  What is assumed of a constant
is a named `ASSUME` of the module that declares it, and TLC evaluates it in the
runs: sets of processes, identifiers and lawsuits are finite, intervals, chunks,
thresholds and limits are at least one, keys that stand for "none" are not keys;
published tables have the columns of the parsers, ABJ counts no negative cases,
sources hold no negative debts, at most 2000 contracts are read, one name of a
document stands for one document, a probability is a share of up to 100 per cent
and no amount is negative.  A theorem is about the specification of its
component (`Spec`, `BatchSpec`, `ReferenceSpec`, ...); a run checks the same
property on one of the behaviours it joins.

Which property of a run which theorem establishes:

| Module | Theorem | Property |
|---|---|---|
| `MerkleProofs` | `ProofLeadsToRoot`, `RootCoversLeaves`, `ProofBinds`, `RootIsOfTree`, `PrefixRoot` | of the operators of `Merkle`, for lists of any length |
| `DecisionLedgerProofs` | `ProofsAreSound` | `LedgerSound` |
| `PostgresLedgerProofs` | `TypeCorrect`, `Contiguous`, `ChainNeverForks`, `AnchorsCorrect`, `RecordedOnce`, `ProofsAreExact`, `Refinement` | `TypeOK`, `IndexesContiguous`, `NoFork`, `AnchorsAgree`, `RequestRecordedOnce`, `ProofExact`, `ImplementsDecisionLedger` |
| `ScoringProofs` | `NothingToldUnrecorded`, `DuplicatesAreBounded`, `TrackerIsSound`, `TrackerNeverGoesBack` | `NothingUnrecorded`, `DuplicatesBounded`, `TrackerSound`, `NeverGoesBack` |
| `FiscalProofs` | `AnchorsAreSound`, `TablesAreSound`, `UnflaggedIsEvident`, `AnswersAreTrue` | `AnchorSound`, `TablesSound`, `UnflaggedRestsOnEvidence`, `AnswersFollowTables` |
| `GatewayProofs` | `Limited`, `CountersAreSound`, `AccessIsSound` | `LimitHolds`, `CountersSound`, `AccessSound` |
| `SourcesProofs` | `SourceLeftAlone`, `FailingSourcesRest`, `ReportsAreSound`, `DocumentsAreSound` | `CircuitSound`, `FailingSourceLeftAlone`, `ReportsSound`, `DocumentsSound` |
| `PlatformProofs` | `Erasure`, `Readability`, `Recording`, `Ordering`, `DefenceIsSound`, `LawsuitsCountOnce`, `EveryTownListed`, `ExactAlerts`, `PredictionsFollowTheirCause`, `CrateIsHidden`, `FallbackIsSound`, `AnswersAreSound`, `ReportsKeepToTheirSide`, `RecomputedTable` | `ErasedIsUnreadable`, `ReadableUntilErased`, `RowsAreWhatRan`, `AppliedInOrder`, `DefensorSound`, `CountedOnce`, `PagesMissNoTown`, `AlertsAreExact`, `ModelsFollowTheirCause`, `CrateFailureIsHidden`, the part `EngineSound` of `AnswersSound` and all of it, `ReportsOneSided`, `CurrentMeansCovered` |

Few of these are inductive alone.  The arguments:

**MerkleProofs** - the provers cannot instantiate an induction theorem that takes
an operator, so every induction is over a set of numbers (`NatSetInduction`).  The
loops of `merkle.py` are recursive functions, which are `CHOOSE`s: that they exist,
and so satisfy their equations, is `LoopExists`.  A walk with the proof of a
position goes through the layers with the value at that position.  Conversely a
layer determines the one below it, because a digest is the record it was made from.
That the loop computes the tree of the list (`RootIsOfTree`) is an induction over
the layers: the value at a place of layer `h` is the root of the tree of the `2^h`
leaves below it (`LayerIsTrees`), a half that is missing at the right edge being
the repetition of the other one.

**DecisionLedgerProofs** - `RootsCurrent`: every root is that of the leaves beside
it; `HeldFromPrefix`: what a client holds is the proof of one leaf over a prefix
of the list.  `ProofBinds` and `PrefixRoot` conclude when it is accepted; with
`RootIsOfTree` the first part says that the root is that of the tree of the leaves.

**PostgresLedgerProofs** - `IInv` adds that a transaction past the lock holds it
(`LockHeld`), that its count and its hashes still describe the committed rows
(`CountCurrent`, `HashesCurrent`: only the holder of the lock of a tenant can
commit rows of it), and that two pending rows never conflict (`PendingDistinct`:
`Insert` waits).  `CommitAppends` then says that a commit adds one row at the end.
`Ordered` is a `CHOOSE` by rank; `RankIsIndex` to `Extend` make it a sequence.  In
the refinement `Commit` maps to `AddEntry`, `ReadProof` to `GetProof`, every other
statement to a stutter; the row `ReadProof` found in an earlier snapshot is still
there and still at its index (`RInv`), and so is a proof of a prefix of the
committed rows, which makes it exact.

**ScoringProofs** - a score is followed through the call: what is about to be
stored or answered is recorded already.  For the duplicates `Budget` counts, beside
the entries under a key, the calls that are past the look-up: each of them may add
one, and what a failure or an expiry takes from them it adds to the history.  Of a
batch: a job has one message or one task, and the entry in Redis is never ahead
of what its task has scored (`EntryBehind`).

**FiscalProofs** - `TablesInv`: no two rows in force have one key, no open
transaction holds the key of a row in force unless it replaces it, none that of a
row of another open transaction (it would wait).  `TablesAreSound` needs besides that
the walk along finitely many migrations comes to an end (`WalkEnds`), `AnswersAreTrue`
that one rate is the narrowest (`OneNarrowest`) and that a transaction holds, of the
statements behind it, what the last one says (`IpiInv`).  For the anchors,
`EnrichInv` says that a chunk that returned returned the outcomes of its rows;
joined by chunk and not by arrival they are those of the sheet, by induction over
the chunks.

**GatewayProofs** - `Counted`: the requests admitted and those counted below the
limit and not yet let through are bounded by the counter, since each INCR that
returns at most the limit uses up one of its values, and a lost counter pays for
one more series.  `OnlySent`: a counter never exceeds what was sent under its key,
so who is refused was refused for requests of his own.  Rights: a right that was
noted stays noted, tokens are issued by noted rights and requests served by tokens
(`TokensOfRights`, `ServedByRight`).

**SourcesProofs** - the breaker counts what the calls did (`Faithful`, `Counts`), so
a call after `Threshold` failures was begun in the half open state, which takes the
recovery time; of each fetch function only what it tells its circuit is used
and when (`Learns`): a success that came too soon resets the count before the
failure is added to it.  `Budget` adds the calls under way to the answers stored.  A report is
followed through the loop of its task (`LoopJob`, `AskingJob`, `StoringJob`): what
was counted, what is left, and what was written or named so far.  A document that
is marked is being read by one worker, was read, or is broken.

**PlatformProofs** - *Crypto-shredding*: the key of a token is in a store exactly
if the token is alive (`KeysMatch`), and in no two places (`KeysDistinct`): keys
are drawn by each process for itself.
*Migrations*: a list of pending files can only be too long (`Behind`), and nobody
else holds a version whose row is inserted (`Alone`).  *LicitaWatch*: a share `k/n`
above a threshold of whole tenths is above it by `1/(10 n)` at least, which
rounding to four places cannot lose up to 2000 contracts; the code reads 500.  The
module rounds halves up and Python to even: no share of 500 contracts lies half a
unit above a threshold.  *Defensor*: the request that waited is the one whose
section failed; the text of a number is taken apart at its bars.  *TaxPredict*: a
trace that is about to be saved is of data no older than those of the trace it
replaces, unless that was saved meanwhile (`FitsAreOfData`).

*Graph*: two batches make nodes of one name only when neither sees the other's, and
so only when they are open at a time: committed nodes (`NodesApart`), those pending
beside the committed (`PendingApart`) and open batches (`OpenApart`).  The edges are
those of the rows delivered, between any nodes of the two names
(`EdgesAreDelivered`), which bounds the count of the score from below always, and
from above without twins.  *List of towns*: a town that was on the list when the
client began, and has not been seen, still has its place after the pages it has had
(`WalkKept`, `ListingKept`), because places only move back while no town is taken
out.  *Jurimetria*: every row of the table is what its source says (`RowsSound`),
through any overlap of aggregations; a run with reads of the present sources holds
what they call for, and no run of the past has written after it while the table is
current (`CoverInv`).  Sums over finite sets are recursive functions over subsets,
which exist by induction on the size (`SumExists`).

*Advice*: a fold over a list is followed one value at a time (`FoldIsSteps`), so
that the sum of n signals lies between n times the least and n times the greatest,
and the mean between them; the slope of the least squares line is a positively
weighted sum of the steps of the series (`SlopeBySteps`), so a series that never
falls has none that is negative. Samples can be sorted (`SortingExists`), and since
a rearrangement is a bijection the pairs that the sweep counts are those of the
samples in any order (`PairsAreWon`). Signals, amounts and volumes are any the
assumptions allow, series and samples of any length.

Only model-checked: liveness under fairness (`EveryEntryExpires`,
`StartedJobSettles`, `QueuedJobSettles`, `EveryAddEntryEnds`), which is out of the
provers' reach.  Every other property of a passing run is stated by a theorem.

## 6. Plan

Done: the core (ledgers, scores, batch, enrichment, limiter, circuit,
crypto-shredding), the fiscal tables, authentication, the other ingestions,
documents, migrations, Defensor, jurimetria, graph, monitors and advice; and every
safety property, action property and refinement the runs check, as a theorem.

Left, in this order:

1. Operators: the data contracts of the ingestion and the rules of the
   cross-check against reference definitions.
2. The outbox of alerts, as soon as something publishes to it.

## 7. Not modelled

The alert publishers (`OutboxAlertPublisher`, `HttpAlertPublisher`), the anomaly
detector, the router of language models and its memoizer have no caller in the
platform: there is no behaviour to check yet.  Floating-point statistics (Benford,
posteriors, bands of confidence) are stateless and out of TLC's reach; where their
outcome decides something they are an input (`TaxPredict`) or kept as exact shares
and sums (`Advice`).  Prompts, text parsers and the clients of MinIO, OpenSearch
and Redis, the CSV and PDF reports of compliance, the React front end, containers
and dashboards keep no state of the platform's own.  Wording, logging, metrics and
the layout of payloads are left out of every module.
