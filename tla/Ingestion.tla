----------------------------- MODULE Ingestion -----------------------------
(***************************************************************************)
(* The ingestion tasks of DATAJUD, PNCP, CAGED, SICONFI, IBGE and Receita  *)
(* (services/ingest/tasks) in one worker process: what they ask            *)
(* (SourceFetch), what they cache in Redis, what they keep in the bronze,  *)
(* silver and graph stores (persist_silver) and the reconciliation they    *)
(* report.  A task that raises is not run again, except by its own retry.  *)
(***************************************************************************)
EXTENDS SourceFetch, SequencesExt

CONSTANTS PageLimit,   \* pages of PNCP read at most (100)
          MaxRetries,  \* Celery's default for self.retry (3)
          DayLength,   \* ticks in a day; a retry comes one tick (1 h) later
          MaxJobs,     \* bound of the model: tasks
          Answers,     \* bodies of replies: sequences of rows [id, ok]
          KeyLists     \* the lists of companies or towns of a task

ASSUME IngestionAssumption ==
  /\ {PageLimit, DayLength} \subseteq Nat \ {0} /\ {MaxRetries, MaxJobs} \subseteq Nat
  /\ \A rows \in Answers \cup KeyLists : rows \in Seq(Range(rows))

\* The circuits of the worker, and those the gateway has in its own process.
GatewaySources == {"gateway:ibge", "gateway:bcb", "gateway:RECEITA"}
Sources == {"DATAJUD", "pncp", "caged", "siconfi", "ibge", "RECEITA"} \cup GatewaySources
Stores == <<"minio", "opensearch", "neo4j">>

VARIABLES circuits, \* circuits[s]: the circuit of source s in this process
          redis,    \* what is cached: a function of the keys that are there
          archive,  \* archive[s]: documents in store s, with the day of each
          job,      \* the task in progress
          report,   \* history: the report of the last task that gave one
          jobs,     \* history: tasks begun
          streak,   \* streak[s]: history: replies in a row that were failures
          asked     \* asked[s]: history: changes with every call to the source

ingestVars == <<circuits, redis, archive, job, report, jobs, streak, asked>>

NoJob == [task |-> "none"]
Day == 1 + clock \div DayLength
NoDate == 0
Absent(key) == key \notin DOMAIN redis
Cached(key, value) == With(redis, key, value)

IngestInit ==
  /\ circuits = [s \in Sources |-> Closed]
  /\ redis = <<>> /\ job = NoJob /\ jobs = 0 /\ report = NoJob
  /\ archive = [s \in Range(Stores) |-> {}]
  /\ streak = [s \in Sources |-> NoFailure]
  /\ asked = [s \in Sources |-> 0]

\* The failures in a row after a reply, seen from the source: a failure that
\* came too soon after a success counts as the first one.
FailingAfter(f, reply, moment, oddFails) ==
  IF ~ IsFailure(reply, oddFails) THEN NoFailure
  ELSE [count |-> IF TooSoon(reply, moment) THEN 1 ELSE f.count + 1, at |-> clock]

\* One use of a fetch operator; the history follows the replies, not the code.
Use(s, fetch, reply, moment, oddFails) ==
  /\ circuits' = [circuits EXCEPT ![s] = fetch.circuit]
  /\ asked' = IF fetch.asked THEN [asked EXCEPT ![s] = 1 - @] ELSE asked
  /\ streak' = IF ~ fetch.asked THEN streak
               ELSE [streak EXCEPT ![s] = FailingAfter(@, reply, moment, oddFails)]

NothingAsked == UNCHANGED <<circuits, streak, asked>>

\* A task starts with a list of keys; "got" are the rows it still has to keep.
Begin(task, left) ==
  /\ job = NoJob /\ jobs < MaxJobs
  /\ jobs' = jobs + 1
  /\ job' = [task |-> task, left |-> left, got |-> <<>>, key |-> "none",
             in |-> 0, out |-> 0, rejected |-> 0, aside |-> 0, pages |-> 0, total |-> 0, cut |-> FALSE]
  /\ UNCHANGED <<clock, redis, archive, report, circuits, streak, asked>>

At(task) == job.task = task /\ job.got = <<>> /\ job.left # <<>>

Loops == {"pncp", "caged", "siconfi", "ibge", "receita"}

\* reconcile and the return of the task.
Report ==
  /\ job.task \in Loops
  /\ job.got = <<>> /\ job.left = <<>>
  /\ report' = With(job, "loss", Reconcile(job.in, job.out))
  /\ job' = NoJob
  /\ IF job.task = "siconfi" /\ job.out > 0
     THEN redis' = Cached(<<"siconfi", job.key>>, job.out) ELSE UNCHANGED redis
  /\ NothingAsked /\ UNCHANGED <<clock, archive, jobs>>
-----------------------------------------------------------------------------
(* PNCP: the pages of a year, "left" being the numbers of those to come *)

Upto(first, last) == [n \in 1..(last + 1 - first) |-> first + n - 1]

\* Seeded fault: the last page is left out.
PagesToCome(page, total) == Upto(page + 1, Min({total, PageLimit}) - 1)

PagesLeft(page, total) == Upto(page + 1, Min({total, PageLimit}))

\* A page without items ends the year, be it empty, missing or refused.
PncpPage(reply) ==
  LET f == FetchPncpPage(circuits["pncp"], reply)
      page == f.result.value
      n == Head(job.left)
  IN  /\ At("pncp")
      /\ Use("pncp", f, reply, "status", FALSE)
      /\ job' = IF page.items = <<>>
                THEN [job EXCEPT !.left = <<>>, !.cut = TRUE]
                ELSE [job EXCEPT !.left = PagesLeft(n, page.total), !.got = page.items,
                                 !.in = @ + Len(page.items), !.pages = n, !.total = page.total]
      /\ UNCHANGED <<clock, redis, archive, report, jobs>>

\* CAGED: a company whose month is cached counts as an output all the same.
CagedCompany(reply) ==
  LET f == FetchCagedApi(circuits["caged"], reply)
      c == Head(job.left)
  IN  /\ At("caged")
      /\ IF Absent(<<"caged", c>>)
         THEN /\ Use("caged", f, reply, "status", TRUE)
              /\ job' = [job EXCEPT !.left = Tail(@), !.key = c, !.got = f.result.value,
                                    !.in = @ + Len(f.result.value)]
         ELSE /\ job' = [job EXCEPT !.left = Tail(@), !.out = @ + 1, !.aside = @ + 1]
              /\ NothingAsked
      /\ UNCHANGED <<clock, redis, archive, report, jobs>>

\* SICONFI: one municipality; the accounts are cached together at the end.
SiconfiYear(reply) ==
  LET f == FetchSiconfiApi(circuits["siconfi"], reply)
      c == Head(job.left)
  IN  /\ At("siconfi")
      /\ IF Absent(<<"siconfi", c>>)
         THEN /\ Use("siconfi", f, reply, "status", FALSE)
              /\ job' = [job EXCEPT !.left = <<>>, !.key = c, !.got = f.result.value,
                                    !.in = Len(f.result.value)]
         ELSE job' = NoJob /\ NothingAsked
      /\ UNCHANGED <<clock, redis, archive, report, jobs>>

\* IBGE: the list of a state first ("uf"), then the population of each.
IbgeState(reply) ==
  LET f == FetchMunicipios(circuits["ibge"], reply)
  IN  /\ At("ibge") /\ job.key = "none"
      /\ Use("ibge", f, reply, "status", FALSE)
      /\ job' = [job EXCEPT !.left = f.result.value, !.key = "uf", !.in = Len(f.result.value)]
      /\ UNCHANGED <<clock, redis, archive, report, jobs>>

\* A missing population is written down as 0.
TownRow(town, point) ==
  [town |-> town, year |-> point.year, value |-> IF point.value = Missing THEN 0 ELSE point.value]

IbgeTown(reply) ==
  LET f == FetchPopulacao(circuits["ibge"], reply)
  IN  /\ At("ibge") /\ job.key = "uf"
      /\ Use("ibge", f, reply, "point", TRUE)
      /\ job' = [job EXCEPT !.left = Tail(@), !.got = <<TownRow(Head(job.left), f.result.value)>>]
      /\ UNCHANGED <<clock, redis, archive, report, jobs>>

\* Seeded fault: the contract takes any year.
IbgeAcceptsAny(point) == TRUE

\* IbgeMunicipioBronze: without an answer the year is 0, and the row rejected;
\* a point without a figure has its year, and passes.
IbgeAccepts(point) == point.year >= 2000 /\ point.year <= 2100 /\ point.value >= 0

\* Receita: the reply is cached before the contract looks at it; a key that is
\* no CNPJ of 14 digits is rejected unseen.
Malformed == "malformed"
ReceitaCompany(reply) ==
  LET f == FetchReceitaCnpj(circuits["RECEITA"], reply)
      c == Head(job.left)
      Counted(v) == IF v = "good" THEN [job EXCEPT !.left = Tail(@), !.out = @ + 1, !.in = @ + 1]
                    ELSE [job EXCEPT !.left = Tail(@), !.rejected = @ + 1, !.in = @ + 1]
  IN  /\ At("receita")
      /\ IF c = Malformed THEN job' = Counted("bad") /\ NothingAsked /\ UNCHANGED redis
         ELSE IF ~ Absent(<<"receita", c>>)
         THEN job' = Counted(redis[<<"receita", c>>]) /\ NothingAsked /\ UNCHANGED redis
         ELSE /\ Use("RECEITA", f, reply, "end", FALSE)
              /\ IF ~ f.result.raised
                 THEN /\ job' = Counted(f.result.value)
                      /\ redis' = Cached(<<"receita", c>>, f.result.value)
                 ELSE /\ UNCHANGED redis
                      /\ job' = IF f.asked /\ reply.kind = "odd" THEN NoJob
                                ELSE [job EXCEPT !.left = Tail(@), !.in = @ + 1, !.aside = @ + 1]
      /\ UNCHANGED <<clock, archive, report, jobs>>

\* The next row: rejected by its contract, or put under its key, where it
\* replaces what is there.
KeepRow ==
  /\ job.task \in {"pncp", "caged", "siconfi", "ibge"} /\ job.got # <<>>
  /\ LET row == Head(job.got)
         good == IF job.task = "ibge" THEN IbgeAccepts(row) ELSE row.ok
         key == CASE job.task = "pncp" -> <<"pncp", row.id>>
                  [] job.task = "ibge" -> <<"ibge", row.town>>
                  [] OTHER -> <<job.task, job.key>>
     IN  /\ job' = [job EXCEPT !.got = Tail(@), !.out = IF good THEN @ + 1 ELSE @,
                               !.rejected = IF good THEN @ ELSE @ + 1]
         /\ redis' = IF good /\ job.task # "siconfi" THEN Cached(key, row) ELSE redis
  /\ NothingAsked /\ UNCHANGED <<clock, archive, report, jobs>>
-----------------------------------------------------------------------------
(* DATAJUD *)

\* Seeded fault: the second attempt always uses yesterday's date.
DateOfRetry(date, tries) == IF date = NoDate \/ tries > 0 THEN Day - 1 ELSE date

\* Without a date it is yesterday's, at the start of every attempt anew.
DateOf(date, tries) == IF date = NoDate THEN Day - 1 ELSE date

DatajudBegins(date) ==
  /\ job = NoJob /\ jobs < MaxJobs
  /\ jobs' = jobs + 1
  /\ job' = [task |-> "datajud", date |-> date, due |-> DateOf(date, 0),
             day |-> DateOf(date, 0), tries |-> 0, at |-> clock]
  /\ UNCHANGED <<clock, redis, archive, report, circuits, streak, asked>>

\* self.retry: the task again, with the arguments it was sent with.
DatajudAgain ==
  /\ job.task = "waiting" /\ clock >= job.at
  /\ job' = [job EXCEPT !.task = "datajud", !.day = DateOf(job.date, job.tries)]
  /\ NothingAsked /\ UNCHANGED <<clock, redis, archive, report, jobs>>

\* The answer is worked on: rows the contract rejects are counted only.
Loaded(rows) ==
  [task |-> "persist", day |-> job.day, date |-> job.date, due |-> job.due, tries |-> job.tries,
   rows |-> SelectSeq(rows, LAMBDA r : r.ok), in |-> Len(rows), stores |-> Stores, errors |-> {}]

\* The answer, else the cached one, else once more in an hour.
DatajudFetch(reply) ==
  LET f == FetchFromApi(circuits["DATAJUD"], reply)
      key == <<"datajud", job.day>>
      answer == IF ~ f.result.raised THEN f.result.value
                ELSE IF Absent(key) THEN Reply("none", <<>>) ELSE redis[key]
  IN  /\ job.task = "datajud"
      /\ Use("DATAJUD", f, reply, "end", FALSE)
      /\ redis' = IF f.result.raised THEN redis ELSE Cached(key, f.result.value)
      /\ job' = CASE answer.kind = "ok" -> Loaded(answer.body)
                  [] answer.kind = "odd" -> NoJob
                  [] OTHER -> IF job.tries < MaxRetries
                              THEN [job EXCEPT !.task = "waiting", !.tries = @ + 1, !.at = clock + 1] ELSE NoJob
      /\ UNCHANGED <<clock, archive, report, jobs>>

\* persist_silver: each store in turn; nothing to write needs no store.
\* OpenSearch may refuse some documents of a batch without an error.
Written(s, rows) ==
  LET docs == {[day |-> job.day, id |-> r.id] : r \in rows}
  IN  archive' = [archive EXCEPT ![s] = @ \cup docs]

\* Seeded fault: the first store that fails ends the task's storing.
StoreUntilFailure(outcome) ==
  LET s == Head(job.stores)
      rows == Range(job.rows)
  IN  /\ job.task = "persist" /\ job.stores # <<>>
      /\ outcome # "ok" => rows # {}
      /\ CASE outcome = "ok" -> Written(s, rows)
           [] OTHER -> UNCHANGED archive
      /\ job' = [job EXCEPT !.stores = IF outcome = "fails" THEN <<>> ELSE Tail(@),
                            !.errors = IF outcome = "fails" THEN @ \cup {s} ELSE @]
      /\ NothingAsked /\ UNCHANGED <<clock, redis, report, jobs>>

StoreNext(outcome) ==
  LET s == Head(job.stores)
      rows == Range(job.rows)
  IN  /\ job.task = "persist" /\ job.stores # <<>>
      /\ outcome # "ok" => rows # {}
      /\ outcome = "partly" => s = "opensearch"
      /\ CASE outcome = "ok" -> Written(s, rows)
           [] outcome = "partly" -> \E kept \in SUBSET rows : Written(s, kept)
           [] OTHER -> UNCHANGED archive
      /\ job' = [job EXCEPT !.stores = Tail(@),
                            !.errors = IF outcome = "fails" THEN @ \cup {s} ELSE @]
      /\ NothingAsked /\ UNCHANGED <<clock, redis, report, jobs>>

\* Without any item the last log line raises: all is stored, nothing reported.
DatajudReport ==
  /\ job.task = "persist" /\ job.stores = <<>>
  /\ report' = IF job.in = 0 THEN report ELSE job
  /\ job' = NoJob
  /\ NothingAsked /\ UNCHANGED <<clock, redis, archive, jobs>>
-----------------------------------------------------------------------------
\* Redis or the broker raises, or the worker is stopped: the task is gone; a
\* new process has all its circuits closed.
TaskGone ==
  /\ job # NoJob /\ job' = NoJob
  /\ NothingAsked /\ UNCHANGED <<clock, redis, archive, report, jobs>>

ProcessReplaced ==
  /\ job' = NoJob
  /\ circuits # [s \in Sources |-> Closed]
  /\ circuits' = [s \in Sources |-> Closed]
  /\ streak' = [s \in Sources |-> NoFailure]
  /\ UNCHANGED <<clock, redis, archive, report, jobs, asked>>

KeyGone(key) ==
  /\ redis' = [k \in DOMAIN redis \ {key} |-> redis[k]]
  /\ UNCHANGED <<clock, circuits, archive, job, report, jobs, streak, asked>>

HourPasses ==
  /\ clock < MaxClock /\ clock' = clock + 1
  /\ UNCHANGED ingestVars
-----------------------------------------------------------------------------
Replies(bodies) ==
  {Reply(k, <<>>) : k \in {"down", "garbled", "odd"}} \cup {Reply("ok", b) : b \in bodies}
FigureReplies(bodies) == Replies(bodies) \cup {Reply("wrong", <<>>)}

Pages == {[items |-> rows, total |-> n] : rows \in Answers, n \in 1..(PageLimit + 1)}
Points == {[year |-> 2022, value |-> 7], [year |-> 2023, value |-> Missing]}

Begins ==
  \/ Begin("pncp", <<1>>)
  \/ \E l \in KeyLists : Begin("caged", l) \/ Begin("receita", l) \/ Begin("receita", <<Malformed>> \o l)
  \/ \E l \in KeyLists : Begin("siconfi", <<l[1]>>)
  \/ Begin("ibge", <<"uf">>)
  \/ \E d \in {NoDate, 1} : DatajudBegins(d)

Goes ==
  \/ \E r \in Replies(Pages) : PncpPage(r)
  \/ \E r \in Replies(Answers) : CagedCompany(r) \/ SiconfiYear(r) \/ DatajudFetch(r)
  \/ \E r \in Replies(KeyLists) : IbgeState(r)
  \/ \E r \in FigureReplies(Points) : IbgeTown(r)
  \/ \E r \in Replies({"good", "bad"}) : ReceitaCompany(r)
  \/ KeepRow
  \/ \E o \in {"ok", "partly", "fails"} : StoreNext(o)
  \/ DatajudAgain \/ Report \/ DatajudReport

IngestNext ==
  \/ Begins \/ Goes \/ TaskGone \/ ProcessReplaced
  \/ \E key \in DOMAIN redis : KeyGone(key)
  \/ HourPasses
-----------------------------------------------------------------------------
(* Properties *)

(* Whatever the function that asks and whatever goes wrong with the reply, *)
(* a source whose last Threshold replies, or more, were failures is left   *)
(* alone for the recovery time; what several functions learn adds up in    *)
(* the circuit they share, and a garbled body counts anew where the        *)
(* success was recorded first (base.py 5, 43-51).                          *)
FailingSourceLeftAlone ==
  [][\A s \in Sources :
       (asked'[s] # asked[s] /\ streak[s].count >= Threshold)
         => clock >= streak[s].at + Recovery]_<<clock, ingestVars>>

(* Every report adds up: a row is kept, rejected or set apart, although    *)
(* the counts grow row by row over pages, towns and companies and a        *)
(* company without an answer is only left out (base.py 105-114).  What the *)
(* source never delivered is no loss.                                      *)
ReportAddsUp ==
  report.task \in Loops =>
    /\ report.out + report.rejected =
         CASE report.task = "receita" -> report.in - report.aside
           [] report.task = "caged" -> report.in + report.aside
           [] OTHER -> report.in
    /\ (report.rejected = 0 /\ report.aside = 0) => report.loss = 0

(* The report of a year of PNCP covers all its pages, at least as many as  *)
(* the source had at the last one it gave, or PageLimit, unless a page     *)
(* was empty, failed or was not asked for (pncp.py 148-153).               *)
YearCovered ==
  (report.task = "pncp" /\ ~ report.cut) => report.pages >= Min({report.total, PageLimit})

(* A call for a population that fails, for whatever reason and however     *)
(* late, leaves the entry of the town as it is: every entry of the cache   *)
(* has the year of a point SIDRA gave (ibge.py 292-304).  A point without  *)
(* a figure does not count as a failure: it replaces the entry by 0.       *)
NoEntryFromFailure ==
  \A key \in DOMAIN redis : key[1] = "ibge" => redis[key].year # NoPoint.year

(* A report of DATAJUD leaves out no store: each holds all documents that  *)
(* passed the contract, or is named among the errors, or is OpenSearch,    *)
(* which may refuse documents without an error; one store that fails keeps *)
(* no other from being written (base.py 145-147).                          *)
StoredOrNamed ==
  report.task = "persist" =>
    \A s \in {"minio", "neo4j"} \ report.errors :
      \A row \in Range(report.rows) : [day |-> report.day, id |-> row.id] \in archive[s]

(* The day in the report is the one that was asked for; without one it is  *)
(* yesterday's when the attempt that succeeded began: never one before the *)
(* first attempt's, and a later one only after a retry (datajud.py 77-94). *)
DayAsked ==
  report.task = "persist" =>
    /\ report.date # NoDate => report.day = report.date
    /\ report.day >= report.due
    /\ report.tries = 0 => report.day = report.due
=============================================================================
