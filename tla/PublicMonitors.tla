--------------------------- MODULE PublicMonitors ---------------------------
(***************************************************************************)
(* ComplianceRadar and LicitaWatch: rules over what the ingestions left in *)
(* Redis about towns and public agencies (services/compliance, services    *)
(* /licitawatch and their routers), and a client that follows the pages of *)
(* the list of towns.  A summary of a town is one step: what its reads     *)
(* could see between two writes is not told apart.                         *)
(***************************************************************************)
EXTENDS Integers, FiniteSets

CONSTANTS Towns,     \* the IBGE codes, numbers
          HomeUf,    \* the state of each town, as IBGE has it
          PageSize,  \* per_page
          Employers,
          SnisRows,  \* the sanitation figures: [agua, esgoto, uf], in per cent
          Agencies,
          Counts,    \* what an agency published: [total, share], share a function on Rules
          Limit,     \* the contracts /evaluate reads at most
          LastYear   \* bound of the model: years are 0..LastYear

\* LicitaWatch reads 500 contracts: the rounding of its shares is exact for
\* four times as many.
ASSUME MonitorsAssumption ==
  /\ Towns \subseteq Nat /\ IsFiniteSet(Towns) /\ PageSize \in Nat \ {0}
  /\ [absent |-> TRUE] \notin SnisRows
  /\ Limit \in 0..2000 /\ LastYear \in Nat
  /\ \A c \in Counts : c \in [total : Nat, share : [{"LL01", "LL02", "LL03", "LL04"} -> Nat]]

VARIABLES year, redis,
          siconfi,   \* siconfi:{town}:{year}: [id, year, shape]
          caged,     \* caged:{employer}:{year}: [id, year, saldo]
          snis,      \* snis:{town}, which no ingestion of src writes: JSON of any shape
          ibge,      \* ibge:{town}
          contracts, \* contracts[a]: the counts over pncp:{a}:{year}:*
          listing,   \* the page of the list of municipalities being answered
          walk,      \* history: the pages the client has had since the first
          verdict    \* the last evaluation of an agency

monitorVars == <<year, redis, siconfi, caged, snis, ibge, contracts, listing, walk, verdict>>

NoFigures == [absent |-> TRUE]
Rules == {"LL01", "LL02", "LL03", "LL04"}
NoContracts == [total |-> 0, share |-> [r \in Rules |-> 0]]
\* A value that is no object.
NoObject == [text |-> TRUE]
NoUf == "none"
NoListing == [at |-> "none", uf |-> NoUf, page |-> 0, left |-> {}, kept |-> {}, entries |-> {}]
NoWalk == [pages |-> 0, first |-> {}, last |-> {}, seen |-> {}, unsettled |-> FALSE]

MonitorsInit ==
  /\ year = 1 /\ redis = TRUE /\ siconfi = {} /\ caged = {} /\ ibge = {}
  /\ snis = [t \in Towns |-> NoFigures]
  /\ contracts = [a \in Agencies |-> NoContracts]
  /\ listing = NoListing /\ walk = NoWalk
  /\ verdict = [all |-> NoContracts, alerts |-> {}]
-----------------------------------------------------------------------------
(* The towns that are monitored: those of snis:* and of ibge:* *)

Found == ibge \cup {t \in Towns : snis[t] # NoFigures}

UfOf(t) ==
  IF snis[t] \in SnisRows /\ snis[t].uf # NoUf THEN snis[t].uf
  ELSE IF t \in ibge THEN HomeUf[t] ELSE NoUf

\* What a client that asks for a state (or for none) should be told of.
Monitored(t, uf) == t \in Found /\ (uf = NoUf \/ (snis[t] # NoObject /\ UfOf(t) = uf))

\* History: a town that was monitored no longer is.
Settles ==
  walk' = [walk EXCEPT !.unsettled = @ \/
             \E t \in Towns : Monitored(t, listing.uf) /\ ~Monitored(t, listing.uf)']
-----------------------------------------------------------------------------
(* The ingestions *)

\* siconfi.run_monthly_ingest stores the list of the accounts, once.
IngestSiconfi(t) ==
  /\ redis /\ \A s \in siconfi : ~(s.id = t /\ s.year = year)
  /\ siconfi' = siconfi \cup {[id |-> t, year |-> year, shape |-> "list"]}
  /\ UNCHANGED <<year, redis, caged, snis, ibge, contracts, listing, walk, verdict>>

\* caged stores the balance of an employer under its CNPJ.
IngestCaged(e, saldo) ==
  /\ redis /\ \A c \in caged : ~(c.id = e /\ c.year = year)
  /\ caged' = caged \cup {[id |-> e, year |-> year, saldo |-> saldo]}
  /\ UNCHANGED <<year, redis, siconfi, snis, ibge, contracts, listing, walk, verdict>>

IngestIbge(t) ==
  /\ redis /\ ibge' = ibge \cup {t}
  /\ UNCHANGED <<year, redis, siconfi, caged, snis, contracts, listing, verdict>> /\ Settles

ExpireIbge(t) ==
  /\ ibge' = ibge \ {t}
  /\ UNCHANGED <<year, redis, siconfi, caged, snis, contracts, listing, verdict>> /\ Settles

LoadSnis(t, row) ==
  /\ redis /\ snis' = [snis EXCEPT ![t] = row]
  /\ UNCHANGED <<year, redis, siconfi, caged, ibge, contracts, listing, verdict>> /\ Settles

\* _ingest_pncp, and the entries that expired since.
IngestPncp(a, counts) ==
  /\ redis /\ contracts' = [contracts EXCEPT ![a] = counts]
  /\ UNCHANGED <<year, redis, siconfi, caged, snis, ibge, listing, walk, verdict>>

NewYear ==
  /\ year < LastYear /\ year' = year + 1
  /\ UNCHANGED <<redis, siconfi, caged, snis, ibge, contracts, listing, walk, verdict>>

ExpireSiconfi(s) ==
  /\ siconfi' = siconfi \ {s}
  /\ UNCHANGED <<year, redis, caged, snis, ibge, contracts, listing, walk, verdict>>

RedisFails ==
  /\ redis' = ~redis
  /\ UNCHANGED <<year, siconfi, caged, snis, ibge, contracts, listing, walk, verdict>>
-----------------------------------------------------------------------------
(* ComplianceRadar *)

Of(t, y, cached) == {x \in cached : x.id = t /\ x.year = y}

\* build_indicadores_from_cache asks both years for their "valor", which a
\* list does not have, and SNIS for its figures.
Unreadable(t) ==
  \/ snis[t] = NoObject
  \/ /\ Of(t, year, siconfi) # {} /\ Of(t, year - 1, siconfi) # {}
     /\ \E s \in Of(t, year, siconfi) \cup Of(t, year - 1, siconfi) : s.shape = "list"

\* delta_emprego_yoy < -0.10, over the absolute balance of the year before or 1.
EmploymentFalls(t) ==
  \E now \in Of(t, year, caged), before \in Of(t, year - 1, caged) :
    LET base == IF before.saldo > 0 THEN before.saldo
                ELSE IF before.saldo < 0 THEN -before.saldo ELSE 1
    IN  10 * (now.saldo - before.saldo) < -base

\* Without both years of SICONFI there is no delta_arrecadacao_yoy, and with
\* them no indicator: the rule "arrecadacao_critica" has nothing to compare.
Fired(t) ==
  IF snis[t] \in SnisRows /\ snis[t].agua < 50 /\ snis[t].esgoto < 30
  THEN {"saneamento_baixo"} ELSE {}

\* sources_missing.
Lacking(t) ==
  {s \in {"SICONFI", "CAGED", "SNIS"} :
     CASE s = "SICONFI" -> Of(t, year, siconfi) = {}
       [] s = "CAGED" -> Of(t, year, caged) = {}
       [] OTHER -> snis[t] = NoFigures}

\* _build_summary; any exception is Redis to its callers.
TownSummary(t) ==
  IF ~redis \/ Unreadable(t) THEN [status |-> 503, rules |-> {}, missing |-> {}]
  ELSE [status |-> 200, rules |-> Fired(t), missing |-> Lacking(t)]

\* GET /municipalities: its first page, the next one of the same query, or
\* again the one that was refused.
RequestPage(uf, p) ==
  /\ listing.at \notin {"filter", "reading"}
  /\ \/ p = 1
     \/ /\ listing.at = "answered" /\ p = listing.page + 1 /\ uf = listing.uf
        /\ listing.page * PageSize < Cardinality(listing.kept)
     \/ listing.at = "refused" /\ p = listing.page /\ uf = listing.uf
  /\ listing' =
       [at |-> IF redis THEN "filter" ELSE "refused", uf |-> uf, page |-> p, entries |-> {},
        left |-> IF uf = NoUf THEN {} ELSE Found, kept |-> IF uf = NoUf THEN Found ELSE {}]
  /\ walk' = IF p = 1 THEN NoWalk ELSE walk
  /\ UNCHANGED <<year, redis, siconfi, caged, snis, ibge, contracts, verdict>>

Foremost(t) == t \in listing.left /\ \A s \in listing.left : t <= s

\* One turn of the filter, which nothing guards: an exception is the answer.
SelectTown(t) ==
  /\ listing.at = "filter" /\ Foremost(t)
  /\ listing' = IF ~redis \/ snis[t] = NoObject THEN [listing EXCEPT !.at = "refused"]
                ELSE [listing EXCEPT !.left = @ \ {t},
                        !.kept = IF UfOf(t) = listing.uf THEN @ \cup {t} ELSE @]
  /\ UNCHANGED <<year, redis, siconfi, caged, snis, ibge, contracts, walk, verdict>>

Place(t, codes) == Cardinality({u \in codes : u <= t})

\* Seeded fault: pages are counted from 0.
PageFromZero(codes, p) == {t \in codes : Place(t, codes) \in p * PageSize + 1 .. (p + 1) * PageSize}

\* page_codes: a slice of the sorted codes.
PageOf(codes, p) == {t \in codes : Place(t, codes) \in (p - 1) * PageSize + 1 .. p * PageSize}

CutPage ==
  /\ listing.at = "filter" /\ listing.left = {}
  /\ listing' = [listing EXCEPT !.at = "reading", !.left = PageOf(listing.kept, listing.page)]
  /\ UNCHANGED <<year, redis, siconfi, caged, snis, ibge, contracts, walk, verdict>>

\* Seeded fault: what goes wrong for one town ends the list.
ListTownUnguarded(t) ==
  /\ listing.at = "reading" /\ Foremost(t)
  /\ listing' = IF TownSummary(t).status = 503 THEN [listing EXCEPT !.left = {}]
                ELSE [listing EXCEPT !.left = @ \ {t}, !.entries = @ \cup {[id |-> t, status |-> 200]}]
  /\ UNCHANGED <<year, redis, siconfi, caged, snis, ibge, contracts, walk, verdict>>

\* One turn of list_municipalities: an exception becomes the entry of its town.
ListTown(t) ==
  /\ listing.at = "reading" /\ Foremost(t)
  /\ listing' = [listing EXCEPT !.left = @ \ {t},
                   !.entries = @ \cup {[id |-> t, status |-> TownSummary(t).status]}]
  /\ UNCHANGED <<year, redis, siconfi, caged, snis, ibge, contracts, walk, verdict>>

Listed == {e.id : e \in listing.entries}

AnswerList ==
  /\ listing.at = "reading" /\ listing.left = {}
  /\ listing' = [listing EXCEPT !.at = "answered"]
  /\ walk' = [walk EXCEPT !.pages = listing.page, !.last = listing.kept, !.seen = @ \cup Listed,
                !.first = IF listing.page = 1 THEN listing.kept ELSE @]
  /\ UNCHANGED <<year, redis, siconfi, caged, snis, ibge, contracts, verdict>>
-----------------------------------------------------------------------------
(* LicitaWatch *)

\* threshold, in ten-thousandths.
Threshold(r) ==
  CASE r = "LL01" -> 7000 [] r = "LL02" -> 3000 [] r = "LL03" -> 5000 [] OTHER -> 2000

\* Seeded fault: two places are kept.
RoundedToPercent(k, n) == 100 * ((200 * k + n) \div (2 * n))

\* round(k / n, 4), in ten-thousandths.
Rounded(k, n) == (20000 * k + n) \div (2 * n)

\* evaluate_licitacoes.
AlertsOf(c) ==
  IF c.total = 0 THEN {} ELSE {r \in Rules : Rounded(c.share[r], c.total) > Threshold(r)}

\* The counts over the contracts that are read, the first Limit keys of a
\* scan that has no order.
ReadableCounts(c) ==
  IF c.total <= Limit THEN {c}
  ELSE LET left == c.total - Limit  \* and of those, how many count for a rule
       IN  {[total |-> Limit, share |-> [r \in Rules |-> c.share[r] - out[r]]] :
              out \in {f \in [Rules -> 0..left] :
                         \A r \in Rules : c.share[r] - f[r] \in 0..Limit}}

\* evaluate_orgao: a Redis that cannot be read holds no contracts.
EvaluateAgency(a) ==
  /\ \E seen \in IF redis THEN ReadableCounts(contracts[a]) ELSE {NoContracts} :
       verdict' = [all |-> IF redis THEN contracts[a] ELSE NoContracts, alerts |-> AlertsOf(seen)]
  /\ UNCHANGED <<year, redis, siconfi, caged, snis, ibge, contracts, listing, walk>>
-----------------------------------------------------------------------------
\* What the list is put together from.
FoundNext ==
  \/ \E t \in Towns : IngestIbge(t) \/ ExpireIbge(t)
  \/ \E t \in Towns, row \in SnisRows \cup {NoObject} : LoadSnis(t, row)

SummariesNext ==
  \/ \E t \in Towns : IngestSiconfi(t)
  \/ \E e \in Employers, saldo \in {-1, 1} : IngestCaged(e, saldo)
  \/ NewYear \/ \E s \in siconfi : ExpireSiconfi(s)

ListNext ==
  \/ \E uf \in {HomeUf[t] : t \in Towns} \cup {NoUf}, p \in 1..Cardinality(Towns) : RequestPage(uf, p)
  \/ \E t \in Towns : SelectTown(t) \/ ListTown(t)
  \/ CutPage \/ AnswerList

TownsNext == FoundNext \/ SummariesNext \/ ListNext

AgenciesNext ==
  \E a \in Agencies : EvaluateAgency(a) \/ \E c \in Counts : IngestPncp(a, c)

MonitorsNext == TownsNext \/ AgenciesNext \/ RedisFails

MonitorsSpec == MonitorsInit /\ [][MonitorsNext]_monitorVars
-----------------------------------------------------------------------------
(* Properties *)

(* An answered page has an entry for every town on it, whatever one of     *)
(* them holds (compliance.py 187-192); and a client that follows the pages *)
(* to the last has been told of every town the list held when it began,    *)
(* whatever was ingested in between, unless a town was taken out of the    *)
(* list: the pages are cut anew from what each request finds (165-185).    *)
PagesMissNoTown ==
  listing.at = "answered" =>
    /\ Listed = PageOf(listing.kept, listing.page)
    /\ listing.page * PageSize >= Cardinality(listing.kept) /\ ~walk.unsettled =>
         walk.first \subseteq walk.seen

(* The shares are rounded before they are compared, and still an agency    *)
(* whose contracts are all read is reported exactly when its share is      *)
(* above the threshold (licitawatch/monitor.py 62-63, 106-121).            *)
AlertsAreExact ==
  LET c == verdict.all
  IN  c.total \in 1..Limit =>
        verdict.alerts = {r \in Rules : 10000 * c.share[r] > Threshold(r) * c.total}

(* A town is refused as "Redis inacessível" only while Redis is (the text  *)
(* of the refusal, compliance.py 57-65 and 264-268).                       *)
ErrorMeansNoRedis == \A t \in Towns : TownSummary(t).status = 503 => ~redis
=============================================================================
