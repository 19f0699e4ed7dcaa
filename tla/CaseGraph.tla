----------------------------- MODULE CaseGraph -----------------------------
(***************************************************************************)
(* The graph of companies and lawsuits (services/shared/storage            *)
(* /neo4j_client.py), written by ingestion workers in batches that may be  *)
(* delivered again or overlap, and read by the knowledge graph and by the  *)
(* features of LegalScore.  MERGE finds the nodes of a name or creates     *)
(* one.  What a transaction still open creates only a uniqueness           *)
(* constraint would let it see, and ensure_constraints, which would make   *)
(* them, has no caller: two batches may each create a node of one name.    *)
(* A node is <<name, number of the batch that created it>>.                *)
(***************************************************************************)
EXTENDS Naturals, FiniteSets

CONSTANTS Lawsuits, Companies, GraphWorkers,
          Batches,   \* the batches: sets of [id, cnpj, ramo, assunto]
          MaxBatches \* bound of the model: batches begun

NoCnpj == "none"

ASSUME GraphAssumption ==
  /\ IsFiniteSet(Lawsuits) /\ IsFiniteSet(Companies) /\ Lawsuits \cap Companies = {}
  /\ NoCnpj \notin Companies \cup Lawsuits /\ MaxBatches \in Nat
  /\ \A rows \in Batches : \A r \in rows :
       r.id \in Lawsuits /\ r.cnpj \in Companies \cup {NoCnpj}

VARIABLES nodes,    \* the nodes committed
          about,    \* about[p]: [ramo, assunto] of lawsuit node p
          edges,    \* PARTE_EM: pairs <<company node, lawsuit node>>
          upsert,   \* upsert[w]: the batch of worker w and the nodes its MERGEs yield
          delivered \* history: the records of committed batches, how many began,
                    \* and which of them were open at a time

graphVars == <<nodes, about, edges, upsert, delivered>>

NoBatch == [rows |-> {}, batch |-> 0, nodes |-> {}]

GraphInit ==
  /\ nodes = {} /\ edges = {}
  /\ about = [p \in Lawsuits \X (1..MaxBatches) |-> [ramo |-> "none", assunto |-> "none"]]
  /\ delivered = [rows |-> {}, begun |-> 0, beside |-> {}]
  /\ upsert = [w \in GraphWorkers |-> NoBatch]

AboutOf(r) == [ramo |-> r.ramo, assunto |-> r.assunto]

Names(rows) == {r.id : r \in rows} \cup ({r.cnpj : r \in rows} \ {NoCnpj})

\* Seeded fault: CREATE in place of MERGE.
MergedAlways(rows, k) == Names(rows) \X {k}

\* MERGE: every node of the name, or a new one.
Merged(rows, k) ==
  {n \in nodes : n[1] \in Names(rows)} \cup ((Names(rows) \ {n[1] : n \in nodes}) \X {k})

\* upsert_process_edges: the MERGEs of the batch see what is committed now.
BeginUpsert(w, rows) ==
  LET k == delivered.begun + 1 IN
  /\ upsert[w] = NoBatch /\ k <= MaxBatches
  /\ upsert' = [upsert EXCEPT ![w] = [rows |-> rows, batch |-> k, nodes |-> Merged(rows, k)]]
  /\ delivered' = [delivered EXCEPT !.begun = k,
       !.beside = @ \cup {<<upsert[v].batch, k>> : v \in {x \in GraphWorkers : upsert[x] # NoBatch}}]
  /\ UNCHANGED <<nodes, about, edges>>

CommitUpsert(w) ==
  LET rows == upsert[w].rows
      of(p) == {r \in rows : r.id = p[1]}
  IN
  /\ upsert[w] # NoBatch
  /\ nodes' = nodes \cup upsert[w].nodes
  /\ about' = [p \in DOMAIN about |->
       IF p \in upsert[w].nodes THEN AboutOf(CHOOSE r \in of(p) : TRUE) ELSE about[p]]
  /\ edges' = edges \cup {e \in upsert[w].nodes \X upsert[w].nodes :
                            \E r \in rows : r.cnpj = e[1][1] /\ r.id = e[2][1]}
  /\ delivered' = [delivered EXCEPT !.rows = @ \cup rows]
  /\ upsert' = [upsert EXCEPT ![w] = NoBatch]

\* The transaction is rolled back; persist_silver only logs it.
UpsertFails(w) ==
  /\ upsert[w] # NoBatch
  /\ upsert' = [upsert EXCEPT ![w] = NoBatch]
  /\ UNCHANGED <<nodes, about, edges, delivered>>

GraphNext ==
  \E w \in GraphWorkers :
    (\E rows \in Batches : BeginUpsert(w, rows)) \/ CommitUpsert(w) \/ UpsertFails(w)

GraphSpec == GraphInit /\ [][GraphNext]_graphVars
-----------------------------------------------------------------------------
(* What is read *)

EdgesOf(c) == {e \in edges : e[1][1] = c}

\* company_processes.
ProcessesOf(c) == {e[2] : e \in EdgesOf(c)}

\* litigant_network: the companies with a lawsuit in common, and how many.
Network(c) ==
  {[cnpj |-> d, comuns |-> Cardinality(ProcessesOf(c) \cap ProcessesOf(d))]
   : d \in {x \in Companies \ {c} : ProcessesOf(c) \cap ProcessesOf(x) # {}}}

\* classify_relationship.
Relation(n) ==
  IF n >= 20 THEN "PREDATORIO" ELSE IF n >= 5 THEN "RECORRENTE"
  ELSE IF n >= 2 THEN "OCASIONAL" ELSE "ISOLADO"

\* network_summary.
Summary(c) ==
  [vizinhos |-> {[cnpj |-> n.cnpj, relacao |-> Relation(n.comuns)] : n \in Network(c)},
   predatoria |-> \E n \in Network(c) : Relation(n.comuns) = "PREDATORIO"]

\* graph_stats: without an edge the query has no row, and all counts are 0.
Stats ==
  LET count(names) == IF edges = {} THEN 0 ELSE Cardinality({n \in nodes : n[1] \in names})
  IN  [empresas |-> count(Companies), processos |-> count(Lawsuits), arestas |-> Cardinality(edges)]

\* count_processos_por_cnpj, a feature of the score: count(p) has a row per
\* edge; more lawsuits than (known) subjects are "repetitive".
Contagem(c) ==
  LET total == Cardinality(EdgesOf(c))
      assuntos == Cardinality({about[p].assunto : p \in ProcessesOf(c)} \ {"none"})
  IN  [total |-> total, repetitivos |-> IF total > assuntos THEN total - assuntos ELSE 0,
       trabalhistas |-> Cardinality({e \in EdgesOf(c) : about[e[2]].ramo = "TRABALHISTA"})]
-----------------------------------------------------------------------------
(* Properties *)

\* More than one node of a name.
HasTwins(name) == \E m, n \in nodes : m # n /\ m[1] = name /\ n[1] = name

DeliveredFor(c) == {r.id : r \in {x \in delivered.rows : x.cnpj = c}}

(* Batches may come again, overlap and fail.  MERGE keeps one node of a    *)
(* name over all of them except those that were open at a time (the        *)
(* "idempotente" of neo4j_client.py 8-9 holds no further than that); the   *)
(* score never misses a lawsuit of a company, counts it once while neither *)
(* of them has twins, and counts nothing that was never committed.         *)
CountedOnce ==
  /\ \A m, n \in nodes : m[1] = n[1] /\ m[2] < n[2] => <<m[2], n[2]>> \in delivered.beside
  /\ \A c \in Companies :
       /\ Contagem(c).total >= Cardinality(DeliveredFor(c))
       /\ (\A name \in {c} \cup DeliveredFor(c) : ~HasTwins(name)) =>
            Contagem(c).total = Cardinality(DeliveredFor(c))
=============================================================================
