-------------------------- MODULE ConfazDocuments --------------------------
(***************************************************************************)
(* Agreements of CONFAZ: the weekly discovery of links and one task per    *)
(* document (services/ingest/tasks/confaz_discovery.py, confaz_ocr.py,     *)
(* services/fiscal/ingestion/confaz_index.py, confaz_parse.py).            *)
(*                                                                         *)
(* Messages are acknowledged when a task starts; only a failed download    *)
(* is retried.  The hash of a document is its content.                     *)
(***************************************************************************)
EXTENDS IngestCircuit, SequencesExt, Bags

CONSTANTS Readers,   \* worker processes of the queue fiscal_ingest
          IndexPages, \* what the index may hold: anchors [url, pdf, hint]
          Served,    \* Served[url]: the document behind a link
          DocRetries, \* max_retries (3)
          MaxRuns    \* bound of the model: discoveries

\* A document's name is the hash of its content.
ASSUME LibraryAssumption ==
  \A u, v \in DOMAIN Served : Served[u].name = Served[v].name => Served[u] = Served[v]

VARIABLES mail,     \* messages in the queue: a bag, as retries come late and workers race
          hashes,   \* fiscal.doc_hash
          reading,  \* reading[w]: the document of w's task and how far it is
          circuitOf, \* circuitOf[w]: the circuits CONFAZ and CONFAZ-INDEX of process w
          readings, \* readings[d]: history: how often a text was extracted
          broken,   \* history: documents whose extraction failed or was cut off
          found,    \* found[d]: history: whether the model answered, and the rules counted
          runs      \* history: discoveries sent

docVars == <<mail, hashes, reading, circuitOf, readings, broken, found, runs>>

Free == [pc |-> "free"]
DocNames == {Served[u].name : u \in DOMAIN Served}

DocInit ==
  /\ mail = EmptyBag /\ hashes = {} /\ runs = 0 /\ broken = {} /\ found = <<>>
  /\ reading = [w \in Readers |-> Free]
  /\ circuitOf = [w \in Readers |-> [doc |-> Closed, index |-> Closed]]
  /\ readings = [d \in DocNames |-> 0]
-----------------------------------------------------------------------------
\* parse_convenio_links: each address once, in the order of the page.
ConvenioLinks(page) ==
  LET kept == SelectSeq(page, LAMBDA a : a.pdf /\ a.hint)
      first == SelectSeq([i \in 1..Len(kept) |-> [n |-> i, url |-> kept[i].url]],
                 LAMBDA a : \A j \in 1..(a.n - 1) : kept[j].url # a.url)
  IN  [i \in 1..Len(first) |-> first[i].url]

PdfMessage(url) == [task |-> "pdf", url |-> url, tries |-> 0]
IndexMessage == [task |-> "index", url |-> "index", tries |-> 0]

\* Celery beat.
Schedule ==
  /\ runs < MaxRuns /\ runs' = runs + 1
  /\ mail' = mail (+) SetToBag({IndexMessage})
  /\ UNCHANGED <<hashes, reading, circuitOf, readings, broken, found>>

Without(m) == mail (-) SetToBag({m})
Take(w, m) == reading[w] = Free /\ mail' = Without(m)

\* The circuit is open: "skipped", also for a retry.
Skipped(w, m, source) ==
  /\ Observed(circuitOf[w][source]).state = "OPEN"
  /\ Take(w, m)
  /\ UNCHANGED <<hashes, reading, circuitOf, readings, broken, found, runs>>

\* requests.RequestException: autoretry_for, at most DocRetries times.
FetchFails(w, m, source) ==
  /\ Observed(circuitOf[w][source]).state # "OPEN" /\ reading[w] = Free
  /\ mail' = IF m.tries = DocRetries THEN Without(m)
             ELSE Without(m) (+) SetToBag({[m EXCEPT !.tries = @ + 1]})
  /\ circuitOf' = [circuitOf EXCEPT ![w][source] = RecordFailure(Observed(@))]
  /\ UNCHANGED <<hashes, reading, readings, broken, found, runs>>

Succeeds(w, source) ==
  /\ Observed(circuitOf[w][source]).state # "OPEN"
  /\ circuitOf' = [circuitOf EXCEPT ![w][source] = RecordSuccess(@)]

Discovered(w, m) ==
  /\ reading[w] = Free /\ Succeeds(w, "index")
  /\ \E links \in {ConvenioLinks(page) : page \in IndexPages} :
       mail' = Without(m) (+) SetToBag({PdfMessage(links[k]) : k \in 1..Len(links)})
  /\ UNCHANGED <<hashes, reading, readings, broken, found, runs>>

\* A link behind which there is nothing fails (FetchFails).
Downloaded(w, m) ==
  /\ m.url \in DOMAIN Served
  /\ Take(w, m) /\ Succeeds(w, "doc")
  /\ reading' = [reading EXCEPT ![w] = [pc |-> "lookup", doc |-> Served[m.url]]]
  /\ UNCHANGED <<hashes, readings, broken, found, runs>>

Done(w) == reading' = [reading EXCEPT ![w] = Free]

\* _already_processed: SELECT, then INSERT and COMMIT in one transaction.
LookUp(w) ==
  /\ reading[w].pc = "lookup"
  /\ IF reading[w].doc.name \in hashes THEN Done(w)
     ELSE reading' = [reading EXCEPT ![w].pc = "insert"]
  /\ UNCHANGED <<mail, hashes, circuitOf, readings, broken, found, runs>>

\* Seeded fault: no unique constraint.
InsertHashAgain(w) ==
  /\ reading[w].pc = "insert"
  /\ hashes' = hashes \cup {reading[w].doc.name}
  /\ reading' = [reading EXCEPT ![w].pc = "extract"]
  /\ UNCHANGED <<mail, circuitOf, readings, broken, found, runs>>

\* uq_doc_hash: the second of two tasks fails, and is not retried.
InsertHash(w) ==
  /\ reading[w].pc = "insert"
  /\ hashes' = hashes \cup {reading[w].doc.name}
  /\ IF reading[w].doc.name \in hashes THEN Done(w)
     ELSE reading' = [reading EXCEPT ![w].pc = "extract"]
  /\ UNCHANGED <<mail, circuitOf, readings, broken, found, runs>>

\* Seeded fault: a scanned document has no text, and is left.
DigitalText(doc) == IF doc.native >= 200 THEN "text" ELSE "none"

\* extract_text: OCR for a short text, where there is tesseract; "broken"
\* if the file cannot be opened at all.
ExtractText(doc) == IF doc.native < 0 THEN "broken" ELSE "text"

\* Seeded fault: no fallback.
RulesByModel(doc, llm) == {r \in IF llm = "down" THEN {} ELSE doc.byModel : r.valid}

\* _parse_with_fallback and the contract: rules the model returns, or those
\* of the heuristic if there are none or it is down.
Rules(doc, llm) ==
  {r \in IF llm = "down" \/ doc.byModel = {} THEN doc.byRegex ELSE doc.byModel : r.valid}

\* _process_pdf after the hash; the rules are counted and go nowhere.
Extract(w) ==
  /\ reading[w].pc = "extract"
  /\ LET doc == reading[w].doc IN
       /\ broken' = IF ExtractText(doc) = "broken" THEN broken \cup {doc.name} ELSE broken
       /\ IF ExtractText(doc) = "text"
          THEN /\ readings' = [readings EXCEPT ![doc.name] = @ + 1]
               /\ \E llm \in {"up", "down"} :
                    found' = [d \in DOMAIN found \cup {doc.name} |->
                      IF d = doc.name THEN [llm |-> llm, rules |-> Rules(doc, llm)] ELSE found[d]]
          ELSE UNCHANGED <<readings, found>>
  /\ Done(w)
  /\ UNCHANGED <<mail, hashes, circuitOf, runs>>

\* The process is replaced: its message is gone, its circuits are new.
ReaderDies(w) ==
  /\ reading[w] # Free
  /\ broken' = IF reading[w].pc = "extract" THEN broken \cup {reading[w].doc.name} ELSE broken
  /\ circuitOf' = [circuitOf EXCEPT ![w] = [doc |-> Closed, index |-> Closed]]
  /\ Done(w)
  /\ UNCHANGED <<mail, hashes, readings, found, runs>>

DocNext ==
  \/ Schedule
  \/ \E w \in Readers :
       \/ LookUp(w) \/ InsertHash(w) \/ Extract(w) \/ ReaderDies(w)
       \/ \E m \in BagToSet(mail) :
            \/ m.task = "index" /\ (Skipped(w, m, "index") \/ FetchFails(w, m, "index") \/ Discovered(w, m))
            \/ m.task = "pdf" /\ (Skipped(w, m, "doc") \/ FetchFails(w, m, "doc") \/ Downloaded(w, m))

\* The clock is that of IngestCircuit: it may go on between two steps.
DocSpec == DocInit /\ [][DocNext]_docVars
-----------------------------------------------------------------------------
(* Properties *)

(* A document is read at most once, under however many addresses it is     *)
(* published, whenever the discovery runs again and whichever tasks have   *)
(* it at the same time (confaz_ocr.py 6, confaz_index.py 6).               *)
ReadAtMostOnce == \A d \in DocNames : readings[d] <= 1

(* A document that is marked as processed is being read, has been read, or *)
(* is one whose task failed in between: the hash is committed first, so    *)
(* that one is never tried again - but nothing else is lost that way.      *)
MarkedIsReadOrBroken ==
  \A d \in hashes :
    \/ readings[d] > 0 \/ d \in broken
    \/ \E w \in Readers : reading[w].pc = "extract" /\ reading[w].doc.name = d

(* A document read while the model is down, or that says nothing to it,    *)
(* still gives the valid rules of the heuristic (confaz_ocr.py 35-43); one *)
(* to which the model gives invalid rules only, gives none.                *)
RulesWithoutModel ==
  \A d \in DOMAIN found : \A doc \in {Served[u] : u \in DOMAIN Served} :
    doc.name = d =>
      IF found[d].llm = "down" \/ doc.byModel = {}
      THEN found[d].rules = {r \in doc.byRegex : r.valid}
      ELSE found[d].rules \subseteq doc.byModel

(* A document is read at most once, marked only if it is being read or was *)
(* lost on the way, and its rules are those of the model or of the         *)
(* heuristic (confaz_ocr.py 30-110).                                       *)
DocumentsSound == ReadAtMostOnce /\ MarkedIsReadOrBroken /\ RulesWithoutModel
=============================================================================
