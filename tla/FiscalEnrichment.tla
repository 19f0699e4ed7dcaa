-------------------------- MODULE FiscalEnrichment --------------------------
(***************************************************************************)
(* Enriching a spreadsheet in the background: POST /fiscal/spreadsheet     *)
(* /enrich and GET /fiscal/jobs/{id} (services/gateway/routers/fiscal.py), *)
(* the Celery chord of services/fiscal/tasks.py (dispatch, one task per    *)
(* chunk, one finalizer), the Merkle anchor of a batch                     *)
(* (services/fiscal/batch/anchor.py) and the bulk insert of                *)
(* services/fiscal/repository.py.                                          *)
(*                                                                         *)
(* Chunks are classified in parallel and return in any order; Celery hands *)
(* their results to the finalizer in the order of the group.  A message is *)
(* acknowledged when its task starts, so a task runs at most once.         *)
(***************************************************************************)
EXTENDS Merkle, FiniteSets

CONSTANTS Jobs,
          Sheets,    \* the spreadsheets clients send: sequences of row kinds
          ChunkSize  \* _CHUNK (500)

RowKind == {"item",    \* a row that is classified
            "skipped", \* no description, or an unknown UF: left out
            "poison"}  \* a row whose request is invalid: an exception

ASSUME SheetAssumption == Sheets \subseteq Seq(RowKind) /\ ChunkSize \in Nat \ {0}

VARIABLES phase,    \* phase[j]: where the upload, then the chord, of job j stands
          sheet,    \* sheet[j]: the object in the storage
          trackers, \* identifiers of the trackers in Redis
          returned, \* returned[j]: results of the chunks, in order of arrival
          entries,  \* entries of the Decision Ledger
          items     \* rows of fiscal.triage_item

vars == <<phase, sheet, trackers, returned, entries, items>>

Init ==
  /\ phase = [j \in Jobs |-> "none"]
  /\ sheet = [j \in Jobs |-> <<>>]
  /\ trackers = {}
  /\ returned = [j \in Jobs |-> <<>>]
  /\ entries = {} /\ items = {}

Goto(j, p) == phase' = [phase EXCEPT ![j] = p]
-----------------------------------------------------------------------------
(* Data *)

RowsOf(s) == [n \in 1..Len(s) |-> [row |-> n, kind |-> s[n]]]

\* rows[i : i + _CHUNK] for i in range(0, len(rows), _CHUNK)
Chunks(s) ==
  [k \in 1..((Len(s) + ChunkSize - 1) \div ChunkSize) |->
     SubSeq(RowsOf(s), (k - 1) * ChunkSize + 1, Min({k * ChunkSize, Len(s)}))]

\* What a row adds to the results: the result of an item stands for its row.
Outcome(r) == IF r.kind = "item" THEN <<r.row>> ELSE <<>>

\* The results of a chunk.
Classified(chunk) == FlattenSeq([i \in 1..Len(chunk) |-> Outcome(chunk[i])])

Raises(chunk) == \E i \in 1..Len(chunk) : chunk[i].kind = "poison"

\* Seeded fault: the results are joined as they arrive.
JoinedAsArrived(j) == FlattenSeq([n \in 1..Len(returned[j]) |-> returned[j][n].results])

\* What chunk k of job j came back with.
ResultsOf(j, k) ==
  (CHOOSE r \in {returned[j][n] : n \in 1..Len(returned[j])} : r.chunk = k).results

\* chunk_results in the order of the group, flattened.
Joined(j) == FlattenSeq([k \in 1..Len(Chunks(sheet[j])) |-> ResultsOf(j, k)])

LeafForItem(i, result) == [leaf_index |-> i, row |-> result]

LeafHashes(results) == [i \in 1..Len(results) |-> LeafForItem(i - 1, results[i])]

\* build_batch_anchor.
Anchor(results) ==
  [root |-> MerkleRoot(LeafHashes(results)), count |-> Len(results)]

\* What is recorded of a batch.
EntryOf(j, anchor) == [request |-> j, root |-> anchor.root, count |-> anchor.count]

\* Seeded fault: the proof is taken for the next leaf.
ProofOfNext(leaves, i, root) ==
  [leaf_hash |-> leaves[i + 1], proof |-> MerkleProof(leaves, i + 1), root |-> root]

InclusionProof(leaves, i, root) ==
  [leaf_hash |-> leaves[i + 1], proof |-> MerkleProof(leaves, i), root |-> root]

VerifyInclusion(p) == FoldProof(p.leaf_hash, p.proof) = p.root
-----------------------------------------------------------------------------
(* The gateway.  A sheet that cannot be read, or is too long, leaves       *)
(* nothing behind; so does a failed upload.                                *)

Upload(j, s) ==
  /\ phase[j] = "none"
  /\ sheet' = [sheet EXCEPT ![j] = s]
  /\ Goto(j, "uploaded")
  /\ UNCHANGED <<trackers, returned, entries, items>>

\* The tracker does not get the identifier the client is told to poll:
\* create_batch_job draws its own.
TrackerId(j) == [prefix |-> "batch", job |-> j]

\* create_job; without Redis the job goes on without a tracker.
CreateTracker(j) ==
  /\ phase[j] = "uploaded"
  /\ trackers' \in {trackers, trackers \cup {TrackerId(j)}}
  /\ Goto(j, "tracked")
  /\ UNCHANGED <<sheet, returned, entries, items>>

Enqueue(j) ==
  /\ phase[j] = "tracked"
  /\ Goto(j, "queued")
  /\ UNCHANGED <<sheet, trackers, returned, entries, items>>

\* 503: the sheet and the tracker stay behind.
EnqueueFails(j) ==
  /\ phase[j] = "tracked"
  /\ Goto(j, "refused")
  /\ UNCHANGED <<sheet, trackers, returned, entries, items>>
-----------------------------------------------------------------------------
(* The workers *)

\* Seeded fault: an empty sheet is dispatched like any other.
DispatchAlways(j) ==
  /\ phase[j] = "queued"
  /\ Goto(j, "classifying")
  /\ UNCHANGED <<sheet, trackers, returned, entries, items>>

\* enrich_spreadsheet; an empty sheet goes straight to the finalizer.
Dispatch(j) ==
  /\ phase[j] = "queued"
  /\ Goto(j, IF Chunks(sheet[j]) = <<>> THEN "anchoring" ELSE "classifying")
  /\ UNCHANGED <<sheet, trackers, returned, entries, items>>

Waiting(j, k) == \A n \in 1..Len(returned[j]) : returned[j][n].chunk # k

\* Seeded fault: a chunk may be run again.
ClassifyAgain(j, k) ==
  /\ phase[j] = "classifying" /\ Len(returned[j]) < 3
  /\ ~ Raises(Chunks(sheet[j])[k])
  /\ returned' = [returned EXCEPT ![j] =
       Append(@, [chunk |-> k, results |-> Classified(Chunks(sheet[j])[k])])]
  /\ UNCHANGED <<phase, sheet, trackers, entries, items>>

ClassifyChunk(j, k) ==
  /\ phase[j] = "classifying" /\ Waiting(j, k)
  /\ ~ Raises(Chunks(sheet[j])[k])
  /\ returned' = [returned EXCEPT ![j] =
       Append(@, [chunk |-> k, results |-> Classified(Chunks(sheet[j])[k])])]
  /\ UNCHANGED <<phase, sheet, trackers, entries, items>>

\* Seeded fault: a chunk that raises goes back to the queue.
ChunkRetried(j, k) ==
  /\ phase[j] = "classifying" /\ Waiting(j, k)
  /\ Raises(Chunks(sheet[j])[k])
  /\ UNCHANGED vars

\* A chunk that raises fails the chord: its callback will not run.
ChunkRaises(j, k) ==
  /\ phase[j] = "classifying" /\ Waiting(j, k)
  /\ Raises(Chunks(sheet[j])[k])
  /\ Goto(j, "failed")
  /\ UNCHANGED <<sheet, trackers, returned, entries, items>>

\* The last chunk has returned: the chord sends its callback.  Without a chunk
\* there is none that could, which is why Dispatch tells an empty sheet apart.
Callback(j) ==
  /\ phase[j] = "classifying" /\ Chunks(sheet[j]) # <<>>
  /\ \A k \in 1..Len(Chunks(sheet[j])) : ~ Waiting(j, k)
  /\ Goto(j, "anchoring")
  /\ UNCHANGED <<sheet, trackers, returned, entries, items>>

\* finalize_enrichment, first half: one entry for the whole batch.
AddEntry(j) ==
  /\ phase[j] = "anchoring"
  /\ \E results \in {Joined(j)} : entries' = entries \cup {EntryOf(j, Anchor(results))}
  /\ Goto(j, "storing")
  /\ UNCHANGED <<sheet, trackers, returned, items>>

\* triage_item references triage_job, into which nothing inserts.
HasJobRow(j) == FALSE

Serialized(j) ==
  {[job |-> j, leaf_index |-> i - 1, row |-> Joined(j)[i]] : i \in 1..Len(Joined(j))}

\* Second half, in a transaction of its own; no rows, no statement.
InsertItems(j) ==
  /\ phase[j] = "storing"
  /\ Joined(j) = <<>> \/ HasJobRow(j)
  /\ items' = items \cup Serialized(j)
  /\ Goto(j, "finished")
  /\ UNCHANGED <<sheet, trackers, returned, entries>>

\* The foreign key is violated: the task fails, the entry stays.
InsertRaises(j) ==
  /\ phase[j] = "storing"
  /\ Joined(j) # <<>> /\ ~ HasJobRow(j)
  /\ Goto(j, "failed")
  /\ UNCHANGED <<sheet, trackers, returned, entries, items>>

\* A worker dies, a database or the storage raises, the results of a chunk
\* are forgotten by Redis: nothing is retried, what was done stays done.
TaskDies(j) ==
  /\ phase[j] \in {"queued", "classifying", "anchoring", "storing"}
  /\ Goto(j, "lost")
  /\ UNCHANGED <<sheet, trackers, returned, entries, items>>
-----------------------------------------------------------------------------
Submit(j) ==
  \/ \E s \in Sheets : Upload(j, s)
  \/ CreateTracker(j) \/ Enqueue(j) \/ EnqueueFails(j)

Work(j) ==
  \/ Dispatch(j)
  \/ \E k \in 1..Len(Chunks(sheet[j])) : ClassifyChunk(j, k) \/ ChunkRaises(j, k)
  \/ Callback(j) \/ AddEntry(j) \/ InsertItems(j) \/ InsertRaises(j)

Next == \E j \in Jobs : Submit(j) \/ Work(j) \/ TaskDies(j)

Spec == Init /\ [][Next]_vars

\* A worker takes the next message of a job and goes on with it.
FairSpec == Spec /\ \A j \in Jobs : WF_vars(Work(j))
-----------------------------------------------------------------------------
(* Properties *)

Phases == {"none", "uploaded", "tracked", "queued", "refused", "classifying",
           "anchoring", "storing", "finished", "failed", "lost"}

TypeOK ==
  /\ phase \in [Jobs -> Phases]
  /\ \A j \in Jobs :
       /\ Len(returned[j]) <= Len(Chunks(sheet[j]))
       /\ \A n \in 1..Len(returned[j]) : returned[j][n].chunk \in 1..Len(Chunks(sheet[j]))
  /\ \A e \in entries : e.request \in Jobs /\ e.count \in Nat

\* What a batch should hold: the rows that count, in the order of the sheet.
Expected(j) == Classified(RowsOf(sheet[j]))

(* A job is anchored at most once, with a root over all its items in the   *)
(* order of the sheet, however the chunks were cut and whenever they came  *)
(* back; one row that raises, or one lost chunk, and nothing is anchored   *)
(* (tasks.py 9-11, 66).                                                    *)
AnchorCoversSheet ==
  \A e \in entries :
    /\ e = EntryOf(e.request, Anchor(Expected(e.request)))
    /\ ~ Raises(RowsOf(sheet[e.request]))

(* decision_proof: every item of an anchored batch can be proved against   *)
(* the root in the ledger, at its own position and at no other             *)
(* (anchor.py 12-13).                                                      *)
EveryItemProvable ==
  \A e \in entries : \A leaves \in {LeafHashes(Expected(e.request))} :
    \A p \in {InclusionProof(leaves, i, e.root) : i \in 0..(e.count - 1)} :
      \A k \in 1..e.count :
        VerifyInclusion([p EXCEPT !.leaf_hash = leaves[k]]) <=> leaves[k] = p.leaf_hash

(* Whatever a worker accepts ends: also a sheet without a single row.      *)
QueuedJobSettles ==
  \A j \in Jobs : phase[j] = "queued" ~> phase[j] \in {"finished", "failed", "lost"}

(* What tasks.py 12 says: the items of an anchored batch are recorded in   *)
(* bulk, unless the worker dies.                                           *)
ItemsRecorded ==
  \A j \in Jobs :
    phase[j] = "storing" ~>
      \/ phase[j] = "lost"
      \/ \A i \in 1..Len(Expected(j)) :
           [job |-> j, leaf_index |-> i - 1, row |-> Expected(j)[i]] \in items

(* The anchor of a batch and the proofs given for its items agree with the *)
(* sheet (tasks.py 60-100, anchor.py 12-70).                               *)
AnchorSound == TypeOK /\ AnchorCoversSheet /\ EveryItemProvable
=============================================================================
