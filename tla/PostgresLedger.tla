--------------------------- MODULE PostgresLedger ---------------------------
(***************************************************************************)
(* The Postgres Decision Ledger (class PostgresDecisionLedger of           *)
(* services/shared/ledger/merkle.py over ledger.entries, ledger.anchors,   *)
(* the row-level security and the constraints of scripts/bootstrap-db.sql).*)
(*                                                                         *)
(* A writer is a request thread or task, in any process, running           *)
(* add_entry: one READ COMMITTED transaction, one action per statement.    *)
(* A reader runs get_proof: two statements of one transaction, each with   *)
(* its own snapshot.  A row becomes visible to others at COMMIT, which     *)
(* also frees the advisory lock.                                           *)
(***************************************************************************)
EXTENDS Merkle, FiniteSets

CONSTANTS Tenants, Requests, Writers, Clients,
          LockKeys, LockKeyOf, \* hashtext(tenant): tenants may share a key
          AnchorInterval,      \* _ANCHOR_INTERVAL
          NoWriter             \* an advisory lock that is free

ASSUME LockAssumption == LockKeyOf \in [Tenants -> LockKeys] /\ NoWriter \notin Writers
ASSUME IntervalAssumption == AnchorInterval \in Nat \ {0}
ASSUME FiniteRequests == IsFiniteSet(Requests)

VARIABLES entries, \* ledger.entries: the committed rows of every tenant
          anchors, \* ledger.anchors: the committed checkpoints
          holder,  \* holder[k]: the transaction that holds advisory lock k
          pc,      \* pc[w]: the statement the transaction of w is to run next
          job,     \* job[w]: the tenant and request_id add_entry was called with
          count,   \* count[w]: what SELECT COUNT(*) returned
          hashes,  \* hashes[w]: existing_hashes
          found,   \* found[c]: the row the first statement of get_proof returned
          held     \* held[c]: the last proof client c obtained, if any

txVars == <<holder, pc, job, count, hashes>>
vars == <<entries, anchors, holder, pc, job, count, hashes, found, held>>

NoRow == [none |-> TRUE]
NoProof == [none |-> TRUE]
NoJob == [none |-> TRUE]
Job == [tenant : Tenants, request : Requests]
Leaf(r, i) == [request |-> r, index |-> i]
-----------------------------------------------------------------------------
(* Tables and queries                                                      *)

RowsOf(t) == {r \in entries : r.tenant = t}

\* Seeded fault: the policy of row-level security is missing.
VisibleWithoutPolicy(t) == entries

\* The rows a query sees once app.tenant_id is set: USING tenant_id = ...
Visible(t) == {r \in entries : r.tenant = t}

CountRows(t) == Cardinality(Visible(t))

\* SELECT leaf_hash ... ORDER BY entry_index.
RowOfRank(S, k) ==
  CHOOSE r \in S : Cardinality({q \in S : q.index < r.index}) = k

Ordered(S) == [k \in 1..Cardinality(S) |-> RowOfRank(S, k - 1).leaf]

\* Seeded fault: ORDER BY entry_index DESC.
NewestFirst(t) ==
  LET n == Cardinality(Visible(t)) IN [k \in 1..n |-> Ordered(Visible(t))[n + 1 - k]]

OrderedLeaves(t) == Ordered(Visible(t))

\* The row INSERT adds: the root covers every earlier leaf and the new one.
NewLeaf(w) == Leaf(job[w].request, count[w])
\* Seeded fault: a root that leaves the new leaf out.
RootOfEarlier(w) == MerkleRoot(hashes[w])
NewRoot(w) == MerkleRoot(Append(hashes[w], NewLeaf(w)))
NewRow(w) == [tenant  |-> job[w].tenant,
              request |-> job[w].request,
              index   |-> count[w],
              leaf    |-> NewLeaf(w),
              root    |-> NewRoot(w)]

\* Seeded fault: UNIQUE (tenant_id, request_id).
ConflictPerTenant(r, q) ==
  r.tenant = q.tenant /\ (r.request = q.request \/ r.index = q.index)

\* UNIQUE (request_id), over all tenants, and UNIQUE (tenant_id, entry_index).
Conflict(r, q) ==
  \/ r.request = q.request
  \/ r.tenant = q.tenant /\ r.index = q.index

LockOf(w) == LockKeyOf[job[w].tenant]
HasLock == {"counting", "reading", "inserting", "inserted"}
-----------------------------------------------------------------------------
Init ==
  /\ entries = {} /\ anchors = {}
  /\ holder = [k \in LockKeys |-> NoWriter]
  /\ pc = [w \in Writers |-> "idle"]
  /\ job = [w \in Writers |-> NoJob]
  /\ count = [w \in Writers |-> 0]
  /\ hashes = [w \in Writers |-> <<>>]
  /\ found = [c \in Clients |-> NoRow]
  /\ held = [c \in Clients |-> NoProof]

\* add_entry is called: BEGIN and set_config('app.tenant_id', ...).
Begin(w, t, r) ==
  /\ pc[w] = "idle"
  /\ pc' = [pc EXCEPT ![w] = "locking"]
  /\ job' = [job EXCEPT ![w] = [tenant |-> t, request |-> r]]
  /\ UNCHANGED <<entries, anchors, holder, count, hashes, found, held>>

\* pg_advisory_xact_lock: waits while another transaction holds the key.
AcquireLock(w) ==
  /\ pc[w] = "locking"
  /\ holder[LockOf(w)] = NoWriter
  /\ holder' = [holder EXCEPT ![LockOf(w)] = w]
  /\ pc' = [pc EXCEPT ![w] = "counting"]
  /\ UNCHANGED <<entries, anchors, job, count, hashes, found, held>>

CountEntries(w) ==
  /\ pc[w] = "counting"
  /\ count' = [count EXCEPT ![w] = CountRows(job[w].tenant)]
  /\ pc' = [pc EXCEPT ![w] = "reading"]
  /\ UNCHANGED <<entries, anchors, holder, job, hashes, found, held>>

ReadHashes(w) ==
  /\ pc[w] = "reading"
  /\ hashes' = [hashes EXCEPT ![w] = OrderedLeaves(job[w].tenant)]
  /\ pc' = [pc EXCEPT ![w] = "inserting"]
  /\ UNCHANGED <<entries, anchors, holder, job, count, found, held>>

\* Seeded fault: the transaction ends, the caller goes on as if it had not.
ReleaseAndGoOn(w) ==
  /\ job' = [job EXCEPT ![w] = NoJob]
  /\ holder' = [k \in LockKeys |-> IF holder[k] = w THEN NoWriter ELSE holder[k]]
  /\ UNCHANGED <<pc, count, hashes>>

\* What the end of a transaction gives back: its lock and its local values.
Release(w) ==
  /\ pc' = [pc EXCEPT ![w] = "idle"]
  /\ job' = [job EXCEPT ![w] = NoJob]
  /\ count' = [count EXCEPT ![w] = 0]
  /\ hashes' = [hashes EXCEPT ![w] = <<>>]
  /\ holder' = [k \in LockKeys |-> IF holder[k] = w THEN NoWriter ELSE holder[k]]

\* An INSERT that conflicts with a row not yet committed waits for its writer.
NoPendingConflict(w) ==
  \A u \in Writers \ {w} : pc[u] = "inserted" => ~ Conflict(NewRow(w), NewRow(u))

Duplicate(w) == \E q \in entries : Conflict(NewRow(w), q)

Insert(w) ==
  /\ pc[w] = "inserting" /\ NoPendingConflict(w) /\ ~ Duplicate(w)
  /\ pc' = [pc EXCEPT ![w] = "inserted"]
  /\ UNCHANGED <<entries, anchors, holder, job, count, hashes, found, held>>

\* Seeded fault: a session-level lock, which an error does not give back.
DuplicateKeepsLock(w) ==
  /\ pc[w] = "inserting" /\ NoPendingConflict(w) /\ Duplicate(w)
  /\ pc' = [pc EXCEPT ![w] = "idle"]
  /\ job' = [job EXCEPT ![w] = NoJob]
  /\ UNCHANGED <<entries, anchors, holder, count, hashes, found, held>>

\* IntegrityError: the transaction rolls back and add_entry raises.
InsertDuplicate(w) ==
  /\ pc[w] = "inserting" /\ NoPendingConflict(w) /\ Duplicate(w)
  /\ Release(w)
  /\ UNCHANGED <<entries, anchors, found, held>>

\* Seeded fault: the interval is tested on the index, not on the number of rows.
AnchorsByIndex(w) ==
  IF count[w] % AnchorInterval = 0
  THEN {[tenant |-> job[w].tenant, index |-> count[w], root |-> NewRoot(w)]}
  ELSE {}

\* The checkpoint written in the same transaction at every interval.
NewAnchors(w) ==
  IF (count[w] + 1) % AnchorInterval = 0
  THEN {[tenant |-> job[w].tenant, index |-> count[w], root |-> NewRoot(w)]}
  ELSE {}

Commit(w) ==
  /\ pc[w] = "inserted"
  /\ entries' = entries \cup {NewRow(w)}
  /\ anchors' = anchors \cup NewAnchors(w)
  /\ Release(w)
  /\ UNCHANGED <<found, held>>

\* The process dies, the connection is lost or a statement fails.
Rollback(w) ==
  /\ pc[w] # "idle"
  /\ Release(w)
  /\ UNCHANGED <<entries, anchors, found, held>>
-----------------------------------------------------------------------------
(* get_proof; an identifier without a row raises KeyError, no state changes *)

FindEntry(c, t, r) ==
  /\ found[c] = NoRow
  /\ \E row \in Visible(t) :
       /\ row.request = r
       /\ found' = [found EXCEPT ![c] = row]
  /\ UNCHANGED <<entries, anchors, txVars, held>>

\* "size" is history: the number of leaves the proof was computed from.
ReadProof(c) ==
  LET row == found[c]
      all == OrderedLeaves(row.tenant)
  IN  /\ row # NoRow
      /\ held' = [held EXCEPT ![c] =
                    [ledger    |-> row.tenant,
                     entry_id  |-> row.request,
                     leaf_hash |-> row.leaf,
                     proof     |-> MerkleProof(all, row.index),
                     root      |-> MerkleRoot(all),
                     size      |-> Len(all)]]
      /\ found' = [found EXCEPT ![c] = NoRow]
      /\ UNCHANGED <<entries, anchors, txVars>>

\* SELECT merkle_root ... ORDER BY entry_index DESC LIMIT 1.
LastRow(t) ==
  CHOOSE r \in Visible(t) : \A q \in Visible(t) : q.index <= r.index

VerifyIntegrity(p) ==
  /\ Visible(p.ledger) # {}
  /\ FoldProof(p.leaf_hash, p.proof) = LastRow(p.ledger).root
-----------------------------------------------------------------------------
Writing(w) ==
  \/ \E t \in Tenants, r \in Requests : Begin(w, t, r)
  \/ AcquireLock(w) \/ CountEntries(w) \/ ReadHashes(w)
  \/ Insert(w) \/ InsertDuplicate(w) \/ Commit(w) \/ Rollback(w)

Reading(c) ==
  \/ \E t \in Tenants, r \in Requests : FindEntry(c, t, r)
  \/ ReadProof(c)

Next == (\E w \in Writers : Writing(w)) \/ (\E c \in Clients : Reading(c))

Spec == Init /\ [][Next]_vars

\* A transaction that runs keeps running; Postgres grants the advisory lock
\* and wakes the waiters of a unique key in the order they queued.
WriterFairness(w) ==
  /\ SF_vars(AcquireLock(w)) /\ SF_vars(Insert(w)) /\ SF_vars(InsertDuplicate(w))
  /\ WF_vars(CountEntries(w)) /\ WF_vars(ReadHashes(w)) /\ WF_vars(Commit(w))

FairSpec == Spec /\ \A w \in Writers : WriterFairness(w)
-----------------------------------------------------------------------------
(* Properties *)

(* Types of the transaction state; the rows are described by the other     *)
(* invariants.                                                             *)
TypeOK ==
  /\ \A r \in entries : r.tenant \in Tenants /\ r.request \in Requests /\ r.index \in Nat
  /\ holder \in [LockKeys -> Writers \cup {NoWriter}]
  /\ pc \in [Writers -> {"idle", "locking"} \cup HasLock]
  /\ job \in [Writers -> Job \cup {NoJob}]
  /\ \A w \in Writers : pc[w] # "idle" => job[w] \in Job
  /\ count \in [Writers -> Nat]
  /\ DOMAIN hashes = Writers

(* The rows of a tenant are numbered 0, 1, 2, ... without hole or          *)
(* repetition, whatever other tenants write and whoever crashes: that is   *)
(* the position get_proof uses as an index into the list of leaves.        *)
IndexesContiguous ==
  \A t \in Tenants :
    /\ {r.index : r \in RowsOf(t)} = 0..(Cardinality(RowsOf(t)) - 1)
    /\ \A r, q \in RowsOf(t) : r.index = q.index => r = q

(* The advisory lock alone keeps two transactions from taking the same     *)
(* position: the UNIQUE (tenant_id, entry_index) behind it never fires, so *)
(* add_entry fails only for a request_id already recorded (merkle.py       *)
(* 194-197).                                                               *)
IndexNeverCollides ==
  \A w \in Writers : pc[w] \in {"inserting", "inserted"} =>
    /\ \A r \in RowsOf(job[w].tenant) : r.index # count[w]
    /\ \A u \in Writers \ {w} :
         pc[u] = "inserted" => job[u].tenant # job[w].tenant

(* The Merkle chain of a tenant never forks: the root stored in a row is   *)
(* the root of exactly the leaves up to that row, so each stored root is   *)
(* an extension of the one before (merkle.py 162-169).                     *)
NoFork ==
  \A t \in Tenants : \A r \in RowsOf(t) :
    r.root = MerkleRoot(SubSeq(Ordered(RowsOf(t)), 1, r.index + 1))

(* ledger.anchors holds one checkpoint for every interval that the ledger  *)
(* of a tenant has completed and no other, with the root of the row it     *)
(* names: history can be audited without a replay (merkle.py 255-265).     *)
AnchorsAgree ==
  \A t \in Tenants :
    {a \in anchors : a.tenant = t}
      = {[tenant |-> t, index |-> r.index, root |-> r.root] :
           r \in {q \in RowsOf(t) : (q.index + 1) % AnchorInterval = 0}}

(* One request_id is recorded at most once over all tenants, although the  *)
(* lock serialises the writers of one tenant only.                         *)
RequestRecordedOnce == \A r, q \in entries : r.request = q.request => r = q

(* A proof put together from two snapshots is as good as one taken at      *)
(* once: it leads to the root it quotes, and verify_integrity accepts it   *)
(* exactly until a further entry of the tenant is committed.               *)
ProofExact ==
  \A c \in Clients : held[c] # NoProof =>
    /\ FoldProof(held[c].leaf_hash, held[c].proof) = held[c].root
    /\ VerifyIntegrity(held[c])
         <=> held[c].size = Cardinality(RowsOf(held[c].ledger))

(* Every add_entry ends, with a row or with an error: neither the advisory *)
(* lock nor the wait for a uniqueness check leaves a writer behind.        *)
EveryAddEntryEnds ==
  \A w \in Writers : pc[w] # "idle" ~> pc[w] = "idle"
-----------------------------------------------------------------------------
(* Every tenant has its own in-memory ledger, as far as anyone can tell.   *)

DbRoot(t) == IF RowsOf(t) = {} THEN EmptyHash ELSE LastRow(t).root

Abstract == INSTANCE DecisionLedger
  WITH Ledgers    <- Tenants,
       MaxEntries <- Cardinality(Requests),
       leaves     <- [t \in Tenants |-> Ordered(RowsOf(t))],
       root       <- [t \in Tenants |-> DbRoot(t)]

(* Statement by statement, under crashes, shared lock keys and concurrent  *)
(* writers, the Postgres ledger is one append-only ledger per tenant whose *)
(* add_entry and get_proof are atomic.                                     *)
ImplementsDecisionLedger == Abstract!Spec
=============================================================================
