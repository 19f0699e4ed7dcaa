------------------------ MODULE PostgresLedgerProofs ------------------------
(***************************************************************************)
(* Safety of the Postgres Decision Ledger, for any sets of tenants,        *)
(* requests, writers and clients, any sharing of advisory lock keys and    *)
(* any anchor interval; and that it implements one in-memory ledger per    *)
(* tenant: every COMMIT is an atomic add_entry, every second SELECT of     *)
(* get_proof an atomic get_proof, every other statement a stuttering step. *)
(***************************************************************************)
EXTENDS PostgresLedger, MerkleProofs, FiniteSetTheorems, FunctionTheorems

-----------------------------------------------------------------------------
(* Sets of rows numbered 0, 1, 2, ...                                      *)

Numbered(S) ==
  /\ IsFiniteSet(S)
  /\ \A r \in S : r.index \in Nat
  /\ {r.index : r \in S} = 0..(Cardinality(S) - 1)
  /\ \A r, q \in S : r.index = q.index => r = q

(* In a numbered set the number of rows before a row is its index.         *)
LEMMA RankIsIndex ==
  ASSUME NEW S, Numbered(S), NEW r \in S
  PROVE  Cardinality({q \in S : q.index < r.index}) = r.index
<1> DEFINE T == {q \in S : q.index < r.index}
           f == [q \in T |-> q.index]
           I == 0..(r.index - 1)
<1>1. r.index \in Nat /\ Cardinality(S) \in Nat /\ r.index < Cardinality(S)
  <2>1. Cardinality(S) \in Nat
    BY FS_CardinalityType DEF Numbered
  <2>2. r.index \in 0..(Cardinality(S) - 1)
    BY DEF Numbered
  <2> QED  BY <2>1, <2>2
<1>2. IsFiniteSet(T)
  BY FS_Subset DEF Numbered
<1>3. f \in [T -> I]
  BY <1>1 DEF Numbered
<1>4. \A a, b \in T : f[a] = f[b] => a = b
  BY DEF Numbered
<1>5. \A i \in I : \E q \in T : f[q] = i
  <2> TAKE i \in I
  <2>1. i \in 0..(Cardinality(S) - 1) /\ i < r.index
    BY <1>1
  <2>2. PICK q \in S : q.index = i
    BY <2>1 DEF Numbered
  <2> QED  BY <2>1, <2>2
<1>6. f \in Bijection(T, I)
  BY <1>3, <1>4, <1>5, Fun_IsBij
<1>7. Cardinality(I) = Cardinality(T)
  BY <1>2, <1>6, Fun_ExistsBij, FS_Bijection
<1>8. Cardinality(I) = r.index
  <2>1. 0 \in Int /\ r.index - 1 \in Int
    BY <1>1
  <2>2. Cardinality(I) = IF 0 > r.index - 1 THEN 0 ELSE (r.index - 1) - 0 + 1
    BY <2>1, FS_Interval
  <2> QED  BY <1>1, <2>2
<1> QED  BY <1>7, <1>8

(* ORDER BY entry_index puts the leaf of a row at the row's own index.     *)
LEMMA RowOfRankIsRow ==
  ASSUME NEW S, Numbered(S), NEW r \in S
  PROVE  RowOfRank(S, r.index) = r
<1>1. \A q \in S : Cardinality({p \in S : p.index < q.index}) = q.index
  BY RankIsIndex
<1>2. \A q \in S : q.index = r.index => q = r
  BY DEF Numbered
<1> QED  BY <1>1, <1>2 DEF RowOfRank

(* The row of index i is the one at position i + 1 of the ordered rows.    *)
LEMMA OrderedIs ==
  ASSUME NEW S, Numbered(S), NEW r \in S
  PROVE  /\ r.index + 1 \in 1..Cardinality(S)
         /\ Ordered(S)[r.index + 1] = r.leaf
<1>1. Cardinality(S) \in Nat /\ r.index \in Nat
  BY FS_CardinalityType DEF Numbered
<1>2. r.index \in 0..(Cardinality(S) - 1)
  BY DEF Numbered
<1>3. r.index + 1 \in 1..Cardinality(S) /\ (r.index + 1) - 1 = r.index
  BY <1>1, <1>2
<1>4. Ordered(S)[r.index + 1] = RowOfRank(S, r.index).leaf
  BY <1>3 DEF Ordered
<1> QED  BY <1>3, <1>4, RowOfRankIsRow

(* Every position of the ordered leaves is that of a row.                  *)
LEMMA RowAt ==
  ASSUME NEW S, Numbered(S), NEW k \in 1..Cardinality(S)
  PROVE  \E r \in S : r.index = k - 1
<1>1. Cardinality(S) \in Nat
  BY FS_CardinalityType DEF Numbered
<1>2. k - 1 \in 0..(Cardinality(S) - 1)
  BY <1>1
<1> QED  BY <1>2 DEF Numbered

(* The ordered leaves form a sequence, as long as there are rows.          *)
LEMMA OrderedType ==
  ASSUME NEW S, Numbered(S), NEW D, \A r \in S : r.leaf \in D
  PROVE  Ordered(S) \in Seq(D) /\ Len(Ordered(S)) = Cardinality(S)
<1>1. Cardinality(S) \in Nat
  BY FS_CardinalityType DEF Numbered
<1>2. \A k \in 1..Cardinality(S) : Ordered(S)[k] \in D
  <2> TAKE k \in 1..Cardinality(S)
  <2>1. PICK r \in S : r.index = k - 1
    BY RowAt
  <2>2. r.index + 1 = k
    BY <1>1, <2>1
  <2> QED  BY <2>2, OrderedIs
<1>3. Ordered(S) \in [1..Cardinality(S) -> D]
  BY <1>2 DEF Ordered
<1> QED  BY <1>1, <1>3

(* A row with the next index extends the numbering and is the last leaf.   *)
LEMMA Extend ==
  ASSUME NEW S, Numbered(S), NEW x, x.index = Cardinality(S)
  PROVE  /\ Numbered(S \cup {x})
         /\ x \notin S
         /\ Cardinality(S \cup {x}) = Cardinality(S) + 1
         /\ Ordered(S \cup {x}) = Append(Ordered(S), x.leaf)
<1> DEFINE n == Cardinality(S)
           U == S \cup {x}
           D == {r.leaf : r \in U}
<1>1. n \in Nat
  BY FS_CardinalityType DEF Numbered
<1>2. \A r \in S : r.index \in 0..(n - 1)
  BY DEF Numbered
<1>3. x \notin S /\ \A r \in S : r.index # x.index
  BY <1>1, <1>2
<1>4. IsFiniteSet(U) /\ Cardinality(U) = n + 1
  BY <1>3, FS_AddElement DEF Numbered
<1>5. {r.index : r \in U} = 0..n
  <2>1. {r.index : r \in U} = {r.index : r \in S} \cup {x.index}
    OBVIOUS
  <2>2. {r.index : r \in S} = 0..(n - 1)
    BY DEF Numbered
  <2>3. (0..(n - 1)) \cup {n} = 0..n
    BY <1>1
  <2> QED  BY <2>1, <2>2, <2>3
<1>6. Numbered(U)
  <2>1. \A r, q \in U : r.index = q.index => r = q
    BY <1>3 DEF Numbered
  <2>2. (n + 1) - 1 = n
    BY <1>1
  <2> QED  BY <1>1, <1>4, <1>5, <2>1, <2>2 DEF Numbered
<1>7. Ordered(S) \in Seq(D) /\ Len(Ordered(S)) = n
  <2>1. \A r \in S : r.leaf \in D
    OBVIOUS
  <2> HIDE DEF D
  <2> QED  BY <2>1, OrderedType
<1>8. Ordered(U) \in Seq(D) /\ Len(Ordered(U)) = n + 1
  <2>1. \A r \in U : r.leaf \in D
    OBVIOUS
  <2> HIDE DEF D
  <2>2. Ordered(U) \in Seq(D) /\ Len(Ordered(U)) = Cardinality(U)
    BY <1>6, <2>1, OrderedType
  <2> QED  BY <1>4, <2>2
<1>9. Append(Ordered(S), x.leaf) \in Seq(D) /\ Len(Append(Ordered(S), x.leaf)) = n + 1
  BY <1>7
<1>10. \A k \in 1..(n + 1) : Ordered(U)[k] = Append(Ordered(S), x.leaf)[k]
  <2> TAKE k \in 1..(n + 1)
  <2>1. PICK r \in U : r.index = k - 1
    BY <1>4, <1>6, RowAt
  <2>2. r.index + 1 = k
    BY <1>1, <2>1
  <2>3. Ordered(U)[k] = r.leaf
    BY <1>6, <2>2, OrderedIs
  <2>4. CASE r = x
    <3>1. k = n + 1
      BY <1>1, <2>2, <2>4
    <3> QED  BY <1>1, <1>7, <2>3, <2>4, <3>1
  <2>5. CASE r \in S
    <3>1. k \in 1..n /\ Ordered(S)[k] = r.leaf
      BY <2>2, <2>5, OrderedIs
    <3> QED  BY <1>1, <1>7, <2>3, <3>1
  <2> QED  BY <2>4, <2>5
<1>11. Ordered(U) = Append(Ordered(S), x.leaf)
  <2>1. Ordered(U) = [k \in 1..(n + 1) |-> Ordered(U)[k]]
    BY <1>4 DEF Ordered
  <2>2. Append(Ordered(S), x.leaf) = [k \in 1..(n + 1) |-> Append(Ordered(S), x.leaf)[k]]
    BY <1>1, <1>9
  <2> QED  BY <1>10, <2>1, <2>2
<1> QED  BY <1>3, <1>4, <1>6, <1>11
-----------------------------------------------------------------------------
(* The inductive invariant                                                 *)

\* A transaction past its lock statement holds the lock of its tenant.
LockHeld == \A w \in Writers : pc[w] \in HasLock => holder[LockOf(w)] = w

RowsNumbered == \A t \in Tenants : Numbered(RowsOf(t))

\* Under the lock, what was counted and read is still what the table holds.
CountCurrent ==
  \A w \in Writers : pc[w] \in {"reading", "inserting", "inserted"} =>
    count[w] = Cardinality(RowsOf(job[w].tenant))

HashesCurrent ==
  \A w \in Writers : pc[w] \in {"inserting", "inserted"} =>
    hashes[w] = Ordered(RowsOf(job[w].tenant))

\* A row that waits for its commit conflicts with no row, committed or not.
PendingDistinct ==
  \A w \in Writers : pc[w] = "inserted" =>
    /\ ~ Duplicate(w)
    /\ \A u \in Writers \ {w} : pc[u] = "inserted" => ~ Conflict(NewRow(w), NewRow(u))

Consistent == TypeOK /\ LockHeld /\ RowsNumbered /\ CountCurrent /\ HashesCurrent

IInv ==
  /\ Consistent /\ PendingDistinct
  /\ NoFork /\ AnchorsAgree /\ RequestRecordedOnce

(* A step is a statement of one writer, or leaves the ledger alone.        *)
LEMMA StepCases ==
  ASSUME [Next]_vars
  PROVE  \/ UNCHANGED <<entries, anchors, txVars>>
         \/ \E w \in Writers : Writing(w)
BY DEF Next, Reading, FindEntry, ReadProof, vars, txVars

(* A statement of one writer leaves the transactions of the others alone.  *)
LEMMA Frame ==
  ASSUME TypeOK, NEW w \in Writers, Writing(w), NEW u \in Writers, u # w
  PROVE  pc'[u] = pc[u] /\ job'[u] = job[u] /\ count'[u] = count[u] /\ hashes'[u] = hashes[u]
BY DEF TypeOK, Writing, Begin, AcquireLock, CountEntries, ReadHashes, Insert,
       InsertDuplicate, Commit, Rollback, Release

(* Only a commit changes the tables.                                       *)
LEMMA OnlyCommitWrites ==
  ASSUME NEW w \in Writers, Writing(w), ~ Commit(w)
  PROVE  entries' = entries /\ anchors' = anchors
BY DEF Writing, Begin, AcquireLock, CountEntries, ReadHashes, Insert,
       InsertDuplicate, Rollback

(* The initial state is well typed.                                        *)
LEMMA TypeInit == Init => TypeOK
BY LockAssumption DEF Init, TypeOK, HasLock

(* A COUNT is a number.                                                    *)
LEMMA CountType ==
  ASSUME NEW t \in Tenants, RowsNumbered
  PROVE  CountRows(t) \in Nat
<1>1. IsFiniteSet(RowsOf(t))
  BY DEF RowsNumbered, Numbered
<1>2. IsFiniteSet(Visible(t))
  BY <1>1 DEF Visible, RowsOf
<1> QED  BY <1>2, FS_CardinalityType DEF CountRows

(* Every statement keeps the types, given that the rows are numbered.      *)
LEMMA TypeStep ==
  ASSUME TypeOK, RowsNumbered, [Next]_vars
  PROVE  TypeOK'
<1>1. CASE UNCHANGED <<entries, anchors, txVars>>
  BY <1>1 DEF TypeOK, txVars
<1>2. ASSUME NEW w \in Writers, Writing(w) PROVE TypeOK'
  <2>1. ASSUME NEW t \in Tenants, NEW r \in Requests, Begin(w, t, r) PROVE TypeOK'
    BY <2>1 DEF Begin, TypeOK, Job
  <2>2. CASE AcquireLock(w)
    <3>1. LockOf(w) \in LockKeys
      BY <2>2, LockAssumption DEF AcquireLock, TypeOK, LockOf, Job
    <3> QED  BY <2>2, <3>1 DEF AcquireLock, TypeOK, HasLock
  <2>3. CASE CountEntries(w)
    <3>1. CountRows(job[w].tenant) \in Nat
      BY <2>3, CountType DEF CountEntries, TypeOK, Job
    <3> QED  BY <2>3, <3>1 DEF CountEntries, TypeOK, HasLock
  <2>4. CASE ReadHashes(w)
    BY <2>4 DEF ReadHashes, TypeOK, HasLock
  <2>5. CASE Insert(w)
    BY <2>5 DEF Insert, TypeOK, HasLock
  <2>6. ASSUME Release(w), pc[w] # "idle",
               \A r \in entries' : r.tenant \in Tenants /\ r.request \in Requests
                                   /\ r.index \in Nat
        PROVE  TypeOK'
    BY <2>6 DEF Release, TypeOK, HasLock
  <2>7. CASE InsertDuplicate(w)
    BY <2>6, <2>7 DEF InsertDuplicate, TypeOK
  <2>8. CASE Commit(w)
    <3>1. job[w] \in Job /\ count[w] \in Nat
      BY <2>8 DEF Commit, TypeOK
    <3>2. NewRow(w).tenant \in Tenants /\ NewRow(w).request \in Requests
          /\ NewRow(w).index \in Nat
      BY <3>1 DEF NewRow, Job
    <3> QED  BY <2>6, <2>8, <3>2 DEF Commit, TypeOK
  <2>9. CASE Rollback(w)
    BY <2>6, <2>9 DEF Rollback, TypeOK
  <2> QED  BY <1>2, <2>1, <2>2, <2>3, <2>4, <2>5, <2>7, <2>8, <2>9 DEF Writing
<1> QED  BY <1>1, <1>2, StepCases

(* The advisory lock excludes: whoever is past it holds it.                *)
LEMMA LockStep ==
  ASSUME TypeOK, LockHeld, TypeOK', [Next]_vars
  PROVE  LockHeld'
<1>1. CASE UNCHANGED <<entries, anchors, txVars>>
  BY <1>1 DEF LockHeld, LockOf, txVars
<1>2. ASSUME NEW w \in Writers, Writing(w), NEW u \in Writers, pc'[u] \in HasLock
      PROVE  holder'[LockOf(u)'] = u
  <2>1. CASE u # w
    <3>1. pc[u] \in HasLock /\ LockOf(u)' = LockOf(u) /\ holder[LockOf(u)] = u
      BY <1>2, <2>1, Frame DEF LockHeld, LockOf
    <3>2. LockOf(u) \in LockKeys
      BY <3>1, LockAssumption DEF TypeOK, LockOf, Job, HasLock
    <3>3. w # NoWriter /\ u # NoWriter
      BY LockAssumption
    <3> QED
      BY <1>2, <2>1, <3>1, <3>2, <3>3
      DEF TypeOK, Writing, Begin, AcquireLock, CountEntries, ReadHashes, Insert,
          InsertDuplicate, Commit, Rollback, Release
  <2>2. CASE u = w
    <3>1. CASE AcquireLock(w)
      <4>1. LockOf(w) \in LockKeys /\ LockOf(w)' = LockOf(w)
        BY <3>1, LockAssumption DEF AcquireLock, TypeOK, LockOf, Job
      <4> QED  BY <2>2, <3>1, <4>1 DEF AcquireLock, TypeOK
    <3>2. CASE CountEntries(w) \/ ReadHashes(w) \/ Insert(w)
      BY <2>2, <3>2
      DEF CountEntries, ReadHashes, Insert, LockHeld, LockOf, HasLock, TypeOK
    <3>3. CASE \E t \in Tenants, r \in Requests : Begin(w, t, r)
      BY <1>2, <2>2, <3>3 DEF Begin, HasLock, TypeOK
    <3>4. CASE InsertDuplicate(w) \/ Commit(w) \/ Rollback(w)
      BY <1>2, <2>2, <3>4 DEF InsertDuplicate, Commit, Rollback, Release, HasLock, TypeOK
    <3> QED  BY <1>2, <3>1, <3>2, <3>3, <3>4 DEF Writing
  <2> QED  BY <2>1, <2>2
<1> QED  BY <1>1, <1>2, StepCases DEF LockHeld
-----------------------------------------------------------------------------
(* What a commit does to the table                                         *)

(* Two transactions past the lock work for different tenants.              *)
LEMMA OneWriterPerTenant ==
  ASSUME LockHeld, NEW w \in Writers, NEW u \in Writers, u # w,
         pc[w] \in HasLock, pc[u] \in HasLock
  PROVE  job[u].tenant # job[w].tenant
BY DEF LockHeld, LockOf

(* A commit appends one leaf to one tenant, numbered by its count.         *)
LEMMA CommitAppends ==
  ASSUME Consistent, NEW w \in Writers, Commit(w), NEW t, t = job[w].tenant
  PROVE  /\ t \in Tenants
         /\ NewRow(w).tenant = t
         /\ NewRow(w).index = Cardinality(RowsOf(t))
         /\ NewRow(w).root = MerkleRoot(Append(Ordered(RowsOf(t)), NewRow(w).leaf))
         /\ RowsOf(t)' = RowsOf(t) \cup {NewRow(w)}
         /\ \A s \in Tenants \ {t} : RowsOf(s)' = RowsOf(s)
<1>1. pc[w] = "inserted" /\ entries' = entries \cup {NewRow(w)}
  BY DEF Commit
<1>2. t \in Tenants
  BY <1>1 DEF Consistent, TypeOK, Job
<1>3. NewRow(w).tenant = t /\ NewRow(w).index = count[w]
      /\ NewRow(w).leaf = NewLeaf(w) /\ NewRow(w).root = NewRoot(w)
  BY DEF NewRow
<1>4. count[w] = Cardinality(RowsOf(t)) /\ hashes[w] = Ordered(RowsOf(t))
  BY <1>1 DEF Consistent, CountCurrent, HashesCurrent
<1>5. \A s : {r \in entries \cup {NewRow(w)} : r.tenant = s}
               = RowsOf(s) \cup (IF s = t THEN {NewRow(w)} ELSE {})
  BY <1>3 DEF RowsOf
<1>6. \A s : RowsOf(s)' = RowsOf(s) \cup (IF s = t THEN {NewRow(w)} ELSE {})
  BY <1>1, <1>5 DEF RowsOf
<1> QED  BY <1>2, <1>3, <1>4, <1>6 DEF NewRoot

(* The rows stay numbered: no hole, no repetition.                         *)
LEMMA RowsStep ==
  ASSUME Consistent, [Next]_vars
  PROVE  RowsNumbered'
<1>1. CASE entries' = entries
  BY <1>1 DEF Consistent, RowsNumbered, RowsOf
<1>2. ASSUME NEW w \in Writers, Commit(w), NEW s \in Tenants
      PROVE  Numbered(RowsOf(s)')
  <2> DEFINE t == job[w].tenant
  <2>1. PICK u : u = t
    OBVIOUS
  <2>2. Numbered(RowsOf(s))
    BY DEF Consistent, RowsNumbered
  <2>3. CASE s = u
    <3>1. RowsOf(u)' = RowsOf(u) \cup {NewRow(w)} /\ NewRow(w).index = Cardinality(RowsOf(u))
      BY <1>2, <2>1, CommitAppends
    <3>2. Numbered(RowsOf(u) \cup {NewRow(w)})
      BY <2>2, <2>3, <3>1, Extend
    <3> QED  BY <2>3, <3>1, <3>2
  <2>4. CASE s # u
    <3>1. RowsOf(s)' = RowsOf(s)
      BY <1>2, <2>1, <2>4, CommitAppends
    <3> QED  BY <2>2, <3>1
  <2> QED  BY <2>3, <2>4
<1>3. (\A s \in Tenants : Numbered(RowsOf(s)')) => RowsNumbered'
  BY DEF RowsNumbered
<1> QED  BY <1>1, <1>2, <1>3, StepCases, OnlyCommitWrites

(* A transaction under the lock of its tenant sees the table stand still.  *)
LEMMA RowsStable ==
  ASSUME Consistent, NEW w \in Writers, Writing(w), NEW u \in Writers, u # w,
         pc[u] \in HasLock, NEW t, t = job[u].tenant
  PROVE  RowsOf(t)' = RowsOf(t)
<1>1. CASE Commit(w)
  <2>1. t # job[w].tenant
    BY <1>1, OneWriterPerTenant DEF Commit, HasLock, Consistent
  <2>2. PICK v : v = job[w].tenant
    OBVIOUS
  <2>3. t \in Tenants
    BY DEF Consistent, TypeOK, Job, HasLock
  <2> QED  BY <1>1, <2>1, <2>2, <2>3, CommitAppends
<1>2. CASE ~ Commit(w)
  BY <1>2, OnlyCommitWrites DEF RowsOf
<1> QED  BY <1>1, <1>2

(* What a transaction has read stays current.                              *)
LEMMA ReadsStep ==
  ASSUME Consistent, [Next]_vars
  PROVE  CountCurrent' /\ HashesCurrent'
<1> DEFINE Counted(u) == pc[u] \in {"reading", "inserting", "inserted"} =>
                           count[u] = Cardinality(RowsOf(job[u].tenant))
           Read(u) == pc[u] \in {"inserting", "inserted"} =>
                        hashes[u] = Ordered(RowsOf(job[u].tenant))
<1>1. CASE UNCHANGED <<entries, anchors, txVars>>
  BY <1>1 DEF Consistent, CountCurrent, HashesCurrent, RowsOf, txVars
<1>2. ASSUME NEW w \in Writers, Writing(w), NEW u \in Writers
      PROVE  Counted(u)' /\ Read(u)'
  <2>1. Counted(u) /\ Read(u)
    BY DEF Consistent, CountCurrent, HashesCurrent
  <2>2. CASE u # w
    <3>1. pc'[u] = pc[u] /\ job'[u] = job[u] /\ count'[u] = count[u] /\ hashes'[u] = hashes[u]
      BY <1>2, <2>2, Frame DEF Consistent
    <3>2. PICK t : t = job[u].tenant
      OBVIOUS
    <3>3. pc[u] \in HasLock => RowsOf(t)' = RowsOf(t)
      BY <1>2, <2>2, <3>2, RowsStable
    <3>4. pc[u] \in HasLock => RowsOf(job[u].tenant)' = RowsOf(job[u].tenant)
      BY <3>1, <3>2, <3>3 DEF RowsOf
    <3> QED  BY <2>1, <3>1, <3>4 DEF HasLock
  <2>3. CASE u = w
    <3>1. CASE CountEntries(w)
      BY <2>3, <3>1 DEF CountEntries, CountRows, Visible, RowsOf, Consistent, TypeOK
    <3>2. CASE ReadHashes(w)
      BY <2>1, <2>3, <3>2 DEF ReadHashes, OrderedLeaves, Visible, RowsOf, Consistent, TypeOK
    <3>3. CASE Insert(w)
      BY <2>1, <2>3, <3>3 DEF Insert, RowsOf, Consistent, TypeOK
    <3>4. CASE ~ (CountEntries(w) \/ ReadHashes(w) \/ Insert(w))
      BY <1>2, <2>3, <3>4
      DEF Writing, Begin, AcquireLock, InsertDuplicate, Commit, Rollback, Release,
          Consistent, TypeOK
    <3> QED  BY <3>1, <3>2, <3>3, <3>4
  <2> QED  BY <2>2, <2>3
<1>3. (\A u \in Writers : Counted(u)' /\ Read(u)') => CountCurrent' /\ HashesCurrent'
  BY DEF CountCurrent, HashesCurrent
<1> QED  BY <1>1, <1>2, <1>3, StepCases
-----------------------------------------------------------------------------
(* Uniqueness, the Merkle chain and the anchors                            *)

(* A conflict is one for both rows.                                        *)
LEMMA ConflictSymmetric == \A r, q : Conflict(r, q) <=> Conflict(q, r)
BY DEF Conflict

(* A row that passed its uniqueness check stays without conflict.          *)
LEMMA PendingStep ==
  ASSUME Consistent, PendingDistinct, [Next]_vars
  PROVE  PendingDistinct'
<1> DEFINE Free(u) == ~ Duplicate(u)
           Apart(u, v) == ~ Conflict(NewRow(u), NewRow(v))
<1>1. CASE UNCHANGED <<entries, anchors, txVars>>
  BY <1>1 DEF PendingDistinct, Duplicate, NewRow, NewLeaf, NewRoot, txVars
<1>2. ASSUME NEW w \in Writers, Writing(w)
      PROVE  PendingDistinct'
  <2>1. \A u \in Writers : pc'[u] = "inserted" =>
          NewRow(u)' = NewRow(u) /\ pc[u] = IF u = w THEN "inserting" ELSE "inserted"
    <3> TAKE u \in Writers
    <3>1. CASE u # w
      BY <1>2, <3>1, Frame DEF Consistent, NewRow, NewLeaf, NewRoot
    <3>2. CASE u = w
      BY <1>2, <3>2
      DEF Writing, Begin, AcquireLock, CountEntries, ReadHashes, Insert, InsertDuplicate,
          Commit, Rollback, Release, Consistent, TypeOK, NewRow, NewLeaf, NewRoot
    <3> QED  BY <3>1, <3>2
  <2>2. pc'[w] = "inserted" => Insert(w)
    BY <1>2
    DEF Writing, Begin, AcquireLock, CountEntries, ReadHashes, Insert, InsertDuplicate,
        Commit, Rollback, Release, Consistent, TypeOK
  <2>3. \A u \in Writers : pc'[u] = "inserted" => \A q \in entries : ~ Conflict(NewRow(u), q)
    BY <2>1, <2>2 DEF PendingDistinct, Duplicate, Insert
  <2>4. \A u \in Writers : pc'[u] = "inserted" =>
          \A q \in entries' : ~ Conflict(NewRow(u), q)
    <3>1. CASE Commit(w)
      <4>1. entries' = entries \cup {NewRow(w)} /\ pc[w] = "inserted" /\ pc'[w] # "inserted"
        BY <3>1 DEF Commit, Release, Consistent, TypeOK
      <4>2. \A u \in Writers : pc'[u] = "inserted" => ~ Conflict(NewRow(u), NewRow(w))
        BY <2>1, <4>1 DEF PendingDistinct
      <4> QED  BY <2>3, <4>1, <4>2
    <3>2. CASE ~ Commit(w)
      BY <1>2, <2>3, <3>2, OnlyCommitWrites
    <3> QED  BY <3>1, <3>2
  <2>5. \A u, v \in Writers : u # v /\ pc'[u] = "inserted" /\ pc'[v] = "inserted" =>
          ~ Conflict(NewRow(u), NewRow(v))
    <3>1. Insert(w) => \A v \in Writers \ {w} : pc[v] = "inserted" =>
            ~ Conflict(NewRow(w), NewRow(v)) /\ ~ Conflict(NewRow(v), NewRow(w))
      BY ConflictSymmetric DEF Insert, NoPendingConflict
    <3> QED  BY <2>1, <2>2, <3>1 DEF PendingDistinct
  <2>6. \A u \in Writers : pc'[u] = "inserted" => Duplicate(u)' = \E q \in entries' : Conflict(NewRow(u), q)
    BY <2>1 DEF Duplicate, Conflict
  <2>7. \A u, v \in Writers : pc'[u] = "inserted" /\ pc'[v] = "inserted" =>
          Conflict(NewRow(u), NewRow(v))' = Conflict(NewRow(u), NewRow(v))
    BY <2>1 DEF Conflict
  <2> QED  BY <2>4, <2>5, <2>6, <2>7 DEF PendingDistinct
<1> QED  BY <1>1, <1>2, StepCases

(* A commit adds no identifier that is recorded.                           *)
LEMMA UniqueStep ==
  ASSUME Consistent, PendingDistinct, RequestRecordedOnce, [Next]_vars
  PROVE  RequestRecordedOnce'
<1>1. CASE entries' = entries
  BY <1>1 DEF RequestRecordedOnce
<1>2. ASSUME NEW w \in Writers, Commit(w) PROVE RequestRecordedOnce'
  <2>1. \A q \in entries : q.request # NewRow(w).request
    BY <1>2 DEF Commit, PendingDistinct, Duplicate, Conflict
  <2> QED  BY <1>2, <2>1 DEF Commit, RequestRecordedOnce
<1> QED  BY <1>1, <1>2, StepCases, OnlyCommitWrites

(* A prefix of the leaves is not touched by appending one more.            *)
LEMMA PrefixOfAppend ==
  ASSUME NEW D, NEW s \in Seq(D), NEW e \in D, NEW k \in 1..Len(s)
  PROVE  /\ SubSeq(Append(s, e), 1, k) = SubSeq(s, 1, k)
         /\ SubSeq(Append(s, e), 1, Len(s) + 1) = Append(s, e)
OBVIOUS

(* The chain of one tenant, as a predicate on its rows.                    *)
Chained(S) == \A r \in S : r.root = MerkleRoot(SubSeq(Ordered(S), 1, r.index + 1))

(* A row with the root of all leaves up to it extends a chain.             *)
LEMMA ChainExtends ==
  ASSUME NEW S, Numbered(S), Chained(S), NEW x, x.index = Cardinality(S),
         x.root = MerkleRoot(Append(Ordered(S), x.leaf))
  PROVE  Chained(S \cup {x})
<1> DEFINE U == S \cup {x}
           D == {r.leaf : r \in U}
           n == Cardinality(S)
<1>1. Ordered(U) = Append(Ordered(S), x.leaf)
  BY Extend
<1>2. Ordered(S) \in Seq(D) /\ Len(Ordered(S)) = n /\ n \in Nat
  BY OrderedType, FS_CardinalityType DEF Numbered
<1>3. x.leaf \in D
  OBVIOUS
<1> HIDE DEF D
<1>4. SubSeq(Ordered(U), 1, n + 1) = Ordered(U)
  <2>1. Append(Ordered(S), x.leaf) \in Seq(D) /\ Len(Append(Ordered(S), x.leaf)) = n + 1
    BY <1>2, <1>3
  <2> QED  BY <1>1, <2>1
<1>5. \A r \in S : SubSeq(Ordered(U), 1, r.index + 1) = SubSeq(Ordered(S), 1, r.index + 1)
  <2> TAKE r \in S
  <2>1. r.index + 1 \in 1..Len(Ordered(S))
    BY <1>2, OrderedIs
  <2> QED  BY <1>1, <1>2, <1>3, <2>1, PrefixOfAppend
<1> QED  BY <1>1, <1>4, <1>5 DEF Chained

(* Every commit does.                                                      *)
LEMMA ChainStep ==
  ASSUME Consistent, NoFork, [Next]_vars
  PROVE  NoFork'
<1>1. NoFork = \A t \in Tenants : Chained(RowsOf(t))
  BY DEF NoFork, Chained
<1>2. CASE entries' = entries
  BY <1>2 DEF NoFork, RowsOf
<1>3. ASSUME NEW w \in Writers, Commit(w), NEW s \in Tenants
      PROVE  Chained(RowsOf(s)')
  <2>1. PICK t : t = job[w].tenant
    OBVIOUS
  <2>2. Numbered(RowsOf(s)) /\ Chained(RowsOf(s))
    BY <1>1 DEF Consistent, RowsNumbered
  <2>3. CASE s = t
    BY <1>3, <2>1, <2>2, <2>3, CommitAppends, ChainExtends
  <2>4. CASE s # t
    BY <1>3, <2>1, <2>2, <2>4, CommitAppends
  <2> QED  BY <2>3, <2>4
<1>4. (\A s \in Tenants : Chained(RowsOf(s)')) => NoFork'
  BY DEF NoFork, Chained
<1> QED  BY <1>2, <1>3, <1>4, StepCases, OnlyCommitWrites

(* The checkpoint of every completed interval is written with its row.     *)
LEMMA AnchorStep ==
  ASSUME Consistent, AnchorsAgree, [Next]_vars
  PROVE  AnchorsAgree'
<1> DEFINE Due(S) == {q \in S : (q.index + 1) % AnchorInterval = 0}
           Marks(s, S) == {[tenant |-> s, index |-> r.index, root |-> r.root] : r \in Due(S)}
           AnchorsOf(s, A) == {a \in A : a.tenant = s}
<1>1. CASE entries' = entries /\ anchors' = anchors
  BY <1>1 DEF AnchorsAgree, RowsOf
<1>2. ASSUME NEW w \in Writers, Commit(w), NEW s \in Tenants
      PROVE  AnchorsOf(s, anchors') = Marks(s, RowsOf(s)')
  <2>1. PICK t : t = job[w].tenant
    OBVIOUS
  <2>2. AnchorsOf(s, anchors) = Marks(s, RowsOf(s))
    BY DEF AnchorsAgree
  <2>3. anchors' = anchors \cup NewAnchors(w)
    BY <1>2 DEF Commit
  <2>4. \A a \in NewAnchors(w) : a.tenant = t
    BY <2>1 DEF NewAnchors
  <2>5. CASE s # t
    <3>1. RowsOf(s)' = RowsOf(s)
      BY <1>2, <2>1, <2>5, CommitAppends
    <3>2. AnchorsOf(s, anchors') = AnchorsOf(s, anchors)
      BY <2>3, <2>4, <2>5
    <3> QED  BY <2>2, <3>1, <3>2
  <2>6. CASE s = t
    <3>1. RowsOf(s)' = RowsOf(s) \cup {NewRow(w)}
      BY <1>2, <2>1, <2>6, CommitAppends
    <3>2. NewAnchors(w) = Marks(s, {NewRow(w)})
      <4>1. NewRow(w).index = count[w] /\ NewRow(w).root = NewRoot(w)
        BY DEF NewRow
      <4>2. CASE (count[w] + 1) % AnchorInterval = 0
        <5>1. Due({NewRow(w)}) = {NewRow(w)}
          BY <4>1, <4>2
        <5>2. Marks(s, {NewRow(w)})
                = {[tenant |-> s, index |-> count[w], root |-> NewRoot(w)]}
          BY <4>1, <5>1
        <5> QED  BY <2>1, <2>6, <4>2, <5>2 DEF NewAnchors
      <4>3. CASE (count[w] + 1) % AnchorInterval # 0
        BY <4>1, <4>3 DEF NewAnchors
      <4> QED  BY <4>2, <4>3
    <3>3. AnchorsOf(s, anchors') = AnchorsOf(s, anchors) \cup NewAnchors(w)
      BY <2>3, <2>4, <2>6
    <3>4. Marks(s, RowsOf(s) \cup {NewRow(w)}) = Marks(s, RowsOf(s)) \cup Marks(s, {NewRow(w)})
      OBVIOUS
    <3> QED  BY <2>2, <3>1, <3>2, <3>3, <3>4
  <2> QED  BY <2>5, <2>6
<1>3. (\A s \in Tenants : AnchorsOf(s, anchors') = Marks(s, RowsOf(s)')) => AnchorsAgree'
  BY DEF AnchorsAgree
<1> QED  BY <1>1, <1>2, <1>3, StepCases, OnlyCommitWrites DEF txVars
-----------------------------------------------------------------------------
(* The invariant and what follows from it                                  *)

(* The empty ledger satisfies the invariant.                               *)
LEMMA InitConsistent == Init => IInv
<1> SUFFICES ASSUME Init PROVE IInv
  OBVIOUS
<1>1. TypeOK
  BY TypeInit
<1>2. entries = {} /\ anchors = {} /\ \A w \in Writers : pc[w] = "idle"
  BY DEF Init
<1>3. \A t : RowsOf(t) = {}
  BY <1>2 DEF RowsOf
<1>4. Numbered({})
  BY FS_EmptySet DEF Numbered
<1>5. RowsNumbered
  BY <1>3, <1>4 DEF RowsNumbered
<1>6. LockHeld /\ CountCurrent /\ HashesCurrent /\ PendingDistinct
  BY <1>2 DEF LockHeld, HasLock, CountCurrent, HashesCurrent, PendingDistinct
<1>7. NoFork /\ AnchorsAgree /\ RequestRecordedOnce
  BY <1>2, <1>3 DEF NoFork, AnchorsAgree, RequestRecordedOnce
<1> QED  BY <1>1, <1>5, <1>6, <1>7 DEF IInv, Consistent

(* Every step keeps it.                                                    *)
LEMMA StepConsistent == IInv /\ [Next]_vars => IInv'
<1> SUFFICES ASSUME IInv, [Next]_vars PROVE IInv'
  OBVIOUS
<1>1. TypeOK' /\ RowsNumbered'
  BY TypeStep, RowsStep DEF IInv, Consistent
<1>2. LockHeld'
  BY <1>1, LockStep DEF IInv, Consistent
<1>3. CountCurrent' /\ HashesCurrent'
  BY ReadsStep DEF IInv
<1>4. PendingDistinct' /\ RequestRecordedOnce'
  BY PendingStep, UniqueStep DEF IInv
<1>5. NoFork' /\ AnchorsAgree'
  BY ChainStep, AnchorStep DEF IInv
<1> QED  BY <1>1, <1>2, <1>3, <1>4, <1>5 DEF IInv, Consistent

(* Every reachable state satisfies the inductive invariant.                *)
THEOREM Invariance == Spec => []IInv
BY InitConsistent, StepConsistent, PTL DEF Spec

(* The transaction state is well typed.                                    *)
THEOREM TypeCorrect == Spec => []TypeOK
<1>1. IInv => TypeOK
  BY DEF IInv, Consistent
<1> QED  BY <1>1, Invariance, PTL

(* The rows of every tenant are numbered 0, 1, 2, ..., for any number of   *)
(* writers, crashes and tenants that share a lock key.                     *)
THEOREM Contiguous == Spec => []IndexesContiguous
<1>1. IInv => IndexesContiguous
  BY DEF IInv, Consistent, RowsNumbered, Numbered, IndexesContiguous
<1> QED  BY <1>1, Invariance, PTL

(* The advisory lock by itself keeps positions apart.                      *)
THEOREM NoCollision == Spec => []IndexNeverCollides
<1>1. ASSUME IInv, NEW w \in Writers, pc[w] \in {"inserting", "inserted"}
      PROVE  /\ \A r \in RowsOf(job[w].tenant) : r.index # count[w]
             /\ \A u \in Writers \ {w} :
                  pc[u] = "inserted" => job[u].tenant # job[w].tenant
  <2>1. job[w].tenant \in Tenants
    BY <1>1 DEF IInv, Consistent, TypeOK, Job
  <2>2. PICK t \in Tenants : t = job[w].tenant
    BY <2>1
  <2>3. Numbered(RowsOf(t)) /\ count[w] = Cardinality(RowsOf(t))
    BY <1>1, <2>2 DEF IInv, Consistent, RowsNumbered, CountCurrent
  <2>4. Cardinality(RowsOf(t)) \in Nat
    BY <2>3, FS_CardinalityType DEF Numbered
  <2>5. \A r \in RowsOf(t) : r.index \in 0..(Cardinality(RowsOf(t)) - 1)
    BY <2>3 DEF Numbered
  <2>6. \A r \in RowsOf(t) : r.index # count[w]
    BY <2>3, <2>4, <2>5
  <2>7. \A u \in Writers \ {w} : pc[u] = "inserted" => job[u].tenant # job[w].tenant
    BY <1>1, OneWriterPerTenant DEF IInv, Consistent, HasLock
  <2> QED  BY <2>2, <2>6, <2>7
<1>2. IInv => IndexNeverCollides
  BY <1>1 DEF IndexNeverCollides
<1> QED  BY <1>2, Invariance, PTL

(* The root stored in a row is the root of the leaves up to that row.      *)
THEOREM ChainNeverForks == Spec => []NoFork
<1>1. IInv => NoFork
  BY DEF IInv
<1> QED  BY <1>1, Invariance, PTL

(* One anchor for every completed interval, with the root of its row.      *)
THEOREM AnchorsCorrect == Spec => []AnchorsAgree
<1>1. IInv => AnchorsAgree
  BY DEF IInv
<1> QED  BY <1>1, Invariance, PTL

(* A request identifier is recorded at most once over all tenants.         *)
THEOREM RecordedOnce == Spec => []RequestRecordedOnce
<1>1. IInv => RequestRecordedOnce
  BY DEF IInv
<1> QED  BY <1>1, Invariance, PTL

Leaves(t) == Ordered(RowsOf(t))

-----------------------------------------------------------------------------
(* What the readers rely on                                                *)

\* A leaf digests the identifier and the position of its own row.
LeavesOwn == \A r \in entries : r.leaf = Leaf(r.request, r.index)

\* The row a reader found is still there when it reads the hashes.
FoundStays ==
  \A c \in Clients : found[c] # NoRow => found[c] \in entries

RInv == IInv /\ LeavesOwn /\ FoundStays /\ DOMAIN found = Clients

(* No row is ever taken away.                                              *)
LEMMA EntriesGrow == ASSUME [Next]_vars PROVE entries \subseteq entries'
BY StepCases, OnlyCommitWrites DEF Commit

(* Every step keeps what the readers rely on.                              *)
LEMMA RInvStep == RInv /\ [Next]_vars => RInv'
<1> SUFFICES ASSUME RInv, [Next]_vars PROVE RInv'
  OBVIOUS
<1>1. IInv'
  BY StepConsistent DEF RInv
<1>2. LeavesOwn'
  <2>1. CASE entries' = entries
    BY <2>1 DEF RInv, LeavesOwn
  <2>2. ASSUME NEW w \in Writers, Commit(w) PROVE LeavesOwn'
    BY <2>2 DEF Commit, RInv, LeavesOwn, NewRow, NewLeaf
  <2> QED  BY <2>1, <2>2, StepCases, OnlyCommitWrites
<1>3. DOMAIN found' = Clients /\ \A c \in Clients : found'[c] # NoRow => found'[c] \in entries
  <2>1. CASE found' = found
    BY <2>1 DEF RInv, FoundStays
  <2>2. ASSUME NEW c \in Clients, NEW t \in Tenants, NEW r \in Requests, FindEntry(c, t, r)
        PROVE  DOMAIN found' = Clients
               /\ \A d \in Clients : found'[d] # NoRow => found'[d] \in entries
    BY <2>2 DEF FindEntry, Visible, RInv, FoundStays
  <2>3. ASSUME NEW c \in Clients, ReadProof(c)
        PROVE  DOMAIN found' = Clients
               /\ \A d \in Clients : found'[d] # NoRow => found'[d] \in entries
    BY <2>3 DEF ReadProof, RInv, FoundStays
  <2> QED
    BY <2>1, <2>2, <2>3
    DEF Next, Writing, Reading, vars, Begin, AcquireLock, CountEntries, ReadHashes, Insert,
        InsertDuplicate, Commit, Rollback
<1> QED  BY <1>1, <1>2, <1>3, EntriesGrow DEF RInv, FoundStays

(* It holds in every reachable state.                                      *)
LEMMA RInvariance == Spec => []RInv
<1>1. Init => RInv
  BY InitConsistent DEF Init, RInv, LeavesOwn, FoundStays
<1> QED  BY <1>1, RInvStep, PTL DEF Spec

(* The root of the last row is the root of all the leaves of the tenant.   *)
LEMMA RootOfTable ==
  ASSUME IInv, NEW t \in Tenants
  PROVE  DbRoot(t) = MerkleRoot(Leaves(t))
<1> DEFINE S == RowsOf(t)
           n == Cardinality(S)
<1>1. Numbered(S) /\ Visible(t) = S /\ n \in Nat
  BY FS_CardinalityType DEF IInv, Consistent, RowsNumbered, Numbered, Visible, RowsOf
<1>2. CASE S = {}
  <2>1. n = 0
    BY <1>2, FS_EmptySet
  <2>2. Ordered(S) = <<>>
    BY <2>1 DEF Ordered
  <2> QED  BY <1>2, <2>2 DEF DbRoot, MerkleRoot, Leaves
<1>3. CASE S # {}
  <2>1. \A r \in S : r.index \in 0..(n - 1)
    BY <1>1 DEF Numbered
  <2>2. n \in 1..n
    BY <1>1, <1>3, <2>1
  <2>3. PICK last \in S : last.index = n - 1
    BY <1>1, <2>2, RowAt
  <2>4. \A r \in S : (\A q \in S : q.index <= r.index) <=> r = last
    <3> TAKE r \in S
    <3>1. (\A q \in S : q.index <= r.index) => r.index = n - 1
      BY <1>1, <2>1, <2>3
    <3>2. r.index = n - 1 => r = last
      BY <1>1, <2>3 DEF Numbered
    <3>3. \A q \in S : q.index <= last.index
      BY <1>1, <2>1, <2>3
    <3> QED  BY <3>1, <3>2, <3>3
  <2>5. LastRow(t) = last
    BY <1>1, <2>4 DEF LastRow
  <2>6. last.root = MerkleRoot(SubSeq(Ordered(S), 1, n))
    BY <1>1, <2>3 DEF IInv, NoFork
  <2>7. SubSeq(Ordered(S), 1, n) = Ordered(S)
    <3> DEFINE D == {r.leaf : r \in S}
    <3>1. \A r \in S : r.leaf \in D
      OBVIOUS
    <3> HIDE DEF D
    <3>2. Ordered(S) \in Seq(D) /\ Len(Ordered(S)) = n
      BY <1>1, <3>1, OrderedType
    <3> QED  BY <3>2
  <2> QED  BY <1>3, <2>5, <2>6, <2>7 DEF DbRoot, Leaves
<1> QED  BY <1>2, <1>3

\* The same fact about the state after a step.
RootsAgree == \A t \in Tenants : DbRoot(t) = MerkleRoot(Leaves(t))

(* The invariant of the next state gives the roots there.                  *)
LEMMA RootsAfterwards == IInv' => RootsAgree'
<1>1. IInv => RootsAgree
  BY RootOfTable DEF RootsAgree
<1> QED  BY <1>1, PTL

-----------------------------------------------------------------------------
(* The abstract module has its own copy of Merkle: they agree              *)

(* The abstract ledger has the same digests,                               *)
LEMMA SameEmpty == Abstract!EmptyHash = EmptyHash
BY DEF Abstract!EmptyHash, EmptyHash

(* the same roots                                                          *)
LEMMA SameRoot == \A s : Abstract!MerkleRoot(s) = MerkleRoot(s)
BY DEF Abstract!MerkleRoot, MerkleRoot, Abstract!LayerAt, LayerAt, Abstract!ParentLayer,
       ParentLayer, Abstract!Padded, Padded, Abstract!Node, Node, Abstract!Height, Height,
       Abstract!EmptyHash, EmptyHash

(* and the same proofs.                                                    *)
LEMMA SameProof == \A s, i : Abstract!MerkleProof(s, i) = MerkleProof(s, i)
BY DEF Abstract!MerkleProof, MerkleProof, Abstract!ProofStep, ProofStep, Abstract!LayerAt,
       LayerAt, Abstract!ParentLayer, ParentLayer, Abstract!Padded, Padded,
       Abstract!Node, Node, Abstract!Height, Height, Abstract!PositionAt, PositionAt

-----------------------------------------------------------------------------
(* Proofs of inclusion                                                     *)

(* The leaves of a tenant are distinct: each records its position.         *)
LEMMA LeavesShape ==
  ASSUME RInv, NEW t \in Tenants
  PROVE  /\ Cardinality(RowsOf(t)) \in Nat
         /\ Len(Leaves(t)) = Cardinality(RowsOf(t))
         /\ \E D : Leaves(t) \in Seq(D)
         /\ RowsOf(t) # {} => LeafList(Leaves(t))
<1> DEFINE S == RowsOf(t)
           D == {q.leaf : q \in S}
           n == Cardinality(S)
<1>1. Numbered(S) /\ n \in Nat
  BY FS_CardinalityType DEF RInv, IInv, Consistent, RowsNumbered, Numbered
<1>2. \A q \in S : q.leaf \in D
  OBVIOUS
<1> HIDE DEF D
<1>3. Leaves(t) \in Seq(D) /\ Len(Leaves(t)) = n
  BY <1>1, <1>2, OrderedType DEF Leaves
<1>4. ASSUME NEW i \in 1..n
      PROVE  \E r \in Requests : Leaves(t)[i] = Leaf(r, i - 1)
  <2>1. PICK q \in S : q.index = i - 1
    BY <1>1, RowAt
  <2>2. q.index + 1 = i
    BY <1>1, <2>1
  <2>3. Leaves(t)[i] = q.leaf
    BY <1>1, <2>2, OrderedIs DEF Leaves
  <2>4. q \in entries
    BY DEF RowsOf
  <2>5. q.leaf = Leaf(q.request, q.index) /\ q.request \in Requests
    BY <2>4 DEF RInv, LeavesOwn, IInv, Consistent, TypeOK
  <2> QED
    BY <2>1, <2>3, <2>5
<1>5. \A i \in 1..n : NotNode(Leaves(t)[i])
  <2> TAKE i \in 1..n
  <2>1. PICK r \in Requests : Leaves(t)[i] = Leaf(r, i - 1)
    BY <1>4
  <2> SUFFICES ASSUME NEW a, NEW b, Leaf(r, i - 1) = Node(a, b) PROVE FALSE
    BY <2>1 DEF NotNode
  <2>2. DOMAIN Leaf(r, i - 1) = {"request", "index"} /\ DOMAIN Node(a, b) = {"left", "right"}
    BY DEF Leaf, Node
  <2>3. "request" \notin {"left", "right"}
    OBVIOUS
  <2> QED
    BY <2>2, <2>3
<1>6. \A i, j \in 1..n : Leaves(t)[i] = Leaves(t)[j] => i = j
  <2> TAKE i, j \in 1..n
  <2>1. PICK r \in Requests : Leaves(t)[i] = Leaf(r, i - 1)
    BY <1>4
  <2>2. PICK q \in Requests : Leaves(t)[j] = Leaf(q, j - 1)
    BY <1>4
  <2>3. Leaf(r, i - 1).index = i - 1 /\ Leaf(q, j - 1).index = j - 1
    BY DEF Leaf
  <2> QED
    BY <1>1, <2>1, <2>2, <2>3
<1>7. ASSUME S # {} PROVE LeafList(Leaves(t))
  <2>1. n # 0
    BY <1>1, <1>7, FS_EmptySet DEF Numbered
  <2>2. IsLayer(Leaves(t))
    BY <1>1, <1>3, <2>1 DEF IsLayer
  <2> QED
    BY <1>3, <1>5, <1>6, <2>2 DEF LeafList
<1> QED
  BY <1>1, <1>3, <1>7

(* No step touches a prefix of the leaves of a tenant.                     *)
LEMMA PrefixesStay ==
  ASSUME RInv, [Next]_vars, NEW t \in Tenants, NEW n \in 1..Len(Leaves(t))
  PROVE  /\ n \in 1..Len(Leaves(t)')
         /\ SubSeq(Leaves(t)', 1, n) = SubSeq(Leaves(t), 1, n)
         /\ \A i \in 1..n : Leaves(t)'[i] = Leaves(t)[i]
<1>1. CASE RowsOf(t)' = RowsOf(t)
  <2>1. Leaves(t)' = Leaves(t)
    BY <1>1 DEF Leaves
  <2> QED
    BY <2>1
<1>2. ASSUME NEW w \in Writers, Commit(w), RowsOf(t)' # RowsOf(t)
      PROVE  \E e : Leaves(t)' = Append(Leaves(t), e)
  <2>1. PICK u : u = job[w].tenant
    OBVIOUS
  <2>2. u = t /\ RowsOf(t)' = RowsOf(t) \cup {NewRow(w)} /\ NewRow(w).index = Cardinality(RowsOf(t))
    BY <1>2, <2>1, CommitAppends DEF RInv, IInv
  <2>3. Numbered(RowsOf(t))
    BY DEF RInv, IInv, Consistent, RowsNumbered
  <2>4. Leaves(t)' = Append(Leaves(t), NewRow(w).leaf)
    BY <2>2, <2>3, Extend DEF Leaves
  <2> QED
    BY <2>4
<1>3. ASSUME NEW e, Leaves(t)' = Append(Leaves(t), e)
      PROVE  /\ n \in 1..Len(Leaves(t)')
             /\ SubSeq(Leaves(t)', 1, n) = SubSeq(Leaves(t), 1, n)
             /\ \A i \in 1..n : Leaves(t)'[i] = Leaves(t)[i]
  <2>1. PICK D : Leaves(t) \in Seq(D)
    BY LeavesShape
  <2> DEFINE E == D \cup {e}
             s == Leaves(t)
  <2>2. s \in Seq(E) /\ e \in E
    BY <2>1
  <2> HIDE DEF E, s
  <2>3. n \in 1..Len(s)
    BY DEF s
  <2>4. /\ n \in 1..Len(Append(s, e))
        /\ SubSeq(Append(s, e), 1, n) = SubSeq(s, 1, n)
        /\ \A i \in 1..n : Append(s, e)[i] = s[i]
    BY <2>2, <2>3
  <2> QED
    BY <1>3, <2>4 DEF s
<1>4. RowsOf(t)' = RowsOf(t) \/ \E w \in Writers : Commit(w)
  BY StepCases, OnlyCommitWrites DEF RowsOf
<1> QED
  BY <1>1, <1>2, <1>3, <1>4

\* What a client holds is a proof over a prefix of the leaves of a tenant.
ProofOf(p, t, n, idx) ==
  /\ p.ledger = t /\ p.size = n
  /\ n \in 1..Len(Leaves(t)) /\ idx \in 0..(n - 1)
  /\ p.leaf_hash = Leaves(t)[idx + 1]
  /\ p.proof = MerkleProof(SubSeq(Leaves(t), 1, n), idx)
  /\ p.root = MerkleRoot(SubSeq(Leaves(t), 1, n))

HeldFromPrefix ==
  /\ DOMAIN held = Clients
  /\ \A c \in Clients : held[c] # NoProof =>
       \E t \in Tenants : \E n \in Nat : \E idx \in Nat : ProofOf(held[c], t, n, idx)

(* The second SELECT of get_proof makes the proof of the whole list.       *)
LEMMA ReadProofHolds ==
  ASSUME RInv, NEW c \in Clients, ReadProof(c)
  PROVE  \E p : /\ held' = [held EXCEPT ![c] = p]
                /\ \E t \in Tenants : \E n \in Nat : \E idx \in Nat : ProofOf(p, t, n, idx)
<1>1. PICK row : row = found[c]
  OBVIOUS
<1>2. row \in entries
  BY <1>1 DEF ReadProof, RInv, FoundStays
<1>3. PICK t \in Tenants : t = row.tenant
  BY <1>2 DEF RInv, IInv, Consistent, TypeOK
<1> DEFINE S == RowsOf(t)
           all == Leaves(t)
           n == Cardinality(S)
           p == [ledger |-> row.tenant, entry_id |-> row.request, leaf_hash |-> row.leaf,
                 proof |-> MerkleProof(all, row.index), root |-> MerkleRoot(all),
                 size |-> Len(all)]
<1>4. row \in S /\ Numbered(S) /\ OrderedLeaves(t) = all
  BY <1>2, <1>3 DEF RInv, IInv, Consistent, RowsNumbered, RowsOf, OrderedLeaves, Visible, Leaves
<1>5. n \in Nat /\ row.index \in Nat /\ row.index + 1 \in 1..n /\ all[row.index + 1] = row.leaf
  BY <1>4, OrderedIs, FS_CardinalityType DEF Numbered, Leaves
<1>6. Len(all) = n /\ LeafList(all)
  BY <1>4, LeavesShape
<1>7. held' = [held EXCEPT ![c] = p]
  BY <1>1, <1>3, <1>4 DEF ReadProof
<1>8. n \in 1..n /\ row.index \in 0..(n - 1)
  BY <1>5
<1>9. SubSeq(all, 1, n) = all
  BY <1>6, <1>8, PrefixShape DEF LeafList
<1>10. /\ p.ledger = t /\ p.size = n /\ p.leaf_hash = all[row.index + 1]
       /\ p.proof = MerkleProof(all, row.index) /\ p.root = MerkleRoot(all)
  BY <1>3, <1>5, <1>6
<1> HIDE DEF p, all, n
<1>11. ProofOf(p, t, n, row.index)
  BY <1>6, <1>8, <1>9, <1>10 DEF ProofOf, all
<1> QED
  BY <1>5, <1>7, <1>11

(* What a client holds stays the proof of a prefix of its ledger.          *)
LEMMA HeldStep == ASSUME RInv, HeldFromPrefix, [Next]_vars PROVE HeldFromPrefix'
<1>1. ASSUME NEW p, NEW t \in Tenants, NEW n \in Nat, NEW idx \in Nat, ProofOf(p, t, n, idx),
             NEW q, q = p
      PROVE  /\ p.ledger = t /\ p.size = n
             /\ n \in 1..Len(Leaves(t)') /\ idx \in 0..(n - 1)
             /\ p.leaf_hash = Leaves(t)'[idx + 1]
             /\ p.proof = MerkleProof(SubSeq(Leaves(t)', 1, n), idx)
             /\ p.root = MerkleRoot(SubSeq(Leaves(t)', 1, n))
  <2>1. n \in 1..Len(Leaves(t)) /\ idx \in 0..(n - 1) /\ idx + 1 \in 1..n
    BY <1>1 DEF ProofOf
  <2>2. /\ n \in 1..Len(Leaves(t)')
        /\ SubSeq(Leaves(t)', 1, n) = SubSeq(Leaves(t), 1, n)
        /\ Leaves(t)'[idx + 1] = Leaves(t)[idx + 1]
    BY <2>1, PrefixesStay
  <2> QED
    BY <1>1, <2>1, <2>2 DEF ProofOf
<1>2. ASSUME NEW c \in Clients, held'[c] = held[c], held[c] # NoProof
      PROVE  \E t \in Tenants : \E n \in Nat : \E idx \in Nat : ProofOf(held[c], t, n, idx)'
  <2>1. PICK t \in Tenants, n \in Nat, idx \in Nat : ProofOf(held[c], t, n, idx)
    BY <1>2 DEF HeldFromPrefix
  <2>2. ProofOf(held[c], t, n, idx)'
    BY <1>1, <1>2, <2>1 DEF ProofOf
  <2> QED
    BY <2>2
<1>3. CASE held' = held
  BY <1>2, <1>3 DEF HeldFromPrefix
<1>4. ASSUME NEW c \in Clients, ReadProof(c) PROVE HeldFromPrefix'
  <2>1. PICK p : /\ held' = [held EXCEPT ![c] = p]
                 /\ \E t \in Tenants : \E n \in Nat : \E idx \in Nat : ProofOf(p, t, n, idx)
    BY <1>4, ReadProofHolds
  <2>2. PICK t \in Tenants, n \in Nat, idx \in Nat : ProofOf(p, t, n, idx)
    BY <2>1
  <2>3. held'[c] = p
    BY <2>1 DEF HeldFromPrefix
  <2>4. ProofOf(held[c], t, n, idx)'
    BY <1>1, <2>2, <2>3 DEF ProofOf
  <2>5. \A d \in Clients \ {c} : held'[d] = held[d]
    BY <2>1 DEF HeldFromPrefix
  <2> QED
    BY <1>2, <2>1, <2>4, <2>5 DEF HeldFromPrefix
<1>5. held' = held \/ \E c \in Clients : ReadProof(c)
  BY DEF Next, Writing, Reading, vars, Begin, AcquireLock, CountEntries, ReadHashes, Insert,
         InsertDuplicate, Commit, Rollback, FindEntry
<1> QED
  BY <1>3, <1>4, <1>5

(* A held proof leads to its own root, and to that of the table as long as *)
(* the prefix it covers is the whole.                                      *)
LEMMA ExactFromHeld == RInv /\ HeldFromPrefix => ProofExact
<1> SUFFICES ASSUME RInv, HeldFromPrefix, NEW c \in Clients, held[c] # NoProof
             PROVE  /\ FoldProof(held[c].leaf_hash, held[c].proof) = held[c].root
                    /\ VerifyIntegrity(held[c])
                         <=> held[c].size = Cardinality(RowsOf(held[c].ledger))
  BY DEF ProofExact
<1>1. PICK t \in Tenants, n \in Nat, idx \in Nat : ProofOf(held[c], t, n, idx)
  BY DEF HeldFromPrefix
<1>2. n \in 1..Len(Leaves(t)) /\ idx \in 0..(n - 1)
  BY <1>1 DEF ProofOf
<1>3. Len(Leaves(t)) = Cardinality(RowsOf(t)) /\ Cardinality(RowsOf(t)) \in Nat
  BY LeavesShape
<1>4. RowsOf(t) # {}
  <2>1. Cardinality({}) = 0
    BY FS_EmptySet
  <2> QED
    BY <1>2, <1>3, <2>1
<1>5. LeafList(Leaves(t))
  BY <1>4, LeavesShape
<1>6. FoldProof(held[c].leaf_hash, held[c].proof) = MerkleRoot(SubSeq(Leaves(t), 1, n))
  BY <1>1, <1>2, <1>5, ProofOfPrefix DEF ProofOf, LeafList
<1>7. MerkleRoot(SubSeq(Leaves(t), 1, n)) = MerkleRoot(Leaves(t)) <=> n = Len(Leaves(t))
  BY <1>2, <1>5, PrefixRoot
<1>8. LastRow(t).root = MerkleRoot(Leaves(t))
  BY <1>4, RootOfTable DEF RInv, DbRoot
<1>9. held[c].ledger = t /\ held[c].size = n /\ held[c].root = MerkleRoot(SubSeq(Leaves(t), 1, n))
  BY <1>1 DEF ProofOf
<1>10. Visible(t) # {}
  BY <1>4 DEF Visible, RowsOf
<1> QED
  BY <1>3, <1>6, <1>7, <1>8, <1>9, <1>10 DEF VerifyIntegrity

(* Put together from two snapshots or not, a proof of inclusion leads to   *)
(* the root it quotes, and is accepted exactly until the next entry of its *)
(* tenant is committed, for ledgers of any size (merkle.py 274-322).       *)
THEOREM ProofsAreExact == Spec => []ProofExact
<1>1. Init => HeldFromPrefix
  BY DEF Init, HeldFromPrefix
<1>2. Spec => []HeldFromPrefix
  BY <1>1, HeldStep, RInvariance, PTL DEF Spec
<1> QED
  BY <1>2, ExactFromHeld, RInvariance, PTL
-----------------------------------------------------------------------------
(* The refinement                                                          *)

(* The initial state is an initial state of the abstract ledgers.          *)
LEMMA RefinementInit == Init => Abstract!Init
<1> SUFFICES ASSUME Init PROVE Abstract!Init
  OBVIOUS
<1>1. \A t : RowsOf(t) = {}
  BY DEF Init, RowsOf
<1>2. Ordered({}) = <<>>
  BY FS_EmptySet DEF Ordered
<1>3. [t \in Tenants |-> Ordered(RowsOf(t))] = [t \in Tenants |-> <<>>]
  BY <1>1, <1>2
<1>4. [t \in Tenants |-> DbRoot(t)] = [t \in Tenants |-> EmptyHash]
  BY <1>1 DEF DbRoot
<1>5. held = [c \in Clients |-> Abstract!NoProof]
  BY DEF Init, NoProof, Abstract!NoProof
<1> QED  BY <1>3, <1>4, <1>5, SameEmpty DEF Abstract!Init

(* A step that leaves the tables and the proofs alone is a stutter.        *)
LEMMA Stutter ==
  ASSUME entries' = entries, held' = held
  PROVE  UNCHANGED Abstract!vars
BY DEF Abstract!vars, RowsOf, DbRoot, LastRow, Visible

(* Before a commit the tenant has fewer entries than there are requests.   *)
LEMMA RoomLeft ==
  ASSUME RInv, NEW w \in Writers, pc[w] = "inserted", NEW t \in Tenants
  PROVE  Cardinality(RowsOf(t)) < Cardinality(Requests)
<1> DEFINE x == job[w].request
           R == Requests \ {x}
           f == [r \in RowsOf(t) |-> r.request]
<1>1. x \in Requests /\ NewRow(w).request = x
  BY DEF RInv, IInv, Consistent, TypeOK, Job, NewRow
<1>2. \A r \in entries : r.request # x /\ r.request \in Requests
  BY <1>1 DEF RInv, IInv, Consistent, TypeOK, PendingDistinct, Duplicate, Conflict
<1>3. f \in [RowsOf(t) -> R]
  BY <1>2 DEF RowsOf
<1>4. \A a, b \in RowsOf(t) : f[a] = f[b] => a = b
  BY DEF RowsOf, RInv, IInv, RequestRecordedOnce
<1>5. f \in Injection(RowsOf(t), R)
  BY <1>3, <1>4, Fun_IsInj
<1>6. IsFiniteSet(R) /\ Cardinality(R) = Cardinality(Requests) - 1
  BY <1>1, FiniteRequests, FS_RemoveElement
<1>7. Cardinality(RowsOf(t)) <= Cardinality(R)
  BY <1>5, <1>6, FS_Injection, Fun_ExistsInj
<1>8. Cardinality(Requests) \in Nat /\ Cardinality(RowsOf(t)) \in Nat
  BY FiniteRequests, FS_CardinalityType DEF RInv, IInv, Consistent, RowsNumbered, Numbered
<1> QED  BY <1>6, <1>7, <1>8

(* A commit is an add_entry of its tenant.                                 *)
LEMMA CommitRefines ==
  ASSUME RInv, IInv', NEW w \in Writers, Commit(w)
  PROVE  Abstract!Next
<1>1. PICK t : t = job[w].tenant
  OBVIOUS
<1>2. PICK r : r = job[w].request
  OBVIOUS
<1>3. t \in Tenants /\ r \in Requests
  BY <1>1, <1>2 DEF Commit, RInv, IInv, Consistent, TypeOK, Job
<1> DEFINE x == NewRow(w)
           n == Cardinality(RowsOf(t))
           leaf == Leaf(r, n)
           grown == Append(Ordered(RowsOf(t)), leaf)
           old == [s \in Tenants |-> Ordered(RowsOf(s))]
           oldRoot == [s \in Tenants |-> DbRoot(s)]
<1>4. /\ x.index = n
      /\ RowsOf(t)' = RowsOf(t) \cup {x}
      /\ \A s \in Tenants \ {t} : RowsOf(s)' = RowsOf(s)
  BY <1>1, CommitAppends DEF RInv, IInv
<1>5. x.leaf = leaf
  BY <1>2, <1>4 DEF NewRow, NewLeaf
<1>6. Numbered(RowsOf(t))
  BY <1>3 DEF RInv, IInv, Consistent, RowsNumbered
<1>7. Ordered(RowsOf(t))' = grown
  BY <1>4, <1>5, <1>6, Extend
<1>8. Len(Ordered(RowsOf(t))) = n
  <2> DEFINE D == {q.leaf : q \in RowsOf(t)}
  <2>1. \A q \in RowsOf(t) : q.leaf \in D
    OBVIOUS
  <2> HIDE DEF D
  <2> QED  BY <1>6, <2>1, OrderedType
<1>9. [s \in Tenants |-> Ordered(RowsOf(s))]' = [old EXCEPT ![t] = grown]
  <2>1. \A s \in Tenants \ {t} : Ordered(RowsOf(s))' = old[s]
    BY <1>4
  <2> QED  BY <1>3, <1>7, <2>1
<1>10. [s \in Tenants |-> DbRoot(s)]' = [oldRoot EXCEPT ![t] = MerkleRoot(grown)]
  <2>1. DbRoot(t)' = MerkleRoot(grown)
    <3>1. DbRoot(t)' = MerkleRoot(Leaves(t)')
      BY <1>3, RootsAfterwards DEF RootsAgree
    <3> QED  BY <1>7, <3>1 DEF Leaves
  <2>2. \A s \in Tenants \ {t} : DbRoot(s)' = DbRoot(s)
    <3> TAKE s \in Tenants \ {t}
    <3>1. RowsOf(s)' = RowsOf(s)
      BY <1>4
    <3>2. Visible(s) = RowsOf(s) /\ Visible(s)' = RowsOf(s)'
      BY DEF Visible, RowsOf
    <3> QED  BY <3>1, <3>2 DEF DbRoot, LastRow
  <2> QED  BY <1>3, <2>1, <2>2
<1>11. Len(old[t]) < Cardinality(Requests)
  BY <1>3, <1>8, RoomLeft DEF Commit
<1>12. Abstract!Leaf(r, Len(old[t])) = leaf
  BY <1>3, <1>8 DEF Abstract!Leaf, Leaf
<1>13. held' = held
  BY DEF Commit
<1>14. Abstract!AddEntry(t, r)
  BY <1>3, <1>9, <1>10, <1>11, <1>12, <1>13, SameRoot DEF Abstract!AddEntry
<1> QED  BY <1>3, <1>14 DEF Abstract!Next

(* The second SELECT of get_proof is a get_proof of the tenant.            *)
LEMMA ReadProofRefines ==
  ASSUME RInv, NEW c \in Clients, ReadProof(c)
  PROVE  Abstract!Next
<1>1. PICK row : row = found[c]
  OBVIOUS
<1>2. row \in entries
  BY <1>1 DEF ReadProof, RInv, FoundStays
<1>3. PICK t \in Tenants : t = row.tenant
  BY <1>2 DEF RInv, IInv, Consistent, TypeOK
<1>4. PICK r \in Requests : r = row.request
  BY <1>2 DEF RInv, IInv, Consistent, TypeOK
<1> DEFINE S == RowsOf(t)
           all == Ordered(S)
           n == Cardinality(S)
           old == [s \in Tenants |-> Ordered(RowsOf(s))]
           oldRoot == [s \in Tenants |-> DbRoot(s)]
<1>5. row \in S /\ Numbered(S) /\ OrderedLeaves(t) = all
  BY <1>2, <1>3 DEF RInv, IInv, Consistent, RowsNumbered, RowsOf, OrderedLeaves, Visible
<1>6. n \in Nat /\ row.index \in Nat /\ row.index + 1 \in 1..n /\ all[row.index + 1] = row.leaf
  BY <1>5, OrderedIs, FS_CardinalityType DEF Numbered
<1>7. Len(all) = n
  <2> DEFINE D == {q.leaf : q \in S}
  <2>1. \A q \in S : q.leaf \in D
    OBVIOUS
  <2> HIDE DEF D
  <2> QED  BY <1>5, <2>1, OrderedType
<1>8. \A i \in 1..n : all[i].request = r <=> i = row.index + 1
  <2> TAKE i \in 1..n
  <2>1. PICK q \in S : q.index = i - 1
    BY <1>5, RowAt
  <2>2. q.index + 1 = i
    BY <1>6, <2>1
  <2>3. all[i] = q.leaf
    BY <1>5, <2>2, OrderedIs
  <2>4. q \in entries /\ all[i].request = q.request
    <3>1. q \in entries
      BY <2>1 DEF RowsOf
    <3>2. q.leaf = Leaf(q.request, q.index)
      BY <3>1 DEF RInv, LeavesOwn
    <3> QED  BY <2>3, <3>1, <3>2 DEF Leaf
  <2>5. q.request = row.request <=> q = row
    BY <1>2, <2>4 DEF RInv, IInv, RequestRecordedOnce
  <2>6. q = row <=> i = row.index + 1
    BY <1>5, <1>6, <2>1, <2>2 DEF Numbered
  <2> QED  BY <1>4, <2>4, <2>5, <2>6
<1>9. Abstract!FirstIndex(t, r) = row.index
  <2>1. \A i \in 0..(n - 1) :
          (/\ all[i + 1].request = r
           /\ \A j \in 0..(i - 1) : all[j + 1].request # r) <=> i = row.index
    <3> TAKE i \in 0..(n - 1)
    <3>1. i + 1 \in 1..n
      BY <1>6
    <3>2. all[i + 1].request = r <=> i = row.index
      BY <1>6, <1>8, <3>1
    <3>3. i = row.index => \A j \in 0..(i - 1) : all[j + 1].request # r
      <4> SUFFICES ASSUME i = row.index, NEW j \in 0..(i - 1)
                   PROVE  all[j + 1].request # r
        OBVIOUS
      <4>1. j + 1 \in 1..n /\ j + 1 # row.index + 1
        BY <1>6
      <4> QED  BY <1>8, <4>1
    <3> QED  BY <3>2, <3>3
  <2>2. row.index \in 0..(n - 1)
    BY <1>6
  <2> QED  BY <1>3, <1>7, <2>1, <2>2 DEF Abstract!FirstIndex
<1>10. held' = [held EXCEPT ![c] =
                  [ledger |-> t, entry_id |-> r, leaf_hash |-> row.leaf,
                   proof |-> MerkleProof(all, row.index), root |-> MerkleRoot(all),
                   size |-> n]]
  BY <1>1, <1>3, <1>4, <1>5, <1>7 DEF ReadProof
<1>11. oldRoot[t] = MerkleRoot(all)
  BY <1>3, RootOfTable DEF RInv, Leaves
<1>12. all[row.index + 1].request = r
  BY <1>6, <1>8
<1>13. Abstract!Proof(t, old[t], Abstract!FirstIndex(t, r), oldRoot[t])
         = [ledger |-> t, entry_id |-> r, leaf_hash |-> row.leaf,
            proof |-> MerkleProof(all, row.index), root |-> MerkleRoot(all), size |-> n]
  BY <1>3, <1>6, <1>7, <1>9, <1>11, <1>12, SameProof DEF Abstract!Proof
<1>14. entries' = entries
  BY DEF ReadProof
<1>15. UNCHANGED <<old, oldRoot>>
  BY <1>14 DEF RowsOf, DbRoot, LastRow, Visible
<1>16. \E i \in 1..Len(old[t]) : old[t][i].request = r
  BY <1>3, <1>6, <1>7, <1>12
<1>17. Abstract!GetProof(c, t, r)
  BY <1>10, <1>13, <1>15, <1>16 DEF Abstract!GetProof
<1> QED  BY <1>3, <1>4, <1>17 DEF Abstract!Next

(* Every step is one of an abstract ledger, or none.                       *)
LEMMA RefinementStep ==
  ASSUME RInv, IInv', [Next]_vars
  PROVE  [Abstract!Next]_(Abstract!vars)
<1>1. CASE \E w \in Writers : Commit(w)
  BY <1>1, CommitRefines
<1>2. CASE \E c \in Clients : ReadProof(c)
  BY <1>2, ReadProofRefines
<1>3. CASE /\ ~ \E w \in Writers : Commit(w)
           /\ ~ \E c \in Clients : ReadProof(c)
  <2>1. entries' = entries /\ held' = held
    BY <1>3
    DEF Next, Writing, Reading, vars, Begin, AcquireLock, CountEntries, ReadHashes, Insert,
        InsertDuplicate, Rollback, FindEntry
  <2> QED  BY <2>1, Stutter
<1> QED  BY <1>1, <1>2, <1>3

(* Whatever the writers do, crash and wait for included, every tenant sees *)
(* an append-only ledger of its own whose operations are atomic.           *)
THEOREM Refinement == Spec => ImplementsDecisionLedger
<1>1. RInv /\ RInv' /\ [Next]_vars => [Abstract!Next]_(Abstract!vars)
  BY RefinementStep DEF RInv
<1> QED  BY <1>1, RInvariance, RefinementInit, PTL DEF Spec, ImplementsDecisionLedger, Abstract!Spec
=============================================================================
